------------------------------- MODULE MCStartup -------------------------------
\* Startup with bytes of four values: 16 is 2^16, 256 is 2^32, and 4^3 is a
\* fourth of that, as 1024^3 is of 2^32.
EXTENDS Startup

Plain(opt, nums) == [opt : {opt}, num : nums, metric : {"BPS"}]

\* Values that fit, that are truncated to 0 and to less, and a negative one.
clientOptions ==
  Plain("s", {0}) \cup Plain("c", {0}) \cup Plain("d", {0}) \cup Plain("p", {6})
    \cup Plain("l", {7, 256}) \cup Plain("n", {2, 16}) \cup Plain("t", {3, 17, 16})
    \cup Plain("w", {-1})
    \cup [opt : {"b"}, num : {4}, metric : {"BPS", "GBPS"}]
serverOptions == Plain("s", {0}) \cup Plain("i", {16})

\* The options that matter to one question; what a fresh heap holds, and others.
bandwidths ==
  Plain("c", {0}) \cup [opt : {"b"}, num : {1, 4}, metric : {"BPS", "KBPS", "GBPS"}]
ports == Plain("s", {0}) \cup Plain("p", {6, 12})
Left(delay, bandwidth, duration, wait, streams, offset) ==
  [one_way_delay |-> delay, bandwidth |-> bandwidth, experiment_duration |-> duration,
   wait_duration |-> wait, parallel_streams |-> streams, offset |-> offset]
fresh == Left(0, 0, 0, 0, 0, 0)
clean == {fresh}
\* 32 is two times 2^16, 17 is one more than 2^16.
dirty == {fresh, Left(32, 17, 0, 3, 2, 1), Left(17, 0, 9, 0, 0, 5)}
unclean == {fresh, Left(1, 0, 0, 0, 0, 0)}
plainClient == Plain("c", {0}) \cup Plain("d", {0}) \cup Plain("t", {3})
=============================================================================
