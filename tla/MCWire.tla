-------------------------------- MODULE MCWire --------------------------------
(* Small instances of Wire for TLC. *)
EXTENDS Wire

Calls(h, c) == [e \in Ends |-> IF e = hub THEN h ELSE c]

\* No stream was opened yet, or all ids but one were used.
Fresh    == [e \in Ends |-> IF e = hub THEN 1 ELSE 0]
NearWrap == [e \in Ends |-> IF e = hub THEN TwoBytes - 3 ELSE TwoBytes - 4]

Setup(keyed, x8, nonce, setting, last, n, pieces) ==
    [keyed |-> keyed, x8 |-> x8, nonce |-> nonce, setting |-> setting,
     last |-> last, calls |-> n, pieces |-> pieces]

Whole == HeaderSize + TwoBytes

\* One end writes and every byte may come alone; both write; the cipher
\* panics; the ids wrap, without a key, and frames are too large for readFrame.
\* Frame sizes at the limits of readFrame and of the configuration and past
\* them, and keys whose counter carries at once.
All ==
    {Setup(TRUE, 0, 0, TwoBytes - HeaderSize - 1, Fresh, Calls(3, 0), {1, Whole}),
     Setup(TRUE, 0, Words - 1, TwoBytes, Fresh, Calls(2, 1), {7, Whole}),
     Setup(TRUE, Words - 2, 0, 0, Fresh, Calls(2, 0), {3, Whole}),
     Setup(FALSE, 0, 0, TwoBytes - 1, NearWrap, Calls(3, 1), {Whole})}
===============================================================================
