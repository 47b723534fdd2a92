------------------------------ MODULE MCSelfie ------------------------------
EXTENDS Selfie, TLC
CONSTANTS p1, p2
(* A reading, as the bits in which it differs from the first one: block 0  *)
(* is bits 0 to 2, block 1 is 3 to 5, and 6 and 7 are in no block.         *)
Differs(bits) == [i \in 0..7 |-> IF i \in bits THEN 1 ELSE 0]
MCReadings == {Differs({}), Differs({0}), Differs({0, 1}), Differs({0, 3}), Differs({7})}
MCFew == {Differs({}), Differs({0})}
Deployed(store, native, readings, sessions, begins, restarts, until) ==
  [store |-> store, native |-> native, readings |-> readings, sessions |-> sessions,
   begins |-> begins, restarts |-> restarts, until |-> until]
(* The extractor with every reading; two sessions whose tokens and         *)
(* summaries are mixed; the shared stores, where requests fail.            *)
MCSelfieDeployments ==
  <<Deployed("memory", FALSE, MCReadings, {p1}, 1, 1, MaxSelfieTime),
    Deployed("memory", TRUE, MCFew, {p1, p2}, 2, 0, 2),
    Deployed("redis", FALSE, MCFew, {p1}, 2, 1, MaxSelfieTime),
    Deployed("firestore", FALSE, {Differs({}), Differs({0, 1})}, {p1}, 2, 1, MaxSelfieTime)>>
=============================================================================
