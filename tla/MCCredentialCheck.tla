------------------------- MODULE MCCredentialCheck --------------------------
(* Scenarios of CredentialCheck: revocation of two credentials on each     *)
(* kind of store, and one credential under several policies.  A behaviour  *)
(* is one of CredentialCheck, SlotStatements, DeviceAttest, FaceMatchCap   *)
(* or Selfie: what is checked about a key, a phone or a face.              *)
EXTENDS CredentialCheck, SlotStatements, DeviceAttest, FaceMatchCap, MCSelfie
CONSTANTS s1, s2, f4, f5
VARIABLE part

Plugin(id, type, strength, lifetime) ==
  [id |-> id, type |-> type, strength |-> strength, lifetime |-> lifetime]
sms      == Plugin("sms", "supplementary", 20, 1)
chip     == Plugin("chip", "anchor", 80, 2)
mistaken == Plugin("mistaken", "anchor", 40, 0)     \* never registered
twice    == Plugin("sms", "supplementary", 30, 0)

Open == [maxAge |-> 0, anchorAge |-> 0, allowed |-> {}, blocked |-> {}, floor |-> <<>>,
         points |-> 0, nullifier |-> FALSE, tag |-> "", anchor |-> FALSE]
MCPolicies ==
  {Open,
   [Open EXCEPT !.points = 20, !.blocked = {"mistaken"}],
   [Open EXCEPT !.points = 40, !.allowed = {"sms", "chip"}],
   [Open EXCEPT !.anchor = TRUE, !.anchorAge = 1, !.points = 10],
   [Open EXCEPT !.anchor = TRUE, !.nullifier = TRUE, !.tag = "vote"],
   [Open EXCEPT !.nullifier = TRUE],
   [Open EXCEPT !.maxAge = 1, !.floor = "sms" :> 25, !.blocked = {"chip"}],
   [Open EXCEPT !.allowed = {"chip"}]}

Revoking(store) ==
  [store |-> store, plugins |-> {twice}, policies |-> {Open}, sessions |-> {s1, s2},
   keyed |-> {}, admin |-> TRUE, enrolBy |-> 0]
Policies(keyed) ==
  [store |-> "memory", plugins |-> {sms, chip, mistaken, twice}, policies |-> MCPolicies,
   sessions |-> {s1}, keyed |-> keyed, admin |-> FALSE, enrolBy |-> 2]
MCScenarios ==
  <<Revoking("memory"), Revoking("redis"), Revoking("firestore"), Policies({}), Policies({s1})>>

MCSlotFields == {<<"a">>, <<"a", Newline, "a">>}

(* Phones: one in good state, one unlocked whose chain leaves the root out. *)
AttCert(subject, issuer, key, signedWith, serial, until) ==
  [subject |-> subject, issuer |-> issuer, key |-> key, signedWith |-> signedWith, serial |-> serial,
   until |-> until, ext |-> NoneAtt]
MCRoot == AttCert("root", "root", "google", "google", "r", 0)
Batch(serial, until) == AttCert(serial, "root", serial, "google", serial, until)
Phone(app, locked, chain) ==
  [app |-> app, chain |-> chain,
   state |-> [level |-> "tee", boot |-> "verified", locked |-> locked, origin |-> "generated",
              packages |-> {"wallet"}, signers |-> {"us"}]]
MCDevices == {Phone("app1", TRUE, <<Batch("b1", 9), MCRoot>>), Phone("app2", FALSE, <<Batch("b2", 9)>>)}
MCRoots == {MCRoot}

(* Two sessions of one holder, one of them reviewed.                       *)
MCHolderOf == [s \in CapSessions |-> IF s = f5 THEN f4 ELSE s]

(* The parts share the two values of sessions and calls, of which a        *)
(* behaviour uses those of one part.                                       *)
Symmetry == Permutations(Sessions)

MCInit ==
  /\ part \in {"check", "slots", "device", "cap", "selfie"}
  /\ CheckInit /\ SlotInit /\ AttInit /\ CapInit /\ SelfieInit
  /\ part # "check" => scenario = 1
  /\ part # "device" => mode = "fail-open"
  /\ part # "selfie" => setup = 1
MCNext ==
  \/ part = "check" /\ CheckNext /\ UNCHANGED <<part, slotVars, attVars, capVars, selfieVars>>
  \/ part = "slots" /\ SlotNext /\ UNCHANGED <<part, vars, attVars, capVars, selfieVars>>
  \/ part = "device" /\ AttNext /\ UNCHANGED <<part, vars, slotVars, capVars, selfieVars>>
  \/ part = "cap" /\ CapNext /\ UNCHANGED <<part, vars, slotVars, attVars, selfieVars>>
  \/ part = "selfie" /\ SelfieNext /\ UNCHANGED <<part, vars, slotVars, attVars, capVars>>
MCSpec == MCInit /\ [][MCNext]_<<part, vars, slotVars, attVars, capVars, selfieVars>>
=============================================================================
