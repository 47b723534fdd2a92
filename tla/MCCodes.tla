------------------------------ MODULE MCCodes ------------------------------
(* Codes by phone and mail, the limits on asking for them, and the session *)
(* record that ceremonies write.  A behaviour is one of OneTimeCode,       *)
(* Limiters or SessionStore.                                               *)
(*                                                                         *)
(* Codes: two spellings of one phone and one inbox; bogus and burner are   *)
(* inputs no method accepts.  Limits: two clients behind one proxy, one of *)
(* which moves inside its network and forges an entry; a mailbox and a     *)
(* phone under two spellings each.  Record: an email ceremony and an        *)
(* in-person vouch (an anchor, not biometric).                             *)
EXTENDS OneTimeCode, Limiters, SessionStore, TLC

CONSTANTS phone, alias, bogus, inbox, burner, netA, netB, addrA1, addrA2, addrB, proxy,
          email, vouch, mail
VARIABLE part

MCNormal == [i \in Inputs |-> IF i = alias THEN phone ELSE i]
(* In memory: every method, under every spelling.  The shared stores: one  *)
(* spelling, where calls overlap more; over Redis codes replace each other *)
(* or expire, over Firestore they expire and stay a while.                 *)
MCDeployments ==
  {[backend |-> "memory", methods |-> {m}, inputs |-> Inputs, codes |-> MaxCodes,
    until |-> MaxTime] : m \in Methods}
  \cup
  {[backend |-> "redis", methods |-> {m}, inputs |-> {phone, inbox, burner},
    codes |-> n, until |-> MaxCodes - n] : m \in {"sms", "email"}, n \in 1..MaxCodes}
  \cup
  {[backend |-> "firestore", methods |-> {m}, inputs |-> {phone, inbox, burner},
    codes |-> 1, until |-> MaxTime] : m \in {"sms", "email"}}
MCBlock == addrA1 :> netA @@ addrA2 :> netA @@ addrB :> netB @@ proxy :> proxy
Request(client, addr, forged, path, get) ==
  [client |-> client, path |-> path, get |-> get, peer |-> proxy,
   forwarded |-> forged \o <<addr>>]
MCRequests ==
  {Request(netA, addrA1, <<>>, "enrollment/start", FALSE),
   Request(netA, addrA2, <<addrB>>, "enrollment/start", FALSE),
   Request(netB, addrB, <<>>, "methods/begin", FALSE),
   Request(netB, addrB, <<>>, "config", TRUE),
   Request(netB, addrB, <<>>, "status-list", TRUE)}
MCRate == [c \in Classes |-> 1]
MCBurst == [c \in Classes |-> 1]

Spelled(name, tag, dots, host) ==
  [name |-> name, tag |-> tag, dots |-> dots, host |-> host]
MCIdentifiers ==
  {Spelled("a", FALSE, FALSE, "gmail.com"), Spelled("a", TRUE, TRUE, "googlemail.com"),
   Spelled("1", FALSE, TRUE, "00"),
   Spelled("1", FALSE, FALSE, "national")}
MCInbox ==
  [i \in MCIdentifiers |->
     IF i.host \in {"national", "00"} THEN "phone" ELSE "mailbox"]
MCTables == {"rate", "send", "hint"}

MCKindOf == [m \in Ceremonies |-> IF m = email THEN mail ELSE NoKind]

MCInit ==
  /\ part \in {"codes", "limits", "record"}
  /\ Init /\ LimitInit /\ SessionInit
  /\ part # "limits" => table = "rate"
  /\ part # "codes" => deployed = CHOOSE d \in MCDeployments : TRUE
MCNext ==
  \/ part = "codes" /\ Next /\ UNCHANGED <<part, limitVars, sessionVars>>
  \/ part = "limits" /\ LimitNext /\ UNCHANGED <<part, vars, sessionVars>>
  \/ part = "record" /\ SessionNext /\ UNCHANGED <<part, vars, limitVars>>
MCSpec == MCInit /\ [][MCNext]_<<part, vars, limitVars, sessionVars>>
Symmetry == Permutations(Handlers)   \* Callers are the same values
=============================================================================
