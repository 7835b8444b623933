-------------------------------- MODULE Zone --------------------------------
(***************************************************************************)
(* What a caller of dns.Provider (dns/provider.go) may rely on, whichever  *)
(* provider is behind it.  A call is executed by the provider at most      *)
(* once, some time after it was made and perhaps after it was answered     *)
(* with an error.  It is answered with success only after it was executed. *)
(* A creation names the record it created, except that it may name a       *)
(* record that came to hold the same value through a call which was not    *)
(* over when the creation began.                                           *)
(***************************************************************************)
EXTENDS Integers

CONSTANTS
    Call,       \* the calls, and the records they create
    Value,      \* record values
    NoRecord    \* no record, no value

VARIABLES
    zone,       \* the value of the record a call created, or NoRecord
    asked,      \* per call: what is asked of the provider
    executed,   \* the calls the provider has executed
    result      \* per call: "none", "open", "ok" or "error", and the record named

vars == <<zone, asked, executed, result>>

Question ==
    [op : {"none", "create", "update", "delete", "zones"}, target : Call \cup {NoRecord},
     value : Value \cup {NoRecord}, since : SUBSET Call]

Nothing == [op |-> "none", target |-> NoRecord, value |-> NoRecord, since |-> {}]

(* The calls that are over: answered with success, a creation by its own name. *)
Settled == {d \in Call : /\ result[d].is = "ok"
                         /\ asked[d].op = "create" => result[d].id = d}

(* Only what a creation named is updated or deleted. *)
Ask(c) ==
    /\ result[c].is = "none"
    /\ result' = [result EXCEPT ![c].is = "open"]
    /\ UNCHANGED <<zone, executed>>
    /\ \E op \in {"create", "update", "delete", "zones"},
         t \in Call \cup {NoRecord}, v \in Value \cup {NoRecord} :
         /\ op \in {"update", "delete"} => \E d \in Call : result[d].is = "ok" /\ result[d].id = t
         /\ asked' = [asked EXCEPT ![c] =
                        [op |-> op, target |-> t, value |-> v, since |-> Settled]]

Effect(c) ==
    LET q == asked[c] IN
    CASE q.op = "create" -> [zone EXCEPT ![c] = q.value]
      [] q.op = "update" -> [zone EXCEPT ![q.target] = q.value]
      [] q.op = "delete" -> [zone EXCEPT ![q.target] = NoRecord]
      [] OTHER -> zone

Execute(c) ==
    /\ result[c].is \in {"open", "error"}
    /\ c \notin executed
    /\ asked[c].op = "update" => zone[asked[c].target] # NoRecord
    /\ zone' = Effect(c)
    /\ executed' = executed \cup {c}
    /\ UNCHANGED <<asked, result>>

(* Call d gave record i the value that c asked for. *)
Gives(d, i, v) ==
    /\ asked[d].value = v
    /\ \/ asked[d].op = "create" /\ d = i
       \/ asked[d].op = "update" /\ asked[d].target = i

MayName(c, i) ==
    \/ i = c
    \/ \E d \in Call \ (asked[c].since \cup {c}) : Gives(d, i, asked[c].value)

Succeed(c, i) ==
    /\ result[c].is = "open"
    /\ c \in executed
    /\ IF asked[c].op = "create" THEN MayName(c, i) ELSE i = NoRecord
    /\ result' = [result EXCEPT ![c] = [is |-> "ok", id |-> i]]
    /\ UNCHANGED <<zone, asked, executed>>

Refuse(c) ==
    /\ result[c].is = "open"
    /\ result' = [result EXCEPT ![c] = [is |-> "error", id |-> NoRecord]]
    /\ UNCHANGED <<zone, asked, executed>>

Init ==
    /\ zone = [c \in Call |-> NoRecord]
    /\ asked = [c \in Call |-> Nothing]
    /\ executed = {}
    /\ result = [c \in Call |-> [is |-> "none", id |-> NoRecord]]

Next ==
    \E c \in Call :
      \/ Ask(c) \/ Execute(c) \/ Refuse(c)
      \/ \E i \in Call \cup {NoRecord} : Succeed(c, i)

Spec == Init /\ [][Next]_vars
=============================================================================
