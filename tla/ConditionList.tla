--------------------------- MODULE ConditionList ---------------------------
(***************************************************************************)
(* Status.Conditions of a resource, and the accessors of pkg/condition on  *)
(* it: a list searched by type from the front, extended at the end by the  *)
(* first write of a type. The reflection is left out; times are seconds,   *)
(* as RFC 3339 cuts them, and Never is the empty string.                   *)
(***************************************************************************)
EXTENDS Sequences, FiniteSetsExt

Never == 0
NoError == "no error"

(* Reason and message have no use for Type and Status, hence one shape.    *)
Condition == [type : STRING, status : STRING, reason : STRING,
              message : STRING, updated : Nat]

(* The provers take a literal for a string only if told so.                *)
ASSUME LiteralAssumption == {"", "Unknown", "True", "False", "Error"} \subseteq STRING

Absent == [type |-> "", status |-> "", reason |-> "", message |-> "",
           updated |-> Never]

NewCond(t) == [Absent EXCEPT !.type = t, !.status = "Unknown"]

-----------------------------------------------------------------------------
(* Where a type is in the list, 0 if nowhere (findCond).                   *)
Find(list, t) ==
    LET at == {i \in DOMAIN list : list[i].type = t}
    IN IF at = {} THEN 0 ELSE Min(at)

Has(list, t) == Find(list, t) # 0

(* findOrNotCreateCond; the getters return "" of an absent condition.      *)
Cond(list, t) == IF Has(list, t) THEN list[Find(list, t)] ELSE Absent

(* Plausible bug: a new entry at every write.                              *)
AlwaysCreate(list, t) == Append(list, NewCond(t))

FindOrCreate(list, t) == IF Has(list, t) THEN list ELSE Append(list, NewCond(t))

(* The entry of a type becomes c.                                          *)
Put(list, t, c) ==
    LET made == FindOrCreate(list, t) IN [made EXCEPT ![Find(made, t)] = c]

Entry(list, t) == LET made == FindOrCreate(list, t) IN made[Find(made, t)]

-----------------------------------------------------------------------------
(* Setters. Status and message touch the update time if they change the    *)
(* value (setValue), a reason never does.                                  *)

Touched(c, was, value, now) ==
    IF was = value THEN c ELSE [c EXCEPT !.updated = now]

SetStatus(list, t, value, now) ==
    LET c == Entry(list, t)
    IN Put(list, t, [Touched(c, c.status, value, now) EXCEPT !.status = value])

SetMessage(list, t, value, now) ==
    LET c == Entry(list, t)
    IN Put(list, t, [Touched(c, c.message, value, now) EXCEPT !.message = value])

SetReason(list, t, value) == Put(list, t, [Entry(list, t) EXCEPT !.reason = value])

LastUpdated(list, t, time) == Put(list, t, [Entry(list, t) EXCEPT !.updated = time])

SetMessageIfBlank(list, t, value, now) ==
    IF Cond(list, t).message = "" THEN SetMessage(list, t, value, now) ELSE list

CreateUnknownIfNotExists(list, t, now) ==
    IF Has(list, t) THEN list ELSE SetStatus(list, t, "Unknown", now)

(* True, False and Unknown with the message the handlers give them next.   *)
Told(list, t, value, message, now) ==
    SetMessage(SetStatus(list, t, value, now), t, message, now)

-----------------------------------------------------------------------------
(* How the generated status handlers would record the error of a pass.     *)

Reasoned(reason, err) == IF err # NoError /\ reason = "" THEN "Error" ELSE reason
Outcome(err) == IF err = NoError THEN "True" ELSE "False"
Said(err) == IF err = NoError THEN "" ELSE err

SetError(list, t, reason, err, now) ==
    SetReason(Told(list, t, Outcome(err), Said(err), now), t, Reasoned(reason, err))

MatchesError(list, t, reason, err) ==
    LET c == Cond(list, t)
    IN /\ c.status = Outcome(err)
       /\ c.message = Said(err)
       /\ c.reason = Reasoned(reason, err)
=============================================================================
