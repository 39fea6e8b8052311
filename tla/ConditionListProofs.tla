------------------------ MODULE ConditionListProofs ------------------------
(***************************************************************************)
(* Proofs about ConditionList: what the accessors of pkg/condition do to a *)
(* list of conditions of any length and any types.                         *)
(***************************************************************************)
EXTENDS ConditionList, LeastElement, SequenceTheorems

Conditions == Seq(Condition)

(* A type is there once.                                                   *)
Single(list) == \A i, j \in DOMAIN list : list[i].type = list[j].type => i = j

(* Writing a type leaves the other ones alone and makes no second entry.   *)
Wrote(list, t, after) ==
    /\ after \in Conditions
    /\ Has(after, t)
    /\ \A u \in STRING \ {t} : Has(after, u) = Has(list, u) /\ Cond(after, u) = Cond(list, u)
    /\ Single(list) => Single(after)

-----------------------------------------------------------------------------
(* The search returns the first entry of the type, or 0.                   *)
LEMMA FindFirst ==
    ASSUME NEW list \in Conditions, NEW t
    PROVE  /\ Has(list, t) <=> \E i \in DOMAIN list : list[i].type = t
           /\ Has(list, t) => /\ Find(list, t) \in DOMAIN list
                              /\ list[Find(list, t)].type = t
                              /\ \A i \in DOMAIN list :
                                    list[i].type = t => Find(list, t) <= i
           /\ DOMAIN list = 1..Len(list) /\ Len(list) \in Nat
<1> DEFINE at == {i \in DOMAIN list : list[i].type = t}
<1>1. DOMAIN list = 1..Len(list) /\ Len(list) \in Nat
  BY LenProperties DEF Conditions
<1>2. at \in SUBSET Nat /\ 0 \notin at
  BY <1>1
<1>3. Find(list, t) = IF at = {} THEN 0 ELSE Min(at)
  BY DEF Find
<1>4. at # {} => Min(at) \in at /\ \A i \in at : Min(at) <= i
  BY <1>2, MinOfNats
<1>5. Has(list, t) <=> at # {}
  BY <1>2, <1>3, <1>4 DEF Has
<1> QED BY <1>1, <1>3, <1>4, <1>5

(* The first entry of a type is determined by being the first.             *)
LEMMA FirstUnique ==
    ASSUME NEW list \in Conditions, NEW t, NEW k \in DOMAIN list, list[k].type = t,
           \A i \in DOMAIN list : list[i].type = t => k <= i
    PROVE  Has(list, t) /\ Find(list, t) = k /\ Cond(list, t) = list[k]
<1>1. Has(list, t) /\ Find(list, t) \in DOMAIN list
      /\ list[Find(list, t)].type = t /\ Find(list, t) <= k
  BY FindFirst
<1>2. k <= Find(list, t) /\ k \in Nat /\ Find(list, t) \in Nat
  BY <1>1, FindFirst
<1> QED BY <1>1, <1>2 DEF Cond

LEMMA NewCondType ==
    ASSUME NEW t \in STRING
    PROVE  NewCond(t) \in Condition /\ NewCond(t).type = t
<1> QED BY LiteralAssumption DEF NewCond, Absent, Condition, Never

(* Two lists that agree on where a type is agree on what is found.         *)
LEMMA SameFound ==
    ASSUME NEW list \in Conditions, NEW after \in Conditions, NEW u,
           Len(list) <= Len(after),
           \A i \in DOMAIN list : (after[i].type = u) = (list[i].type = u)
                                  /\ (list[i].type = u => after[i] = list[i]),
           \A i \in DOMAIN after \ DOMAIN list : after[i].type # u
    PROVE  Has(after, u) = Has(list, u) /\ Cond(after, u) = Cond(list, u)
<1>1. DOMAIN list \subseteq DOMAIN after
  BY FindFirst
<1>2. CASE Has(list, u)
  <2> DEFINE k == Find(list, u)
  <2>1. k \in DOMAIN list /\ list[k].type = u
        /\ \A i \in DOMAIN list : list[i].type = u => k <= i
    BY <1>2, FindFirst
  <2>2. k \in DOMAIN after /\ after[k] = list[k]
        /\ \A i \in DOMAIN after : after[i].type = u => k <= i
    BY <1>1, <2>1
  <2>3. Has(after, u) /\ Cond(after, u) = after[k]
    BY <2>1, <2>2, FirstUnique
  <2> QED BY <1>2, <2>2, <2>3 DEF Cond
<1>3. CASE ~ Has(list, u)
  <2>1. \A i \in DOMAIN after : after[i].type # u
    BY <1>3, FindFirst
  <2>2. ~ Has(after, u)
    BY <2>1, FindFirst
  <2> QED BY <1>3, <2>2 DEF Cond, Has
<1> QED BY <1>2, <1>3

(* An entry is made at the end, if there is none.                          *)
LEMMA Made ==
    ASSUME NEW list \in Conditions, NEW t \in STRING
    PROVE  /\ Wrote(list, t, FindOrCreate(list, t))
           /\ Entry(list, t) = Cond(FindOrCreate(list, t), t)
           /\ Entry(list, t) \in Condition /\ Entry(list, t).type = t
           /\ Has(list, t) => Entry(list, t) = Cond(list, t)
           /\ ~ Has(list, t) => Entry(list, t) = NewCond(t)
<1> DEFINE made == FindOrCreate(list, t)
<1>1. CASE Has(list, t)
  <2>1. made = list
    BY <1>1 DEF FindOrCreate
  <2>2. Wrote(list, t, made)
    BY <1>1, <2>1 DEF Wrote
  <2>3. /\ Entry(list, t) = list[Find(list, t)] /\ Find(list, t) \in DOMAIN list
        /\ list[Find(list, t)].type = t
    BY <1>1, <2>1, FindFirst DEF Entry
  <2>4. Entry(list, t) \in Condition
    BY <2>3, ElementOfSeq, FindFirst DEF Conditions
  <2> QED BY <1>1, <2>1, <2>2, <2>3, <2>4 DEF Cond
<1>2. CASE ~ Has(list, t)
  <2> DEFINE new == NewCond(t)
  <2>1. new \in Condition /\ new.type = t /\ made = Append(list, new)
    BY <1>2, NewCondType DEF FindOrCreate
  <2> HIDE DEF new, made
  <2>2. /\ made \in Conditions /\ Len(made) = Len(list) + 1
        /\ \A i \in 1 .. Len(list) : made[i] = list[i]
        /\ made[Len(list) + 1] = new
    BY <2>1, AppendProperties DEF Conditions
  <2>3. /\ DOMAIN list = 1..Len(list) /\ Len(list) \in Nat
        /\ DOMAIN made = 1..(Len(list) + 1)
        /\ \A i \in DOMAIN list : list[i].type # t
    BY <1>2, <2>2, FindFirst
  <2>4. \A i \in DOMAIN made : made[i].type = t => i = Len(list) + 1
    BY <2>2, <2>3
  <2>5. Has(made, t) /\ Find(made, t) = Len(list) + 1 /\ Cond(made, t) = new
    <3>1. Len(list) + 1 \in DOMAIN made /\ made[Len(list) + 1].type = t
      BY <2>1, <2>2, <2>3
    <3>2. \A i \in DOMAIN made : made[i].type = t => Len(list) + 1 <= i
      BY <2>3, <2>4
    <3> QED BY <2>2, <3>1, <3>2, FirstUnique
  <2>6. \A u \in STRING \ {t} : Has(made, u) = Has(list, u) /\ Cond(made, u) = Cond(list, u)
    <3>1. \A i \in DOMAIN made \ DOMAIN list : made[i].type = t
      BY <2>1, <2>2, <2>3
    <3> QED BY <2>2, <2>3, <3>1, SameFound
  <2>7. Single(list) => Single(made)
    BY <2>1, <2>2, <2>3, <2>4 DEF Single
  <2>8. Wrote(list, t, made)
    BY <2>2, <2>5, <2>6, <2>7 DEF Wrote
  <2>9. Entry(list, t) = Cond(made, t)
    BY <2>5 DEF Entry, Cond, made
  <2>10. Entry(list, t) = NewCond(t)
    BY <2>5, <2>9 DEF new
  <2> QED BY <1>2, <2>1, <2>5, <2>8, <2>9, <2>10 DEF made
<1> QED BY <1>1, <1>2

(* A write is read back, and only by those who ask for its type.           *)
LEMMA PutProperties ==
    ASSUME NEW list \in Conditions, NEW t \in STRING, NEW c \in Condition, c.type = t
    PROVE  Wrote(list, t, Put(list, t, c)) /\ Cond(Put(list, t, c), t) = c
<1> DEFINE made == FindOrCreate(list, t)  k == Find(made, t)  put == [made EXCEPT ![k] = c]
<1>1. Wrote(list, t, made)
  BY Made
<1>2. made \in Conditions /\ Has(made, t)
  BY <1>1 DEF Wrote
<1>3. /\ k \in DOMAIN made /\ made[k].type = t /\ DOMAIN made = 1..Len(made)
      /\ \A i \in DOMAIN made : made[i].type = t => k <= i
  BY <1>2, FindFirst
<1> HIDE DEF made, k
<1>4. /\ put \in Conditions /\ Len(put) = Len(made)
      /\ \A j \in DOMAIN made : put[j] = IF j = k THEN c ELSE made[j]
  BY <1>2, <1>3, ExceptSeq DEF Conditions
<1>5. Put(list, t, c) = put
  BY DEF Put, made, k
<1> HIDE DEF put
<1>6. DOMAIN put = DOMAIN made
  BY <1>2, <1>4, FindFirst
<1>7. \A j \in DOMAIN made : put[j].type = made[j].type
  BY <1>3, <1>4
<1>8. Has(put, t) /\ Cond(put, t) = c
  <2>1. \A i \in DOMAIN put : put[i].type = t => k <= i
    BY <1>3, <1>6, <1>7
  <2>2. k \in DOMAIN put /\ put[k] = c /\ put[k].type = t
    BY <1>3, <1>4, <1>6
  <2> QED BY <1>4, <2>1, <2>2, FirstUnique
<1>9. ASSUME NEW u \in STRING \ {t}
      PROVE  Has(put, u) = Has(list, u) /\ Cond(put, u) = Cond(list, u)
  <2>1. Has(put, u) = Has(made, u) /\ Cond(put, u) = Cond(made, u)
    <3>1. \A i \in DOMAIN made : (put[i].type = u) = (made[i].type = u)
                                 /\ (made[i].type = u => put[i] = made[i])
      BY <1>3, <1>4, <1>7
    <3>2. DOMAIN put \ DOMAIN made = {} /\ Len(made) <= Len(put)
      BY <1>2, <1>4, <1>6, FindFirst
    <3> QED BY <1>2, <1>4, <3>1, <3>2, SameFound
  <2> QED BY <1>1, <2>1 DEF Wrote
<1>10. Single(list) => Single(put)
  BY <1>1, <1>6, <1>7 DEF Wrote, Single
<1> QED BY <1>4, <1>5, <1>8, <1>9, <1>10 DEF Wrote

-----------------------------------------------------------------------------
(* The setters.                                                            *)

LEMMA TouchedType ==
    ASSUME NEW c \in Condition, NEW was, NEW value, NEW now \in Nat
    PROVE  /\ Touched(c, was, value, now) \in Condition
           /\ Touched(c, was, value, now).type = c.type
           /\ Touched(c, was, value, now).status = c.status
           /\ Touched(c, was, value, now).reason = c.reason
           /\ Touched(c, was, value, now).message = c.message
<1> QED BY DEF Touched, Condition

(* A status is read back, with the message and reason there were; of the   *)
(* other conditions nothing changes, and no condition appears twice        *)
(* (setStatus, setValue, findOrCreateCond).                                *)
THEOREM StatusWritten ==
    ASSUME NEW list \in Conditions, NEW t \in STRING, NEW value \in STRING, NEW now \in Nat
    PROVE  /\ Wrote(list, t, SetStatus(list, t, value, now))
           /\ Cond(SetStatus(list, t, value, now), t) =
                 [Touched(Entry(list, t), Entry(list, t).status, value, now)
                     EXCEPT !.status = value]
           /\ Cond(SetStatus(list, t, value, now), t).status = value
<1> DEFINE c == Entry(list, t)  d == Touched(c, c.status, value, now)
           e == [d EXCEPT !.status = value]
<1>1. c \in Condition /\ c.type = t
  BY Made
<1> HIDE DEF c
<1>2. d \in Condition /\ d.type = t
  BY <1>1, TouchedType
<1> HIDE DEF d
<1>3. e \in Condition /\ e.type = t /\ e.status = value
  BY <1>2 DEF Condition
<1>4. SetStatus(list, t, value, now) = Put(list, t, e)
  BY DEF SetStatus, c, d
<1> HIDE DEF e
<1>5. Wrote(list, t, Put(list, t, e)) /\ Cond(Put(list, t, e), t) = e
  BY <1>3, PutProperties
<1> QED BY <1>3, <1>4, <1>5 DEF c, d, e

(* So is a message (setValue).                                             *)
THEOREM MessageWritten ==
    ASSUME NEW list \in Conditions, NEW t \in STRING, NEW value \in STRING, NEW now \in Nat
    PROVE  /\ Wrote(list, t, SetMessage(list, t, value, now))
           /\ Cond(SetMessage(list, t, value, now), t) =
                 [Touched(Entry(list, t), Entry(list, t).message, value, now)
                     EXCEPT !.message = value]
           /\ Cond(SetMessage(list, t, value, now), t).message = value
<1> DEFINE c == Entry(list, t)  d == Touched(c, c.message, value, now)
           e == [d EXCEPT !.message = value]
<1>1. c \in Condition /\ c.type = t
  BY Made
<1> HIDE DEF c
<1>2. d \in Condition /\ d.type = t
  BY <1>1, TouchedType
<1> HIDE DEF d
<1>3. e \in Condition /\ e.type = t /\ e.message = value
  BY <1>2 DEF Condition
<1>4. SetMessage(list, t, value, now) = Put(list, t, e)
  BY DEF SetMessage, c, d
<1> HIDE DEF e
<1>5. Wrote(list, t, Put(list, t, e)) /\ Cond(Put(list, t, e), t) = e
  BY <1>3, PutProperties
<1> QED BY <1>3, <1>4, <1>5 DEF c, d, e

LEMMA ReasonWritten ==
    ASSUME NEW list \in Conditions, NEW t \in STRING, NEW value \in STRING
    PROVE  /\ Wrote(list, t, SetReason(list, t, value))
           /\ Cond(SetReason(list, t, value), t) = [Entry(list, t) EXCEPT !.reason = value]
<1> DEFINE c == Entry(list, t)  e == [c EXCEPT !.reason = value]
<1>1. c \in Condition /\ c.type = t
  BY Made
<1> HIDE DEF c
<1>2. e \in Condition /\ e.type = t
  BY <1>1 DEF Condition
<1>3. SetReason(list, t, value) = Put(list, t, e)
  BY DEF SetReason, c
<1> HIDE DEF e
<1>4. Wrote(list, t, Put(list, t, e)) /\ Cond(Put(list, t, e), t) = e
  BY <1>2, PutProperties
<1> QED BY <1>3, <1>4 DEF c, e

(* Two writes of a type are a write of it.                                 *)
LEMMA WroteTwice ==
    ASSUME NEW list, NEW t, NEW mid, NEW after, Wrote(list, t, mid), Wrote(mid, t, after)
    PROVE  Wrote(list, t, after)
<1> QED BY DEF Wrote

(* True, False or Unknown with a message: both are read back.              *)
LEMMA ToldWritten ==
    ASSUME NEW list \in Conditions, NEW t \in STRING, NEW value \in STRING,
           NEW message \in STRING, NEW now \in Nat
    PROVE  /\ Wrote(list, t, Told(list, t, value, message, now))
           /\ Cond(Told(list, t, value, message, now), t) \in Condition
           /\ Cond(Told(list, t, value, message, now), t).status = value
           /\ Cond(Told(list, t, value, message, now), t).message = message
<1> DEFINE mid == SetStatus(list, t, value, now)
           after == SetMessage(mid, t, message, now)
<1>1. Wrote(list, t, mid) /\ Cond(mid, t).status = value
  BY StatusWritten
<1>2. mid \in Conditions /\ Has(mid, t)
  BY <1>1 DEF Wrote
<1>3. Told(list, t, value, message, now) = after
  BY DEF Told
<1> HIDE DEF mid
<1> DEFINE c == Entry(mid, t)  d == Touched(c, c.message, message, now)
           e == [d EXCEPT !.message = message]
<1>4. Wrote(mid, t, after) /\ Cond(after, t) = e
  BY <1>2, MessageWritten
<1>5. c \in Condition /\ c.status = value
  BY <1>1, <1>2, Made
<1> HIDE DEF c
<1>6. d \in Condition /\ d.status = value
  BY <1>5, TouchedType
<1> HIDE DEF d
<1>7. e \in Condition /\ e.status = value /\ e.message = message
  BY <1>6 DEF Condition
<1> QED BY <1>1, <1>3, <1>4, <1>7, WroteTwice

(* A status given to a condition that was not there sets its time.         *)
LEMMA ToldFresh ==
    ASSUME NEW list \in Conditions, NEW t \in STRING, ~ Has(list, t),
           NEW value \in STRING, value # "Unknown", NEW message \in STRING, NEW now \in Nat
    PROVE  Cond(Told(list, t, value, message, now), t).updated = now
<1> DEFINE mid == SetStatus(list, t, value, now)  c == Entry(mid, t)
           e == [Touched(c, c.message, message, now) EXCEPT !.message = message]
<1>1. Entry(list, t) = NewCond(t) /\ NewCond(t) \in Condition /\ NewCond(t).status = "Unknown"
  BY Made, NewCondType DEF NewCond, Absent
<1>2. Cond(mid, t) = [Touched(NewCond(t), "Unknown", value, now) EXCEPT !.status = value]
      /\ Wrote(list, t, mid)
  BY <1>1, StatusWritten
<1>3. Cond(mid, t) \in Condition /\ Cond(mid, t).updated = now
  BY <1>1, <1>2 DEF Touched, Condition
<1>4. mid \in Conditions /\ Has(mid, t)
  BY <1>2 DEF Wrote
<1> HIDE DEF mid
<1>5. c = Cond(mid, t)
  BY <1>4, Made
<1>6. e.updated = now
  BY <1>3, <1>5 DEF Touched, Condition
<1>7. Cond(SetMessage(mid, t, message, now), t) = e
  BY <1>4, MessageWritten
<1> QED BY <1>6, <1>7 DEF Told, mid

(* What SetError records, MatchesError recognises, on any list; and the    *)
(* other conditions stay as they are.                                      *)
THEOREM ErrorRecognised ==
    ASSUME NEW list \in Conditions, NEW t \in STRING, NEW reason \in STRING,
           NEW err \in STRING, NEW now \in Nat
    PROVE  /\ MatchesError(SetError(list, t, reason, err, now), t, reason, err)
           /\ Wrote(list, t, SetError(list, t, reason, err, now))
<1> DEFINE told == Told(list, t, Outcome(err), Said(err), now)
           r == Reasoned(reason, err)
           after == SetReason(told, t, r)
<1>1. Outcome(err) \in STRING /\ Said(err) \in STRING /\ r \in STRING
  BY LiteralAssumption DEF Outcome, Said, Reasoned
<1>2. /\ Wrote(list, t, told) /\ Cond(told, t) \in Condition
      /\ Cond(told, t).status = Outcome(err) /\ Cond(told, t).message = Said(err)
  <2>1. \A o, m \in STRING :
           LET said == Told(list, t, o, m, now)
           IN  /\ Wrote(list, t, said) /\ Cond(said, t) \in Condition
               /\ Cond(said, t).status = o /\ Cond(said, t).message = m
    BY ToldWritten
  <2> QED BY <1>1, <2>1
<1>3. SetError(list, t, reason, err, now) = after
  BY DEF SetError
<1> HIDE DEF told, r
<1>4. told \in Conditions /\ Has(told, t)
  BY <1>2 DEF Wrote
<1>5. Wrote(told, t, after) /\ Cond(after, t) = [Entry(told, t) EXCEPT !.reason = r]
  BY <1>1, <1>4, ReasonWritten
<1>6. Entry(told, t) = Cond(told, t)
  BY <1>4, Made
<1>7. /\ Cond(after, t).status = Outcome(err) /\ Cond(after, t).message = Said(err)
      /\ Cond(after, t).reason = r
  BY <1>2, <1>5, <1>6 DEF Condition
<1>8. MatchesError(after, t, reason, err)
  BY <1>7 DEF MatchesError, r
<1>9. Wrote(list, t, after)
  BY <1>2, <1>5, WroteTwice
<1> QED BY <1>3, <1>8, <1>9
=============================================================================
