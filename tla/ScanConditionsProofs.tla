------------------------ MODULE ScanConditionsProofs -------------------------
(***************************************************************************)
(* Proofs that the lists of conditions the handlers make say what the      *)
(* statuses say, for every status and time, and what a rejection leaves of *)
(* a list.                                                                 *)
(***************************************************************************)
EXTENDS ScanControllerProofs, ConditionListProofs, FiniteSetTheorems

-----------------------------------------------------------------------------
(* What it means for a list, or a sequence of pairs, to tell a status.     *)

(* A list of conditions tells a status: an entry for each condition of the *)
(* status that is there, with its value, and no other entry.               *)
Types == {"Pending", "Created", "RunCompleted", "Failed", "Complete", "Alerted"}

Truth(on) == IF on THEN "True" ELSE "none"

Value(st, t) == CASE t = "Pending"      -> Truth(st.pending)
                  [] t = "Created"      -> Truth(st.created)
                  [] t = "RunCompleted" -> st.ran
                  [] t = "Failed"       -> Truth(st.failed)
                  [] t = "Complete"     -> Truth(st.complete)
                  [] t = "Alerted"      -> st.alerted

Tells(list, st) ==
    /\ list \in Conditions /\ Single(list)
    /\ \A u \in STRING \ Types : ~Has(list, u)
    /\ \A t \in Types : /\ Has(list, t) = (Value(st, t) # "none")
                        /\ Has(list, t) => Cond(list, t).status = Value(st, t)

(* So does a sequence of pairs, for the types of a set.                    *)
Paired(s, st, types) ==
    /\ s \in Seq(STRING \X STRING)
    /\ \A i \in 1..Len(s) : /\ s[i][1] \in types
                            /\ Value(st, s[i][1]) # "none"
                            /\ s[i][2] = Value(st, s[i][1])
    /\ \A i, j \in 1..Len(s) : s[i][1] = s[j][1] => i = j
    /\ \A t \in types : Value(st, t) # "none" => \E i \in 1..Len(s) : s[i][1] = t

(* The types of conditions are strings.                                    *)
LEMMA TypesStrings == Types \subseteq STRING
  BY TypeAssumption DEF Types

(* The value of a condition that is there is a string.                     *)
LEMMA ValueString ==
    ASSUME NEW st \in Status, NEW t \in Types, Value(st, t) # "none"
    PROVE  Value(st, t) \in STRING
<1>1. Value(st, t) \in {"Unknown", "True", "False"}
  BY DEF Status, Types, Value, Truth
<1> QED BY <1>1, LiteralAssumption

(* Appending the pair of one more type, if its condition is there, tells   *)
(* that type as well.                                                      *)
LEMMA PairedMore ==
    ASSUME NEW st, NEW types, NEW s, Paired(s, st, types),
           NEW t \in STRING, t \notin types, NEW v, v = Value(st, t), v # "none" => v \in STRING
    PROVE  Paired(s \o Valued(t, v), st, types \cup {t})
<1>1. CASE v = "none"
  <2>1. s \o Valued(t, v) = s
    BY <1>1, ConcatEmptySeq DEF Paired, Valued
  <2> QED BY <1>1, <2>1 DEF Paired
<1>2. CASE v # "none"
  <2> DEFINE more == s \o <<<<t, v>>>>
  <2>1. <<<<t, v>>>> \in Seq(STRING \X STRING) /\ Len(<<<<t, v>>>>) = 1
        /\ <<<<t, v>>>>[1] = <<t, v>>
    BY <1>2
  <2>2. s \in Seq(STRING \X STRING) /\ Len(s) \in Nat
    BY LenProperties DEF Paired
  <2>3. /\ more \in Seq(STRING \X STRING)
        /\ Len(more) = Len(s) + 1
        /\ \A i \in 1..Len(s) : more[i] = s[i]
        /\ more[Len(s) + 1] = <<t, v>>
    BY <2>1, <2>2, ConcatProperties
  <2>4. Valued(t, v) = <<<<t, v>>>>
    BY <1>2 DEF Valued
  <2> HIDE DEF more
  <2>5. Paired(more, st, types \cup {t})
    <3>1. \A i \in 1..Len(more) : i \in 1..Len(s) \/ i = Len(s) + 1
      BY <2>2, <2>3
    <3>2. more[Len(s) + 1][1] = t /\ more[Len(s) + 1][2] = v
      BY <2>3
    <3>3. ASSUME NEW i \in 1..Len(more)
          PROVE  /\ more[i][1] \in types \cup {t}
                 /\ Value(st, more[i][1]) # "none"
                 /\ more[i][2] = Value(st, more[i][1])
      BY <1>2, <2>3, <3>1, <3>2 DEF Paired
    <3>4. ASSUME NEW i \in 1..Len(more), NEW j \in 1..Len(more), more[i][1] = more[j][1]
          PROVE  i = j
      BY <2>3, <3>1, <3>2, <3>4 DEF Paired
    <3>5. ASSUME NEW u \in types \cup {t}, Value(st, u) # "none"
          PROVE  \E i \in 1..Len(more) : more[i][1] = u
      <4>1. CASE u = t
        <5>1. Len(s) + 1 \in 1..Len(more)
          BY <2>2, <2>3
        <5> QED BY <3>2, <4>1, <5>1
      <4>2. CASE u \in types
        <5>1. PICK i \in 1..Len(s) : s[i][1] = u
          BY <3>5, <4>2 DEF Paired
        <5>2. i \in 1..Len(more) /\ more[i][1] = u
          BY <2>2, <2>3, <5>1
        <5> QED BY <5>2
      <4> QED BY <4>1, <4>2
    <3> QED BY <2>3, <3>3, <3>4, <3>5 DEF Paired
  <2> QED BY <2>4, <2>5 DEF more
<1> QED BY <1>1, <1>2

(* The pairs of a status tell every type.                                  *)
LEMMA PairsPaired ==
    ASSUME NEW st \in Status
    PROVE  Paired(Pairs(st), st, Types)
<1>0. \A t, on : Flag(t, on) = Valued(t, Truth(on))
  BY DEF Flag, Valued, Truth
<1>1. /\ Truth(st.pending) = Value(st, "Pending") /\ Truth(st.created) = Value(st, "Created")
      /\ st.ran = Value(st, "RunCompleted") /\ Truth(st.failed) = Value(st, "Failed")
      /\ Truth(st.complete) = Value(st, "Complete") /\ st.alerted = Value(st, "Alerted")
  BY DEF Value
<1>2. \A t \in Types : t \in STRING /\ (Value(st, t) # "none" => Value(st, t) \in STRING)
  BY TypesStrings, ValueString
<1> DEFINE p1 == <<>> \o Valued("Pending", Value(st, "Pending"))
           p2 == p1 \o Valued("Created", Value(st, "Created"))
           p3 == p2 \o Valued("RunCompleted", Value(st, "RunCompleted"))
           p4 == p3 \o Valued("Failed", Value(st, "Failed"))
           p5 == p4 \o Valued("Complete", Value(st, "Complete"))
           p6 == p5 \o Valued("Alerted", Value(st, "Alerted"))
<1>3. Paired(<<>>, st, {})
  BY DEF Paired
<1>4. "Pending" \in Types /\ "Created" \in Types /\ "RunCompleted" \in Types
      /\ "Failed" \in Types /\ "Complete" \in Types /\ "Alerted" \in Types
  BY DEF Types
<1>5. Paired(p1, st, {} \cup {"Pending"})
  BY <1>2, <1>3, <1>4, PairedMore
<1> HIDE DEF p1
<1>6. Paired(p2, st, {} \cup {"Pending"} \cup {"Created"})
  BY <1>2, <1>4, <1>5, PairedMore
<1> HIDE DEF p2
<1>7. Paired(p3, st, {} \cup {"Pending"} \cup {"Created"} \cup {"RunCompleted"})
  BY <1>2, <1>4, <1>6, PairedMore
<1> HIDE DEF p3
<1>8. Paired(p4, st, {} \cup {"Pending"} \cup {"Created"} \cup {"RunCompleted"} \cup {"Failed"})
  BY <1>2, <1>4, <1>7, PairedMore
<1> HIDE DEF p4
<1>9. Paired(p5, st, {} \cup {"Pending"} \cup {"Created"} \cup {"RunCompleted"} \cup {"Failed"}
                        \cup {"Complete"})
  BY <1>2, <1>4, <1>8, PairedMore
<1> HIDE DEF p5
<1>10. Paired(p6, st, {} \cup {"Pending"} \cup {"Created"} \cup {"RunCompleted"} \cup {"Failed"}
                         \cup {"Complete"} \cup {"Alerted"})
  BY <1>2, <1>4, <1>9, PairedMore
<1>11. {} \cup {"Pending"} \cup {"Created"} \cup {"RunCompleted"} \cup {"Failed"}
          \cup {"Complete"} \cup {"Alerted"} = Types
  BY DEF Types
<1>12. Flag("Pending", st.pending) = p1
  BY <1>0, <1>1 DEF p1, Valued
<1>13. Pairs(st) = p6
  BY <1>0, <1>1, <1>12 DEF Pairs, p2, p3, p4, p5
<1> QED BY <1>10, <1>11, <1>13

-----------------------------------------------------------------------------
(* Lists and the accessors of pkg/condition.                               *)

(* A list that tells a status agrees with it.                              *)
LEMMA TellsAgrees ==
    ASSUME NEW list, NEW st \in Status, Tells(list, st)
    PROVE  Agrees(list, st)
<1> DEFINE s == Pairs(st)
           there == {t \in Types : Value(st, t) # "none"}
<1>1. Paired(s, st, Types)
  BY PairsPaired
<1> HIDE DEF s
<1>2. /\ list \in Conditions /\ Len(list) \in Nat /\ DOMAIN list = 1..Len(list)
      /\ s \in Seq(STRING \X STRING) /\ Len(s) \in Nat /\ DOMAIN s = 1..Len(s)
  BY <1>1, LenProperties DEF Paired, Tells, Conditions
<1>3. ASSUME NEW i \in 1..Len(list)
      PROVE  /\ list[i] \in Condition
             /\ list[i].type \in there
             /\ list[i].status = Value(st, list[i].type)
  <2>1. list[i] \in Condition /\ list[i].type \in STRING
    <3>1. list[i] \in Condition
      BY <1>2, ElementOfSeq DEF Conditions
    <3> QED BY <3>1 DEF Condition
  <2>2. Has(list, list[i].type)
    BY <1>2, FindFirst
  <2>3. list[i].type \in Types
    BY <2>1, <2>2 DEF Tells
  <2>4. Find(list, list[i].type) \in 1..Len(list)
        /\ list[Find(list, list[i].type)].type = list[i].type
    BY <1>2, <2>2, FindFirst
  <2>5. Find(list, list[i].type) = i
    BY <1>2, <2>4 DEF Tells, Single
  <2>6. Cond(list, list[i].type) = list[i]
    BY <2>2, <2>5 DEF Cond
  <2> QED BY <2>1, <2>2, <2>3, <2>6 DEF Tells
<1>4. ASSUME NEW t \in there
      PROVE  \E i \in 1..Len(list) : list[i].type = t
  BY <1>2, FindFirst DEF Tells
<1>5. ASSUME NEW i \in 1..Len(s)
      PROVE  s[i][1] \in there /\ s[i] = <<s[i][1], Value(st, s[i][1])>>
  BY <1>1, <1>2, ElementOfSeq DEF Paired
<1>6. ASSUME NEW t \in there
      PROVE  \E i \in 1..Len(s) : s[i][1] = t
  BY <1>1 DEF Paired
<1>7. Len(list) = Len(s)
  <2> DEFINE f == [i \in 1..Len(list) |-> list[i].type]
             g == [i \in 1..Len(s) |-> s[i][1]]
  <2>1. f \in [1..Len(list) -> there] /\ g \in [1..Len(s) -> there]
    BY <1>3, <1>5
  <2>2. /\ \A i, j \in 1..Len(list) : f[i] = f[j] => i = j
        /\ \A i, j \in 1..Len(s) : g[i] = g[j] => i = j
    BY <1>1, <1>2 DEF Tells, Single, Paired
  <2>3. /\ \A t \in there : \E i \in 1..Len(list) : f[i] = t
        /\ \A t \in there : \E i \in 1..Len(s) : g[i] = t
    BY <1>4, <1>6
  <2> HIDE DEF f, g, there
  <2>4. f \in Bijection(1..Len(list), there) /\ g \in Bijection(1..Len(s), there)
    BY <2>1, <2>2, <2>3 DEF Bijection, Injection, Surjection, IsInjective
  <2>5. ExistsBijection(1..Len(list), there) /\ ExistsBijection(1..Len(s), there)
    BY <2>4 DEF ExistsBijection
  <2>6. Cardinality(there) = Len(list) /\ Cardinality(there) = Len(s)
    BY <1>2, <2>5, FS_CountingElements
  <2> QED BY <2>6
<1>8. \A p : p \in {<<c.type, c.status>> : c \in Range(list)}
             <=> \E t \in there : p = <<t, Value(st, t)>>
  <2>1. \A p : p \in {<<c.type, c.status>> : c \in Range(list)}
               <=> \E i \in 1..Len(list) : p = <<list[i].type, list[i].status>>
    BY <1>2 DEF Range
  <2>2. \A i \in 1..Len(list) : <<list[i].type, list[i].status>>
                                = <<list[i].type, Value(st, list[i].type)>>
    BY <1>3
  <2> HIDE DEF there
  <2> QED BY <1>3, <1>4, <2>1, <2>2
<1>9. \A p : p \in Range(s) <=> \E t \in there : p = <<t, Value(st, t)>>
  <2>1. \A p : p \in Range(s) <=> \E i \in 1..Len(s) : p = s[i]
    BY <1>2 DEF Range
  <2>2. \A i \in 1..Len(s) : \E t \in there : s[i] = <<t, Value(st, t)>>
    BY <1>5
  <2>3. \A t \in there : \E i \in 1..Len(s) : s[i] = <<t, Value(st, t)>>
    BY <1>5, <1>6
  <2>4. ASSUME NEW p, p \in Range(s) PROVE \E t \in there : p = <<t, Value(st, t)>>
    <3>1. PICK i \in 1..Len(s) : p = s[i]
      BY <2>1, <2>4
    <3> QED BY <2>2, <3>1
  <2>5. ASSUME NEW t \in there PROVE <<t, Value(st, t)>> \in Range(s)
    <3>1. PICK i \in 1..Len(s) : s[i] = <<t, Value(st, t)>>
      BY <2>3
    <3> QED BY <2>1, <3>1
  <2> HIDE DEF there
  <2> QED BY <2>4, <2>5
<1>10. {<<c.type, c.status>> : c \in Range(list)} = Range(s)
  BY <1>8, <1>9
<1> QED BY <1>7, <1>10 DEF Agrees, s

(* The list of a status tells it.                                          *)
LEMMA ListOfTells ==
    ASSUME NEW st \in Status
    PROVE  Tells(ListOf(st), st)
<1> DEFINE s == Pairs(st)  list == ListOf(st)
<1>1. Paired(s, st, Types)
  BY PairsPaired
<1>2. list = [i \in DOMAIN s |-> [NewCond(s[i][1]) EXCEPT !.status = s[i][2]]]
  BY DEF ListOf
<1> HIDE DEF s, list
<1>3. s \in Seq(STRING \X STRING) /\ Len(s) \in Nat /\ DOMAIN s = 1..Len(s)
  BY <1>1, LenProperties DEF Paired
<1>4. ASSUME NEW i \in 1..Len(s)
      PROVE  /\ list[i] \in Condition /\ list[i].type = s[i][1] /\ s[i][1] \in Types
             /\ list[i].status = Value(st, s[i][1]) /\ Value(st, s[i][1]) # "none"
  <2>1. s[i][1] \in STRING /\ s[i][2] \in STRING
    BY <1>3, ElementOfSeq
  <2>2. list[i] = [NewCond(s[i][1]) EXCEPT !.status = s[i][2]]
    BY <1>2, <1>3
  <2>3. NewCond(s[i][1]) \in Condition /\ NewCond(s[i][1]).type = s[i][1]
    BY <2>1, NewCondType
  <2>4. list[i] \in Condition /\ list[i].type = s[i][1] /\ list[i].status = s[i][2]
    BY <2>1, <2>2, <2>3 DEF Condition
  <2> QED BY <1>1, <2>4 DEF Paired
<1>5. list \in Conditions /\ DOMAIN list = 1..Len(s)
  <2>1. list \in [1..Len(s) -> Condition]
    BY <1>2, <1>3, <1>4
  <2> QED BY <1>3, <2>1, SeqDef DEF Conditions
<1>6. Single(list)
  BY <1>1, <1>4, <1>5 DEF Paired, Single
<1>7. \A u \in STRING \ Types : ~Has(list, u)
  BY <1>4, <1>5, FindFirst
<1>8. ASSUME NEW t \in Types
      PROVE  /\ Has(list, t) = (Value(st, t) # "none")
             /\ Has(list, t) => Cond(list, t).status = Value(st, t)
  <2>1. Has(list, t) => Find(list, t) \in 1..Len(s) /\ list[Find(list, t)].type = t
    BY <1>5, FindFirst
  <2>2. Has(list, t) => Value(st, t) # "none" /\ Cond(list, t).status = Value(st, t)
    BY <1>4, <2>1 DEF Cond
  <2>3. Value(st, t) # "none" => Has(list, t)
    BY <1>1, <1>4, <1>5, FindFirst DEF Paired
  <2>4. Has(list, t) \in BOOLEAN
    BY DEF Has
  <2> QED BY <2>2, <2>3, <2>4
<1> QED BY <1>5, <1>6, <1>7, <1>8 DEF Tells, list

(* A write of a condition to a list that tells a status.                   *)
LEMMA WriteTells ==
    ASSUME NEW list, NEW st, Tells(list, st), NEW t \in Types, NEW after,
           Wrote(list, t, after), NEW new,
           Cond(after, t).status = Value(new, t), Value(new, t) # "none",
           \A u \in Types \ {t} : Value(new, u) = Value(st, u)
    PROVE  Tells(after, new)
<1>1. \A u \in STRING \ {t} : Has(after, u) = Has(list, u) /\ Cond(after, u) = Cond(list, u)
  BY DEF Wrote
<1>2. \A u \in STRING \ Types : ~Has(after, u)
  BY <1>1 DEF Tells
<1>3. ASSUME NEW u \in Types
      PROVE  /\ Has(after, u) = (Value(new, u) # "none")
             /\ Has(after, u) => Cond(after, u).status = Value(new, u)
  <2>1. Has(after, u) \in BOOLEAN
    BY DEF Has
  <2>2. CASE u = t
    BY <2>1, <2>2 DEF Wrote
  <2>3. CASE u # t
    BY <1>1, <2>1, <2>3, TypesStrings DEF Tells
  <2> QED BY <2>2, <2>3
<1> QED BY <1>2, <1>3 DEF Wrote, Tells

(* Setting a status of a condition (condition.Cond.True, False, Unknown).  *)
LEMMA StatusTells ==
    ASSUME NEW list, NEW st, Tells(list, st), NEW t \in Types, NEW value \in STRING,
           NEW now \in Nat, NEW new, Value(new, t) = value, value # "none",
           \A u \in Types \ {t} : Value(new, u) = Value(st, u)
    PROVE  Tells(SetStatus(list, t, value, now), new)
<1>1. list \in Conditions /\ t \in STRING
  BY TypesStrings DEF Tells
<1>2. /\ Wrote(list, t, SetStatus(list, t, value, now))
      /\ Cond(SetStatus(list, t, value, now), t).status = value
  BY <1>1, StatusWritten
<1> QED BY <1>2, WriteTells

(* Setting it together with its message (SetError, Message).               *)
LEMMA ToldTells ==
    ASSUME NEW list, NEW st, Tells(list, st), NEW t \in Types, NEW value \in STRING,
           NEW message \in STRING, NEW now \in Nat, NEW new,
           Value(new, t) = value, value # "none",
           \A u \in Types \ {t} : Value(new, u) = Value(st, u)
    PROVE  Tells(Told(list, t, value, message, now), new)
<1>1. list \in Conditions /\ t \in STRING
  BY TypesStrings DEF Tells
<1>2. /\ Wrote(list, t, Told(list, t, value, message, now))
      /\ Cond(Told(list, t, value, message, now), t).status = value
  BY <1>1, ToldWritten
<1> QED BY <1>2, WriteTells

(* Setting the message alone of a condition that is there.                 *)
LEMMA MessageTells ==
    ASSUME NEW list, NEW st, Tells(list, st), NEW t \in Types, Value(st, t) # "none",
           NEW message \in STRING, NEW now \in Nat
    PROVE  Tells(SetMessage(list, t, message, now), st)
<1>1. list \in Conditions /\ t \in STRING /\ Has(list, t)
  BY TypesStrings DEF Tells
<1> DEFINE c == Entry(list, t)  d == Touched(c, c.message, message, now)
           e == [d EXCEPT !.message = message]
<1>2. c \in Condition /\ c.status = Value(st, t)
  BY <1>1, Made DEF Tells
<1> HIDE DEF c
<1>3. d \in Condition /\ d.status = c.status
  BY <1>2, TouchedType
<1> HIDE DEF d
<1>4. e.status = d.status
  BY <1>3 DEF Condition
<1>5. /\ Wrote(list, t, SetMessage(list, t, message, now))
      /\ Cond(SetMessage(list, t, message, now), t) = e
  BY <1>1, MessageWritten DEF c, d
<1> HIDE DEF e
<1>6. Cond(SetMessage(list, t, message, now), t).status = Value(st, t)
  BY <1>2, <1>3, <1>4, <1>5
<1> QED BY <1>5, <1>6, WriteTells

-----------------------------------------------------------------------------
(* Lists and the calls of the handlers.                                    *)

(* Refreshing the display changes no condition                             *)
(* (setClusterScanStatusDisplay).                                          *)
LEMMA RefreshedValue ==
    ASSUME NEW st \in Status, NEW strict \in BOOLEAN, NEW t \in Types
    PROVE  Value(Refreshed(st, strict), t) = Value(st, t)
  BY RefreshedFields DEF Value, Types

(* From a list that tells a status, or after the handler emptied it, the   *)
(* calls of each handler lead to a list that tells the status this model   *)
(* lets the handler make. The first pass (handleClusterScans).             *)
LEMMA PendedTells ==
    ASSUME NEW list, NEW st \in Status, Tells(list, st), NEW now \in Nat, NEW strict \in BOOLEAN
    PROVE  Tells(PendedList(list, now), Pended(st, strict))
<1> DEFINE told == [st EXCEPT !.pending = TRUE]
<1>1. /\ told \in Status /\ Value(told, "Pending") = "True"
      /\ \A u \in Types \ {"Pending"} : Value(told, u) = Value(st, u)
  BY DEF Status, Value, Truth, Types
<1> HIDE DEF told
<1>2. /\ Value(Pended(st, strict), "Pending") = "True"
      /\ \A u \in Types \ {"Pending"} : Value(Pended(st, strict), u) = Value(st, u)
  <2>1. \A u \in Types : Value(Pended(st, strict), u) = Value(told, u)
    BY <1>1, RefreshedValue DEF Pended, told
  <2>2. "Pending" \in Types
    BY DEF Types
  <2> QED BY <1>1, <2>1, <2>2
<1>3. "Pending" \in Types /\ "True" \in STRING /\ Waiting \in STRING
  BY LiteralAssumption, TypeAssumption DEF Types
<1> QED BY <1>2, <1>3, ToldTells DEF PendedList

(* A first pass over a scan that was Failed, whose list it empties.        *)
LEMMA RelistedTells ==
    ASSUME NEW list, NEW st \in Status, NEW now \in Nat
    PROVE  Tells(RelistedList(list, now), Relisted(st)) /\ Relisted(st) \in Status
<1>1. /\ Relisted(st) \in Status /\ Value(Relisted(st), "Pending") = "True"
      /\ \A u \in Types \ {"Pending"} : Value(Relisted(st), u) = "none"
  BY DEF Relisted, Unconditioned, Status, Value, Truth, Types
<1>2. Blank \in Status /\ \A u \in Types : Value(Blank, u) = "none"
  BY BlankType DEF Blank, Value, Truth, Types
<1>3. Tells(<<>>, Blank)
  <2>1. <<>> \in Conditions /\ Single(<<>>)
    BY EmptySeq DEF Conditions, Single
  <2>2. \A u : Has(<<>>, u) = FALSE
    <3>1. \A u : Has(<<>>, u) \in BOOLEAN
      BY DEF Has
    <3> QED BY <2>1, <3>1, FindFirst
  <2> QED BY <1>2, <2>1, <2>2 DEF Tells
<1>4. "Pending" \in Types /\ "True" \in STRING /\ Waiting \in STRING
  BY LiteralAssumption, TypeAssumption DEF Types
<1> HIDE DEF Relisted
<1>5. Tells(Told(<<>>, "Pending", "True", Waiting, now), Relisted(st))
  BY <1>1, <1>2, <1>3, <1>4, ToldTells
<1> QED BY <1>1, <1>5 DEF RelistedList, PendedList, Emptied

(* A pass that finds no valid profile (handleClusterScans).                *)
LEMMA RejectedTells ==
    ASSUME NEW list, NEW st \in Status, NEW now \in Nat, NEW strict \in BOOLEAN, NEW err \in STRING
    PROVE  Tells(RejectedList(list, err, now), Rejected(st, strict))
<1> DEFINE mid == Relisted(st)  told == [mid EXCEPT !.failed = TRUE]
<1>1. mid \in Status /\ Tells(RelistedList(list, now), mid)
  BY RelistedTells
<1> HIDE DEF mid
<1>2. /\ told \in Status /\ Value(told, "Failed") = "True"
      /\ \A u \in Types \ {"Failed"} : Value(told, u) = Value(mid, u)
  BY <1>1 DEF Status, Value, Truth, Types
<1> HIDE DEF told
<1>3. "Failed" \in Types /\ "True" \in STRING
  BY LiteralAssumption DEF Types
<1>4. \A u \in Types : Value(Rejected(st, strict), u) = Value(told, u)
  BY <1>2, RefreshedValue DEF Rejected, told, mid
<1>5. /\ Value(Rejected(st, strict), "Failed") = "True"
      /\ \A u \in Types \ {"Failed"} : Value(Rejected(st, strict), u) = Value(mid, u)
  BY <1>2, <1>3, <1>4
<1> QED BY <1>1, <1>3, <1>5, ToldTells DEF RejectedList

(* The launch, which empties the list too (handleClusterScans).            *)
LEMMA LaunchedTells ==
    ASSUME NEW list, NEW st \in Status, NEW now \in Nat, NEW strict \in BOOLEAN, NEW rule \in BOOLEAN
    PROVE  Tells(LaunchedList(list, now), Launched(st, rule, strict))
<1> DEFINE mid  == Relisted(st)
           made == [mid EXCEPT !.created = TRUE]
           told == [mid EXCEPT !.created = TRUE, !.ran = "Unknown", !.lastRun = TRUE, !.rule = rule]
           relisted == RelistedList(list, now)
<1>1. mid \in Status /\ Tells(relisted, mid) /\ ~mid.failed
  <2>1. mid \in Status /\ Tells(relisted, mid)
    BY RelistedTells
  <2>2. ~mid.failed
    BY DEF Relisted, Unconditioned, Status
  <2> QED BY <2>1, <2>2
<1> HIDE DEF mid, relisted
<1>2. /\ made \in Status /\ Value(made, "Created") = "True"
      /\ \A u \in Types \ {"Created"} : Value(made, u) = Value(mid, u)
  BY <1>1 DEF Status, Value, Truth, Types
<1>3. /\ told \in Status /\ Value(told, "RunCompleted") = "Unknown"
      /\ \A u \in Types \ {"RunCompleted"} : Value(told, u) = Value(made, u)
  BY <1>1 DEF Status, Value, Truth, Types
<1> HIDE DEF made, told
<1>4. /\ "Created" \in Types /\ "RunCompleted" \in Types /\ "Failed" \in Types
      /\ "True" \in STRING /\ "Unknown" \in STRING /\ Creating \in STRING
  BY LiteralAssumption, TypeAssumption DEF Types
<1>5. Cond(relisted, "Failed").status # "True"
  <2>1. Value(mid, "Failed") = "none"
    BY <1>1 DEF Value, Truth
  <2>2. ~Has(relisted, "Failed")
    BY <1>1, <1>4, <2>1 DEF Tells
  <2> QED BY <2>2 DEF Cond, Absent
<1> DEFINE created == SetStatus(relisted, "Created", "True", now)
<1>6. Tells(created, made)
  BY <1>1, <1>2, <1>4, StatusTells
<1>7. LaunchedList(list, now) = Told(created, "RunCompleted", "Unknown", Creating, now)
  BY <1>5 DEF LaunchedList, relisted
<1> HIDE DEF created
<1>8. \A u \in Types : Value(Launched(st, rule, strict), u) = Value(told, u)
  BY <1>3, RefreshedValue DEF Launched, told, mid
<1>9. /\ Value(Launched(st, rule, strict), "RunCompleted") = "Unknown"
      /\ \A u \in Types \ {"RunCompleted"} : Value(Launched(st, rule, strict), u) = Value(made, u)
  BY <1>3, <1>4, <1>8
<1> QED BY <1>4, <1>6, <1>7, <1>9, ToldTells

(* The mark at the end of the runner (handlePods).                         *)
LEMMA MarkedTells ==
    ASSUME NEW list, NEW st \in Status, Tells(list, st), NEW now \in Nat,
           NEW strict \in BOOLEAN, NEW done \in STRING
    PROVE  Tells(MarkedList(list, done, now), Marked(st, done, strict))
<1> DEFINE mid  == [st EXCEPT !.ran = "True"]
           told == [st EXCEPT !.ran = "True", !.failed = @ \/ done # "true"]
           ran    == SetStatus(list, "RunCompleted", "True", now)
           failed == SetStatus(ran, "Failed", "True", now)
<1>1. /\ mid \in Status /\ Value(mid, "RunCompleted") = "True"
      /\ \A u \in Types \ {"RunCompleted"} : Value(mid, u) = Value(st, u)
  BY DEF Status, Value, Truth, Types
<1>2. /\ told \in Status
      /\ done = "true" => \A u \in Types : Value(told, u) = Value(mid, u)
      /\ done # "true" => /\ Value(told, "Failed") = "True"
                          /\ \A u \in Types \ {"Failed"} : Value(told, u) = Value(mid, u)
  BY DEF Status, Value, Truth, Types
<1> HIDE DEF mid, told
<1>3. "RunCompleted" \in Types /\ "Failed" \in Types /\ "True" \in STRING
  BY LiteralAssumption DEF Types
<1>4. Tells(ran, mid)
  BY <1>1, <1>3, StatusTells
<1> HIDE DEF ran
<1>5. \A u \in Types : Value(Marked(st, done, strict), u) = Value(told, u)
  BY <1>2, RefreshedValue DEF Marked, told
<1>6. CASE done = "true"
  BY <1>2, <1>4, <1>5, <1>6 DEF MarkedList, Tells, ran
<1>7. CASE done # "true"
  <2>1. /\ Value(Marked(st, done, strict), "Failed") = "True"
        /\ \A u \in Types \ {"Failed"} : Value(Marked(st, done, strict), u) = Value(mid, u)
    BY <1>2, <1>3, <1>5, <1>7
  <2>2. Tells(failed, Marked(st, done, strict))
    BY <1>3, <1>4, <2>1, StatusTells
  <2> HIDE DEF failed
  <2>3. Tells(SetMessage(failed, "Failed", done, now), Marked(st, done, strict))
    BY <1>3, <2>1, <2>2, MessageTells
  <2> QED BY <1>7, <2>2, <2>3 DEF MarkedList, failed, ran
<1> QED BY <1>6, <1>7

(* Completion, retirement (handleJobs) and the resolved alert              *)
(* (handleClusterScanMetrics).                                             *)
LEMMA EndedTells ==
    ASSUME NEW list, NEW st \in Status, Tells(list, st), NEW now \in Nat, NEW strict \in BOOLEAN
    PROVE  /\ \A summary \in Summaries : Tells(CompletedList(list, now), Completed(st, summary))
           /\ \A cron \in BOOLEAN : Tells(RetiredList(list, now), Retired(st, cron, strict))
           /\ \A configured \in BOOLEAN :
                 Tells(AlertResolvedList(list, configured, st.rule, now),
                       AlertResolved(st, configured))
<1>0. /\ "Complete" \in Types /\ "Alerted" \in Types /\ "Failed" \in Types
      /\ "True" \in STRING /\ "Unknown" \in STRING /\ "False" \in STRING
      /\ NoRule \in STRING /\ RuleFailed \in STRING
  BY LiteralAssumption, TypeAssumption DEF Types
<1>1. ASSUME NEW summary \in Summaries
      PROVE  Tells(CompletedList(list, now), Completed(st, summary))
  <2>1. /\ Value(Completed(st, summary), "Complete") = "True"
        /\ \A u \in Types \ {"Complete"} : Value(Completed(st, summary), u) = Value(st, u)
    BY DEF Completed, Status, Value, Truth, Types
  <2> QED BY <1>0, <2>1, StatusTells DEF CompletedList
<1>2. ASSUME NEW cron \in BOOLEAN
      PROVE  Tells(RetiredList(list, now), Retired(st, cron, strict))
  <2> DEFINE told == [st EXCEPT !.alerted = IF st.failed THEN @ ELSE "Unknown",
                                !.observed = TRUE]
             new == Refreshed(told, strict)
  <2>1. /\ told \in Status
        /\ st.failed => \A u \in Types : Value(told, u) = Value(st, u)
        /\ ~st.failed => /\ Value(told, "Alerted") = "Unknown"
                         /\ \A u \in Types \ {"Alerted"} : Value(told, u) = Value(st, u)
    BY DEF Status, Value, Truth, Types
  <2> HIDE DEF told
  <2>2. new \in Status /\ \A u \in Types : Value(new, u) = Value(told, u)
    BY <2>1, RefreshedType, RefreshedValue
  <2> HIDE DEF new
  <2>3. Retired(st, cron, strict) = [new EXCEPT !.next = IF cron THEN "later" ELSE @]
    BY DEF Retired, new, told
  <2>4. \A u \in Types : Value(Retired(st, cron, strict), u) = Value(told, u)
    BY <2>2, <2>3 DEF Status, Value, Types
  <2>5. (Cond(list, "Failed").status = "True") <=> st.failed
    <3>1. st.failed => Value(st, "Failed") = "True"
      BY DEF Value, Truth
    <3>2. ~st.failed => Value(st, "Failed") = "none"
      BY DEF Value, Truth, Status
    <3>3. CASE st.failed
      BY <1>0, <3>1, <3>3 DEF Tells
    <3>4. CASE ~st.failed
      BY <1>0, <3>2, <3>4 DEF Tells, Cond, Absent
    <3> QED BY <3>3, <3>4
  <2>6. CASE st.failed
    BY <2>1, <2>4, <2>5, <2>6 DEF RetiredList, Tells
  <2>7. CASE ~st.failed
    <3>1. /\ Value(Retired(st, cron, strict), "Alerted") = "Unknown"
          /\ \A u \in Types \ {"Alerted"} :
                Value(Retired(st, cron, strict), u) = Value(st, u)
      BY <1>0, <2>1, <2>4, <2>7
    <3> QED BY <1>0, <2>5, <2>7, <3>1, StatusTells DEF RetiredList
  <2> QED BY <2>6, <2>7
<1>3. ASSUME NEW configured \in BOOLEAN
      PROVE  Tells(AlertResolvedList(list, configured, st.rule, now),
                   AlertResolved(st, configured))
  <2> DEFINE new == AlertResolved(st, configured)
             value == IF configured /\ st.rule THEN "True" ELSE "False"
  <2>1. /\ Value(new, "Alerted") = value
        /\ \A u \in Types \ {"Alerted"} : Value(new, u) = Value(st, u)
    BY DEF AlertResolved, Status, Value, Truth, Types
  <2> HIDE DEF new
  <2>2. CASE configured /\ st.rule
    <3>1. Value(new, "Alerted") = "True"
      BY <2>1, <2>2
    <3>2. AlertResolvedList(list, configured, st.rule, now)
             = SetStatus(list, "Alerted", "True", now)
      BY <2>2 DEF AlertResolvedList
    <3>3. Tells(SetStatus(list, "Alerted", "True", now), new)
      BY <1>0, <2>1, <3>1, StatusTells
    <3> QED BY <3>2, <3>3 DEF new
  <2>3. CASE ~(configured /\ st.rule)
    <3> DEFINE message == IF configured THEN RuleFailed ELSE NoRule
    <3>1. message \in STRING /\ Value(new, "Alerted") = "False"
      BY <1>0, <2>1, <2>3
    <3>2. AlertResolvedList(list, configured, st.rule, now)
             = Told(list, "Alerted", "False", message, now)
      BY <2>3 DEF AlertResolvedList
    <3> HIDE DEF message
    <3>3. Tells(Told(list, "Alerted", "False", message, now), new)
      BY <1>0, <2>1, <3>1, ToldTells
    <3> QED BY <3>2, <3>3 DEF new
  <2> QED BY <2>2, <2>3
<1> QED BY <1>1, <1>2, <1>3

(* Whatever the status of a scan and whatever the time, the calls each     *)
(* handler makes on its list of conditions leave a list with one entry per *)
(* type, whose values are those of the status the handler saves: no call   *)
(* of pkg/condition loses, doubles or misplaces a condition.               *)
THEOREM ListsAgree ==
    ASSUME NEW st \in Status, NEW now \in Nat
    PROVE  ListAgrees(st, now)
<1> DEFINE list == ListOf(st)
<1>1. Tells(list, st)
  BY ListOfTells
<1>2. Agrees(list, st)
  BY <1>1, TellsAgrees
<1> HIDE DEF list
<1>3. /\ Agrees(PendedList(list, now), Pended(st, FALSE))
      /\ Agrees(RejectedList(list, "error", now), Rejected(st, FALSE))
      /\ Agrees(LaunchedList(list, now), Launched(st, TRUE, FALSE))
  <2>1. /\ Pended(st, FALSE) \in Status /\ Rejected(st, FALSE) \in Status
        /\ Launched(st, TRUE, FALSE) \in Status
    BY ScanStatusType
  <2>2. Tells(PendedList(list, now), Pended(st, FALSE))
    BY <1>1, PendedTells
  <2>3. Tells(RejectedList(list, "error", now), Rejected(st, FALSE))
    BY TypeAssumption, RejectedTells
  <2>4. Tells(LaunchedList(list, now), Launched(st, TRUE, FALSE))
    BY LaunchedTells
  <2> QED BY <2>1, <2>2, <2>3, <2>4, TellsAgrees
<1>4. \A done \in {"true", "error", "other"} :
         Agrees(MarkedList(list, done, now), Marked(st, done, FALSE))
  <2> SUFFICES ASSUME NEW done \in {"true", "error", "other"}
               PROVE  Agrees(MarkedList(list, done, now), Marked(st, done, FALSE))
    OBVIOUS
  <2>1. done \in STRING
    BY TypeAssumption
  <2>2. Marked(st, done, FALSE) \in Status /\ Tells(MarkedList(list, done, now), Marked(st, done, FALSE))
    BY <1>1, <2>1, MarkedTells, OutcomeStatusType
  <2> QED BY <2>2, TellsAgrees
<1>5. Agrees(CompletedList(list, now), Completed(st, "clean"))
  <2>1. "clean" \in Summaries
    BY DEF Summaries
  <2>2. Completed(st, "clean") \in Status /\ Tells(CompletedList(list, now), Completed(st, "clean"))
    BY <1>1, <2>1, EndedTells, OutcomeStatusType
  <2> QED BY <2>2, TellsAgrees
<1>6. Agrees(RetiredList(list, now), Retired(st, TRUE, FALSE))
  <2>1. Retired(st, TRUE, FALSE) \in Status /\ Tells(RetiredList(list, now), Retired(st, TRUE, FALSE))
    BY <1>1, EndedTells, OutcomeStatusType
  <2> QED BY <2>1, TellsAgrees
<1>7. ASSUME NEW configured \in BOOLEAN
      PROVE  Agrees(AlertResolvedList(list, configured, st.rule, now),
                    AlertResolved(st, configured))
  <2>1. /\ AlertResolved(st, configured) \in Status
        /\ Tells(AlertResolvedList(list, configured, st.rule, now), AlertResolved(st, configured))
    BY <1>1, EndedTells, OutcomeStatusType
  <2> QED BY <2>1, TellsAgrees
<1> QED BY <1>2, <1>3, <1>4, <1>5, <1>6, <1>7 DEF ListAgrees, list

(* So they do for every scan and every copy of it the controller comes to  *)
(* hold, whatever goes wrong.                                              *)
THEOREM ConditionsAlwaysAgree == Spec => []ConditionsAgree
<1>1. TypeOK => ConditionsAgree
  <2>1. ASSUME TypeOK, NEW st \in Held
        PROVE  ListAgrees(st, 1)
    <3>1. st \in Status
      BY <2>1, ScanFacts DEF Held
    <3> QED BY <3>1, ListsAgree
  <2> QED BY <2>1 DEF ConditionsAgree
<1> QED BY <1>1, TypeCorrect, PTL

-----------------------------------------------------------------------------
(* The rejection of a scan, over and over.                                 *)

(* The list of a rejected scan, whatever the list was before: its Failed   *)
(* entry carries the time of the rejection.                                *)
LEMMA RejectedAt ==
    ASSUME NEW list, NEW err \in STRING, NEW now \in Nat
    PROVE  Cond(RejectedList(list, err, now), "Failed").updated = now
<1> DEFINE pended == PendedList(<<>>, now)
<1>1. /\ "Pending" \in STRING /\ "Failed" \in STRING /\ "True" \in STRING /\ Waiting \in STRING
      /\ <<>> \in Conditions
  <2>1. <<>> \in Conditions
    BY EmptySeq DEF Conditions
  <2> QED BY <2>1, LiteralAssumption, TypeAssumption
<1>2. ~ Has(<<>>, "Failed")
  BY <1>1, FindFirst
<1>3. Wrote(<<>>, "Pending", pended)
  BY <1>1, ToldWritten DEF PendedList
<1>4. pended \in Conditions /\ ~ Has(pended, "Failed")
  BY <1>1, <1>2, <1>3 DEF Wrote
<1> HIDE DEF pended
<1>5. Cond(Told(pended, "Failed", "True", err, now), "Failed").updated = now
  BY <1>1, <1>4, ToldFresh
<1> QED BY <1>5 DEF RejectedList, RelistedList, Emptied, pended

(* A rejection starts from the emptied list, so nothing of the list it     *)
(* finds survives: passes within one second write the same conditions, and *)
(* a pass in a later second changes their update times, which is a new     *)
(* version of the scan and another event of it (handleClusterScans).       *)
THEOREM RejectionIdempotent ==
    ASSUME NEW list, NEW err \in STRING, NEW then \in Nat, NEW now \in Nat
    PROVE  LET first == RejectedList(list, err, then)
           IN (RejectedList(first, err, now) = first) <=> (now = then)
<1> DEFINE first == RejectedList(list, err, then)
<1>1. \A other : RejectedList(other, err, now) = RejectedList(list, err, now)
  BY DEF RejectedList, RelistedList, Emptied
<1>2. /\ Cond(first, "Failed").updated = then
      /\ Cond(RejectedList(first, err, now), "Failed").updated = now
  BY RejectedAt
<1>3. now = then => RejectedList(first, err, now) = first
  BY <1>1
<1> QED BY <1>2, <1>3
==============================================================================
