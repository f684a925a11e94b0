-------------------------- MODULE GroupChatProofs --------------------------
(***************************************************************************)
(* For any team, style of selection and sequence of runs, failures,        *)
(* cancellations, resets and loaded states: who was asked to speak is      *)
(* expected to, everyone hears the others, the turns are in order, and a   *)
(* run that returns has yielded what it added to the thread.               *)
(***************************************************************************)
EXTENDS GroupChat, FiniteSetTheorems, SequenceTheorems, WellFoundedInduction, TLAPS

\* what may be in the queue of the runtime and in the line of a lock
Mail == [kind : {"start", "relay"}, who : {User, Manager}, target : Members \cup {User, NoOne}]
        \cup [kind : {"request", "response", "log", "error"}, who : Members,
              target : Members \cup {User, NoOne}]

Shapes ==
    /\ bus \in Seq(Mail)
    /\ inbox \in [Agents -> Seq(Mail)]
    /\ active \in [Members -> Nat]
    /\ work \in [Members -> {"idle", "thinking", "logged"}]

\* the round robin stands at a participant, in its saved state too
RobinStands ==
    /\ style \in Styles
    /\ style = "round_robin" => speaker \in Members /\ (saved # <<>> => Head(saved).speaker \in Members)

\* a participant is sent no request of another
RequestsAreOwn ==
    \A p \in Members : \A i \in DOMAIN inbox[p] : inbox[p][i].kind = "request" => inbox[p][i].who = p

\* an agent is called by the request at the head of its line
WorkIsAsked ==
    \A p \in Members : work[p] # "idle" =>
        inbox[p] # <<>> /\ Head(inbox[p]).kind = "request" /\ Head(inbox[p]).who = p

\* select_speaker is awaited by the handler of a start or of a response
SelectingHolds ==
    selecting => /\ inbox[Manager] # <<>>
                 /\ Head(inbox[Manager]).kind \in {"start", "response"}
                 /\ Head(inbox[Manager]).kind = "start" => ~terminated

\* RespondersAreActive is not inductive: a request is answered once only
\* because the handler that answers it holds the lock of its agent, and a
\* response is removed from the list once only because the manager's does.
ActiveInv ==
    /\ Shapes /\ RobinStands
    /\ RequestsAreOwn /\ WorkIsAsked /\ SelectingHolds
    /\ RespondersAreActive
-----------------------------------------------------------------------------
(* Counting requests and responses in a queue.                             *)

Hits(q, kind, p) == {i \in DOMAIN q : q[i].kind = kind /\ q[i].who = p}
IsHit(e, kind, p) == e.kind = kind /\ e.who = p

LEMMA HitsFinite ==
  ASSUME NEW q \in Seq(Mail), NEW k, NEW p
  PROVE  /\ Len(q) \in Nat /\ DOMAIN q = 1..Len(q)
         /\ Pending(q, k, p) = Cardinality(Hits(q, k, p))
         /\ IsFiniteSet(Hits(q, k, p)) /\ Pending(q, k, p) \in Nat
<1>1. Len(q) \in Nat /\ DOMAIN q = 1..Len(q)
  OBVIOUS
<1>2. IsFiniteSet(1..Len(q))
  BY <1>1, FS_Interval
<1>3. Hits(q, k, p) \in SUBSET (1..Len(q))
  BY <1>1 DEF Hits
<1>4. IsFiniteSet(Hits(q, k, p))
  BY <1>2, <1>3, FS_Subset
<1>5. Cardinality(Hits(q, k, p)) \in Nat
  BY <1>4, FS_CardinalityType
<1>6. Pending(q, k, p) = Cardinality(Hits(q, k, p))
  BY DEF Pending, Hits
<1> QED BY <1>1, <1>4, <1>5, <1>6

LEMMA PendingEmpty == \A k, p : Pending(<<>>, k, p) = 0
<1> SUFFICES ASSUME NEW k, NEW p PROVE Pending(<<>>, k, p) = 0
  OBVIOUS
<1>1. {i \in DOMAIN <<>> : <<>>[i].kind = k /\ <<>>[i].who = p} = {}
  OBVIOUS
<1> QED BY <1>1, FS_EmptySet DEF Pending

LEMMA PendingAppend ==
  ASSUME NEW q \in Seq(Mail), NEW e \in Mail, NEW k, NEW p
  PROVE  Pending(Append(q, e), k, p) = Pending(q, k, p) + IF IsHit(e, k, p) THEN 1 ELSE 0
<1>1. /\ Append(q, e) \in Seq(Mail) /\ Len(q) \in Nat /\ DOMAIN q = 1..Len(q)
      /\ DOMAIN Append(q, e) = 1..(Len(q) + 1)
      /\ \A i \in 1..Len(q) : Append(q, e)[i] = q[i]
      /\ Append(q, e)[Len(q) + 1] = e
  OBVIOUS
<1>2. CASE IsHit(e, k, p)
  <2>1. Hits(Append(q, e), k, p) = Hits(q, k, p) \cup {Len(q) + 1}
    BY <1>1, <1>2 DEF Hits, IsHit
  <2>2. Len(q) + 1 \notin Hits(q, k, p)
    BY <1>1 DEF Hits
  <2>3. Cardinality(Hits(q, k, p) \cup {Len(q) + 1}) = Cardinality(Hits(q, k, p)) + 1
    BY <2>2, HitsFinite, FS_AddElement
  <2> QED BY <1>1, <1>2, <2>1, <2>3, HitsFinite
<1>3. CASE ~IsHit(e, k, p)
  <2>1. Hits(Append(q, e), k, p) = Hits(q, k, p)
    BY <1>1, <1>3 DEF Hits, IsHit
  <2>2. Pending(q, k, p) \in Nat /\ Pending(Append(q, e), k, p) = Pending(q, k, p)
    BY <1>1, <2>1, HitsFinite
  <2> QED BY <1>3, <2>2
<1> QED BY <1>2, <1>3

\* what comes last changes neither the head nor, but at its end, the tail
LEMMA AppendLast ==
  ASSUME NEW q \in Seq(Mail), NEW e \in Mail, q # <<>>
  PROVE  Append(q, e) # <<>> /\ Head(Append(q, e)) = Head(q) /\ Tail(Append(q, e)) = Append(Tail(q), e)
<1>1. Append(q, e) # <<>>
  OBVIOUS
<1> QED BY <1>1, HeadTailAppend

LEMMA PendingTail ==
  ASSUME NEW q \in Seq(Mail), q # <<>>, NEW k, NEW p
  PROVE  Pending(q, k, p) = Pending(Tail(q), k, p) + IF IsHit(Head(q), k, p) THEN 1 ELSE 0
<1>1. /\ Tail(q) \in Seq(Mail) /\ Len(q) \in Nat /\ Len(q) > 0 /\ DOMAIN q = 1..Len(q)
      /\ Head(q) = q[1]
      /\ DOMAIN Tail(q) = 1..(Len(q) - 1)
      /\ \A i \in 1..(Len(q) - 1) : Tail(q)[i] = q[i + 1]
  OBVIOUS
<1> DEFINE rest == Hits(q, k, p) \ {1}
           f == [i \in Hits(Tail(q), k, p) |-> i + 1]
<1>2. \A i \in Hits(Tail(q), k, p) : i \in Int /\ i + 1 \in rest
  BY <1>1 DEF Hits
<1>3. \A j \in rest : j \in Int /\ j - 1 \in Hits(Tail(q), k, p)
  BY <1>1 DEF Hits
<1>4. f \in [Hits(Tail(q), k, p) -> rest]
  BY <1>2
<1>5. \A i, j \in Hits(Tail(q), k, p) : f[i] = f[j] => i = j
  BY <1>2
<1>6. \A j \in rest : \E i \in Hits(Tail(q), k, p) : f[i] = j
  <2> TAKE j \in rest
  <2>1. j - 1 \in Hits(Tail(q), k, p) /\ j \in Int
    BY <1>3
  <2>2. f[j - 1] = j
    BY <2>1
  <2> QED BY <2>1, <2>2
<1>7. ExistsBijection(Hits(Tail(q), k, p), rest)
  BY <1>4, <1>5, <1>6 DEF ExistsBijection, Bijection, Injection, Surjection, IsInjective
<1>8. Cardinality(rest) = Cardinality(Hits(Tail(q), k, p))
  BY <1>1, <1>7, HitsFinite, FS_Bijection
<1>9. Cardinality(rest) = IF 1 \in Hits(q, k, p) THEN Cardinality(Hits(q, k, p)) - 1
                                                 ELSE Cardinality(Hits(q, k, p))
  BY HitsFinite, FS_RemoveElement
<1>10. 1 \in Hits(q, k, p) <=> IsHit(Head(q), k, p)
  BY <1>1 DEF Hits, IsHit
<1>11. /\ Pending(q, k, p) = Cardinality(Hits(q, k, p)) /\ Pending(q, k, p) \in Nat
       /\ Pending(Tail(q), k, p) = Cardinality(Hits(Tail(q), k, p)) /\ Pending(Tail(q), k, p) \in Nat
  BY <1>1, HitsFinite
<1> HIDE DEF rest
<1> QED BY <1>8, <1>9, <1>10, <1>11

\* a batch of requests, none of them twice
Requests(s) == [i \in DOMAIN s |-> Envelope("request", s[i])]

LEMMA PendingRequests ==
  ASSUME NEW q \in Seq(Mail), NEW s \in Seq(Members), IsInjective(s), NEW p,
         NEW r, r = q \o Requests(s)
  PROVE  /\ r \in Seq(Mail)
         /\ Pending(r, "request", p) = Pending(q, "request", p) + IF p \in ToSet(s) THEN 1 ELSE 0
         /\ Pending(r, "response", p) = Pending(q, "response", p)
<1> DEFINE t == [i \in DOMAIN s |-> Envelope("request", s[i])]
<1>1. Len(s) \in Nat /\ DOMAIN s = 1..Len(s) /\ \A i \in DOMAIN s : s[i] \in Members
  OBVIOUS
<1>2. \A i \in DOMAIN s : Envelope("request", s[i]) \in Mail
  BY <1>1 DEF Envelope, Passing, Mail
<1>3. t \in Seq(Mail) /\ Len(t) = Len(s) /\ r = q \o t
  BY <1>1, <1>2 DEF Requests
<1>4. \A i \in DOMAIN s : t[i].kind = "request" /\ t[i].who = s[i]
  BY DEF Envelope, Passing
<1> HIDE DEF t
<1>5. /\ r \in Seq(Mail) /\ Len(q) \in Nat /\ DOMAIN q = 1..Len(q)
      /\ DOMAIN r = 1..(Len(q) + Len(s))
      /\ \A i \in 1..Len(q) : r[i] = q[i]
      /\ \A i \in 1..Len(s) : r[Len(q) + i] = t[i]
  <2>1. /\ q \o t \in Seq(Mail) /\ Len(q) \in Nat /\ DOMAIN q = 1..Len(q)
        /\ DOMAIN (q \o t) = 1..(Len(q) + Len(t))
        /\ \A i \in 1..Len(q) : (q \o t)[i] = q[i]
        /\ \A i \in 1..Len(t) : (q \o t)[Len(q) + i] = t[i]
    <3>1. /\ q \o t \in Seq(Mail) /\ Len(q \o t) = Len(q) + Len(t)
          /\ \A i \in 1..(Len(q) + Len(t)) : (q \o t)[i] = IF i <= Len(q) THEN q[i] ELSE t[i - Len(q)]
      BY <1>3, ConcatProperties
    <3>2. Len(q) \in Nat /\ Len(t) \in Nat /\ DOMAIN q = 1..Len(q) /\ DOMAIN (q \o t) = 1..Len(q \o t)
      BY <1>3, <3>1
    <3>3. ASSUME NEW i \in 1..Len(t) PROVE (q \o t)[Len(q) + i] = t[i]
      <4>1. Len(q) + i \in 1..(Len(q) + Len(t)) /\ ~(Len(q) + i <= Len(q)) /\ (Len(q) + i) - Len(q) = i
        BY ONLY <3>2, i \in 1..Len(t)
      <4> QED BY <3>1, <4>1
    <3> QED BY ONLY <3>1, <3>2, <3>3
  <2> QED BY ONLY <1>3, <2>1
<1>6. \A i \in DOMAIN r : i \in 1..Len(q) \/ \E j \in 1..Len(s) : i = Len(q) + j
  <2> TAKE i \in DOMAIN r
  <2>1. CASE i > Len(q)
    <3>1. i - Len(q) \in 1..Len(s) /\ i = Len(q) + (i - Len(q))
      BY <1>1, <1>5, <2>1
    <3> QED BY <3>1
  <2> QED BY <1>1, <1>5, <2>1
<1>7. \A i \in 1..Len(s) : /\ Len(q) + i \in DOMAIN r
                           /\ r[Len(q) + i].kind = "request" /\ r[Len(q) + i].who = s[i]
  <2> TAKE i \in 1..Len(s)
  <2>1. Len(q) + i \in DOMAIN r
    BY ONLY <1>1, <1>5, i \in 1..Len(s)
  <2>2. r[Len(q) + i] = t[i] /\ t[i].kind = "request" /\ t[i].who = s[i]
    BY ONLY <1>1, <1>4, <1>5, i \in 1..Len(s)
  <2> QED BY <2>1, <2>2
<1>8. \A i \in 1..Len(q) : i \in DOMAIN r /\ r[i] = q[i]
  BY <1>1, <1>5
<1>9. ASSUME NEW i PROVE i \in Hits(r, "response", p) <=> i \in Hits(q, "response", p)
  <2>1. i \in Hits(r, "response", p) <=> i \in DOMAIN r /\ r[i].kind = "response" /\ r[i].who = p
    BY DEF Hits
  <2>2. i \in Hits(q, "response", p) <=> i \in 1..Len(q) /\ q[i].kind = "response" /\ q[i].who = p
    BY <1>5 DEF Hits
  <2> QED BY <2>1, <2>2, <1>6, <1>7, <1>8
<1>10. ASSUME NEW i
       PROVE  i \in Hits(r, "request", p) <=>
                \/ i \in Hits(q, "request", p)
                \/ \E j \in 1..Len(s) : i = Len(q) + j /\ s[j] = p
  <2>1. i \in Hits(r, "request", p) <=> i \in DOMAIN r /\ r[i].kind = "request" /\ r[i].who = p
    BY DEF Hits
  <2>2. i \in Hits(q, "request", p) <=> i \in 1..Len(q) /\ q[i].kind = "request" /\ q[i].who = p
    BY <1>5 DEF Hits
  <2>3. CASE i \in 1..Len(q)
    <3>1. \A j \in 1..Len(s) : i # Len(q) + j
      BY <1>1, <1>5, <2>3
    <3> QED BY <2>1, <2>2, <2>3, <3>1, <1>8
  <2>4. CASE i \notin 1..Len(q)
    BY <2>1, <2>2, <2>4, <1>6, <1>7
  <2> QED BY <2>3, <2>4
<1>11. /\ Pending(q, "request", p) = Cardinality(Hits(q, "request", p)) /\ Pending(q, "request", p) \in Nat
       /\ Pending(r, "request", p) = Cardinality(Hits(r, "request", p))
       /\ Pending(q, "response", p) = Cardinality(Hits(q, "response", p))
       /\ Pending(r, "response", p) = Cardinality(Hits(r, "response", p))
  BY <1>5, HitsFinite
<1>12. Hits(r, "response", p) = Hits(q, "response", p)
  BY <1>9
<1>13. CASE p \in ToSet(s)
  <2>1. PICK j \in 1..Len(s) : s[j] = p
    BY <1>1, <1>13 DEF ToSet
  <2>2. \A i \in 1..Len(s) : s[i] = p => i = j
    BY <1>1, <2>1 DEF IsInjective
  <2>3. Hits(r, "request", p) = Hits(q, "request", p) \cup {Len(q) + j}
    BY <1>10, <2>1, <2>2
  <2>4. Len(q) + j \notin Hits(q, "request", p)
    BY <1>1, <1>5, <2>1 DEF Hits
  <2>5. Cardinality(Hits(q, "request", p) \cup {Len(q) + j}) = Cardinality(Hits(q, "request", p)) + 1
    BY <2>4, HitsFinite, FS_AddElement
  <2> QED BY <1>5, <1>11, <1>12, <1>13, <2>3, <2>5
<1>14. CASE p \notin ToSet(s)
  <2>1. \A i \in 1..Len(s) : s[i] # p
    BY <1>1, <1>14 DEF ToSet
  <2>2. Hits(r, "request", p) = Hits(q, "request", p)
    BY <1>10, <2>1
  <2> QED BY <1>5, <1>11, <1>12, <1>14, <2>2
<1> QED BY <1>13, <1>14
-----------------------------------------------------------------------------
\* the line of the manager without the message it is selecting for
Answered == IF selecting THEN Tail(inbox[Manager]) ELSE inbox[Manager]

\* the part of Outstanding that the line of a participant does not hold
Abroad(p) == Pending(bus, "request", p) + Pending(bus, "response", p) + Pending(Answered, "response", p)

LEMMA Team == /\ Members \subseteq Agents /\ Manager \in Agents /\ Manager \notin Members
              /\ User \notin Members
BY TeamAssumption DEF Agents

LEMMA MailKinds ==
  ASSUME NEW e \in Mail
  PROVE  /\ e.kind \in {"start", "relay", "request", "response", "log", "error"}
         /\ e.kind \in {"request", "response", "log", "error"} => e.who \in Members
BY DEF Mail

LEMMA AnsweredTyped ==
  ASSUME Shapes, SelectingHolds
  PROVE  /\ Answered \in Seq(Mail) /\ inbox[Manager] \in Seq(Mail)
         /\ \A p \in Members : inbox[p] \in Seq(Mail)
<1>1. inbox[Manager] \in Seq(Mail) /\ \A p \in Members : inbox[p] \in Seq(Mail)
  BY Team DEF Shapes
<1>2. selecting => inbox[Manager] # <<>>
  BY DEF SelectingHolds
<1> QED BY <1>1, <1>2 DEF Answered

LEMMA OutstandingParts ==
  ASSUME Shapes, SelectingHolds, NEW p \in Members
  PROVE  /\ Outstanding(p) = Abroad(p) + Pending(inbox[p], "request", p)
         /\ Abroad(p) \in Nat /\ Pending(inbox[p], "request", p) \in Nat
<1>1. /\ Pending(bus, "request", p) \in Nat /\ Pending(bus, "response", p) \in Nat
      /\ Pending(Answered, "response", p) \in Nat /\ Pending(inbox[p], "request", p) \in Nat
  BY AnsweredTyped, HitsFinite DEF Shapes
<1>2. Outstanding(p) = Pending(bus, "request", p) + Pending(inbox[p], "request", p)
                        + Pending(bus, "response", p) + Pending(Answered, "response", p)
  BY DEF Outstanding, Answered
<1> QED BY <1>1, <1>2 DEF Abroad

\* the same after a step
LEMMA OutstandingNext ==
  ASSUME bus' \in Seq(Mail), inbox' \in [Agents -> Seq(Mail)], SelectingHolds', NEW p \in Members
  PROVE  /\ Outstanding(p)' = Abroad(p)' + Pending(inbox[p], "request", p)'
         /\ Abroad(p)' \in Nat /\ Pending(inbox[p], "request", p)' \in Nat
         /\ Answered' \in Seq(Mail)
<1>1. inbox'[Manager] \in Seq(Mail) /\ inbox'[p] \in Seq(Mail)
  BY Team
<1>2. selecting' => inbox'[Manager] # <<>>
  BY DEF SelectingHolds
<1>3. Answered' \in Seq(Mail)
  BY <1>1, <1>2 DEF Answered
<1>4. /\ Pending(bus', "request", p) \in Nat /\ Pending(bus', "response", p) \in Nat
      /\ Pending(Answered', "response", p) \in Nat /\ Pending(inbox'[p], "request", p) \in Nat
  BY <1>1, <1>3, HitsFinite
<1>5. Outstanding(p)' = Pending(bus', "request", p) + Pending(inbox'[p], "request", p)
                        + Pending(bus', "response", p) + Pending(Answered', "response", p)
  BY DEF Outstanding, Answered, Pending
<1>6. /\ Abroad(p)' = Pending(bus', "request", p) + Pending(bus', "response", p)
                        + Pending(Answered', "response", p)
      /\ Pending(inbox[p], "request", p)' = Pending(inbox'[p], "request", p)
  BY DEF Abroad, Pending
<1> QED BY <1>3, <1>4, <1>5, <1>6

\* A step that leaves the lines of the participants alone.
LEMMA OutsideMembers ==
  ASSUME ActiveInv, inbox' \in [Agents -> Seq(Mail)], \A p \in Members : inbox'[p] = inbox[p],
         work' \in [Members -> {"idle", "thinking", "logged"}], WorkIsAsked',
         bus' \in Seq(Mail), active' \in [Members -> Nat], SelectingHolds', RobinStands',
         \A p \in Members : Abroad(p)' + active[p] <= Abroad(p) + active'[p]
  PROVE  ActiveInv'
<1>1. Shapes'
  BY DEF ActiveInv, Shapes
<1>2. RequestsAreOwn'
  BY DEF ActiveInv, RequestsAreOwn
<1>3. ASSUME NEW p \in Members PROVE Outstanding(p)' <= active'[p]
  <2>1. /\ Outstanding(p) = Abroad(p) + Pending(inbox[p], "request", p)
        /\ Abroad(p) \in Nat /\ Pending(inbox[p], "request", p) \in Nat
    BY OutstandingParts DEF ActiveInv
  <2>2. /\ Outstanding(p)' = Abroad(p)' + Pending(inbox[p], "request", p)'
        /\ Abroad(p)' \in Nat /\ Pending(inbox[p], "request", p)' \in Nat
    BY OutstandingNext
  <2>3. Pending(inbox[p], "request", p)' = Pending(inbox[p], "request", p)
    BY DEF Pending
  <2>4. active[p] \in Nat /\ active'[p] \in Nat /\ Outstanding(p) <= active[p]
    BY DEF ActiveInv, Shapes, RespondersAreActive
  <2>5. Abroad(p)' + active[p] <= Abroad(p) + active'[p]
    OBVIOUS
  <2> QED BY ONLY <2>1, <2>2, <2>3, <2>4, <2>5
<1>4. RespondersAreActive'
  BY <1>3 DEF RespondersAreActive
<1> QED BY <1>1, <1>2, <1>4 DEF ActiveInv

\* A participant's handler ends, or passes its turn on to the queue.
LEMMA MemberEnds ==
  ASSUME ActiveInv, NEW p \in Members, inbox[p] # <<>>, Finished(p),
         work' \in [Members -> {"idle", "thinking", "logged"}], work'[p] = "idle",
         \A n \in Members \ {p} : work'[n] = work[n],
         bus' \in Seq(Mail), UNCHANGED <<active, selecting, terminated, speaker, style, saved>>,
         \A n \in Members : /\ Pending(bus', "request", n) = Pending(bus, "request", n)
                            /\ Pending(bus', "response", n) <= Pending(bus, "response", n) +
                                 IF n = p /\ Head(inbox[p]).kind = "request" THEN 1 ELSE 0
  PROVE  ActiveInv'
<1> USE Team
<1>1. inbox \in [Agents -> Seq(Mail)] /\ active \in [Members -> Nat] /\ bus \in Seq(Mail)
  BY DEF ActiveInv, Shapes
<1>2. inbox' \in [Agents -> Seq(Mail)] /\ inbox'[p] = Tail(inbox[p])
      /\ \A a \in Agents \ {p} : inbox'[a] = inbox[a]
  BY <1>1 DEF Finished
<1>3. inbox[p] \in Seq(Mail) /\ inbox'[Manager] = inbox[Manager]
  BY <1>1, <1>2
<1>4. Shapes'
  BY <1>1, <1>2 DEF Shapes
<1>5. RobinStands' /\ SelectingHolds'
  BY <1>3 DEF ActiveInv, RobinStands, SelectingHolds
<1>6. RequestsAreOwn'
  <2>1. \A i \in DOMAIN Tail(inbox[p]) : i + 1 \in DOMAIN inbox[p] /\ Tail(inbox[p])[i] = inbox[p][i + 1]
    BY <1>3
  <2>2. \A n \in Members \ {p} : inbox'[n] = inbox[n]
    BY <1>2
  <2>3. \A n \in Members : \A i \in DOMAIN inbox[n] : inbox[n][i].kind = "request" => inbox[n][i].who = n
    BY DEF ActiveInv, RequestsAreOwn
  <2>4. \A i \in DOMAIN inbox'[p] : inbox'[p][i].kind = "request" => inbox'[p][i].who = p
    BY ONLY <1>2, <2>1, <2>3, p \in Members
  <2>5. \A n \in Members : \A i \in DOMAIN inbox'[n] : inbox'[n][i].kind = "request" => inbox'[n][i].who = n
    BY ONLY <2>2, <2>3, <2>4
  <2> QED BY <2>5 DEF RequestsAreOwn
<1>7. WorkIsAsked'
  BY <1>2 DEF ActiveInv, WorkIsAsked
<1>8. ASSUME NEW n \in Members PROVE Outstanding(n)' <= active'[n]
  <2>1. /\ Outstanding(n) = Abroad(n) + Pending(inbox[n], "request", n)
        /\ Abroad(n) \in Nat /\ Pending(inbox[n], "request", n) \in Nat
    BY OutstandingParts DEF ActiveInv
  <2>2. /\ Outstanding(n)' = Abroad(n)' + Pending(inbox[n], "request", n)'
        /\ Abroad(n)' \in Nat /\ Pending(inbox[n], "request", n)' \in Nat
    BY <1>2, <1>5, OutstandingNext
  <2>3. /\ Abroad(n) = Pending(bus, "request", n) + Pending(bus, "response", n) + Pending(Answered, "response", n)
        /\ Abroad(n)' = Pending(bus', "request", n) + Pending(bus', "response", n) + Pending(Answered, "response", n)
    BY <1>3 DEF Abroad, Answered, Pending
  <2>4. /\ Pending(bus, "request", n) \in Nat /\ Pending(bus, "response", n) \in Nat
        /\ Pending(bus', "response", n) \in Nat
    BY <1>1, HitsFinite
  <2>5. Pending(Answered, "response", n) \in Nat
    BY AnsweredTyped, HitsFinite DEF ActiveInv
  <2>6. active[n] \in Nat /\ active' = active /\ Outstanding(n) <= active[n]
    BY <1>1 DEF ActiveInv, RespondersAreActive
  <2>7. CASE n # p
    <3>1. Pending(inbox[n], "request", n)' = Pending(inbox[n], "request", n)
      BY <1>2, <2>7 DEF Pending
    <3>2. /\ Pending(bus', "request", n) = Pending(bus, "request", n)
          /\ Pending(bus', "response", n) <= Pending(bus, "response", n)
      BY <2>4, <2>7
    <3> QED BY ONLY <2>1, <2>2, <2>3, <2>4, <2>5, <2>6, <3>1, <3>2
  <2>8. CASE n = p
    <3>1. Pending(inbox[p], "request", p) = Pending(Tail(inbox[p]), "request", p)
                                            + IF IsHit(Head(inbox[p]), "request", p) THEN 1 ELSE 0
      BY <1>3, PendingTail
    <3>2. IsHit(Head(inbox[p]), "request", p) <=> Head(inbox[p]).kind = "request"
      <4>1. Head(inbox[p]) = inbox[p][1] /\ 1 \in DOMAIN inbox[p]
        BY <1>3
      <4> QED BY <4>1 DEF IsHit, ActiveInv, RequestsAreOwn
    <3>3. Pending(inbox[n], "request", n)' = Pending(Tail(inbox[p]), "request", p)
      BY <1>2, <2>8 DEF Pending
    <3>4. /\ Pending(bus', "request", n) = Pending(bus, "request", n)
          /\ Pending(bus', "response", n) <= Pending(bus, "response", n) +
                                 IF Head(inbox[p]).kind = "request" THEN 1 ELSE 0
      BY <2>8
    <3> QED BY ONLY <2>1, <2>2, <2>3, <2>4, <2>5, <2>6, <2>8, <3>1, <3>2, <3>3, <3>4
  <2> QED BY <2>7, <2>8
<1>9. RespondersAreActive'
  BY <1>8 DEF RespondersAreActive
<1> QED BY <1>4, <1>5, <1>6, <1>7, <1>9 DEF ActiveInv

(* The runtime hands a message to its subscribers: the line of the one it  *)
(* asks, or the line of the manager it answers, takes over the count.      *)
LEMMA DeliverActive == ASSUME ActiveInv, Deliver PROVE ActiveInv'
<1> USE Team
<1> DEFINE e == Head(bus)
           Got(a) == IF a \in Audience(e) THEN Append(inbox[a], e) ELSE inbox[a]
<1>1. /\ inbox \in [Agents -> Seq(Mail)] /\ active \in [Members -> Nat] /\ bus \in Seq(Mail) /\ bus # <<>>
      /\ bus' = Tail(bus) /\ inbox' = [a \in Agents |-> Got(a)]
      /\ UNCHANGED <<active, work, selecting, terminated, speaker, style, saved>>
  BY DEF ActiveInv, Shapes, Deliver, managerVars, memberVars, callerVars
<1>2. e \in Mail /\ e.kind # "error" /\ Tail(bus) \in Seq(Mail)
  BY <1>1 DEF Deliver
<1> HIDE DEF e
<1>3. \A a \in Agents : inbox[a] \in Seq(Mail) /\ Got(a) \in Seq(Mail) /\ inbox'[a] = Got(a)
  BY <1>1, <1>2
<1>4. Shapes'
  BY <1>1, <1>2, <1>3 DEF Shapes, ActiveInv
<1>5. \A a \in Agents : inbox[a] # <<>> => inbox'[a] # <<>> /\ Head(inbox'[a]) = Head(inbox[a])
  <2> TAKE a \in Agents
  <2>1. inbox[a] \in Seq(Mail) /\ (inbox'[a] = Append(inbox[a], e) \/ inbox'[a] = inbox[a])
    BY <1>3
  <2> QED BY <1>2, <2>1, AppendLast
<1>6. RobinStands' /\ SelectingHolds' /\ WorkIsAsked'
  BY <1>1, <1>5 DEF ActiveInv, RobinStands, SelectingHolds, WorkIsAsked
<1> HIDE DEF Got
<1>7. \A a \in Agents : Got(a) = IF a \in Audience(e) THEN Append(inbox[a], e) ELSE inbox[a]
  BY DEF Got
<1>8. /\ e.kind = "request" => Audience(e) = {e.who} /\ e.who \in Members
      /\ e.kind = "response" => Audience(e) = Agents \ {e.who} /\ e.who \in Members
      /\ e.kind \in {"start", "relay", "request", "response", "log"}
  BY <1>2, MailKinds DEF Audience
<1>9. RequestsAreOwn'
  <2> SUFFICES ASSUME NEW n \in Members, NEW i \in DOMAIN inbox'[n], inbox'[n][i].kind = "request"
               PROVE  inbox'[n][i].who = n
    BY DEF RequestsAreOwn
  <2>1. \A j \in DOMAIN inbox[n] : inbox[n][j].kind = "request" => inbox[n][j].who = n
    BY DEF ActiveInv, RequestsAreOwn
  <2>2. CASE n \notin Audience(e)
    BY <1>3, <1>7, <2>1, <2>2
  <2>3. CASE n \in Audience(e)
    <3>1. inbox'[n] = Append(inbox[n], e) /\ inbox[n] \in Seq(Mail)
      BY <1>3, <1>7, <2>3
    <3>2. CASE i \in DOMAIN inbox[n]
      BY <3>1, <3>2, <2>1
    <3>3. CASE i \notin DOMAIN inbox[n]
      <4>1. inbox'[n][i] = e
        BY <3>1, <3>3
      <4> QED BY <4>1, <1>8, <2>3
    <3> QED BY <3>2, <3>3
  <2> QED BY <2>2, <2>3
<1>10. ASSUME NEW p \in Members PROVE Outstanding(p)' <= active'[p]
  <2>1. /\ Outstanding(p) = Abroad(p) + Pending(inbox[p], "request", p)
        /\ Abroad(p) \in Nat /\ Pending(inbox[p], "request", p) \in Nat
    BY OutstandingParts DEF ActiveInv
  <2>2. /\ Outstanding(p)' = Abroad(p)' + Pending(inbox[p], "request", p)'
        /\ Abroad(p)' \in Nat /\ Pending(inbox[p], "request", p)' \in Nat
    BY <1>4, <1>6, OutstandingNext DEF Shapes
  <2>3. active[p] \in Nat /\ active' = active /\ Outstanding(p) <= active[p]
    BY <1>1 DEF ActiveInv, RespondersAreActive
  <2>4. \A k : /\ Pending(bus, k, p) = Pending(bus', k, p) + (IF IsHit(e, k, p) THEN 1 ELSE 0)
               /\ Pending(bus, k, p) \in Nat /\ Pending(bus', k, p) \in Nat
    BY <1>1, <1>2, PendingTail, HitsFinite DEF e
  <2>5. Pending(inbox[p], "request", p)' = Pending(inbox[p], "request", p) + IF IsHit(e, "request", p) THEN 1 ELSE 0
    <3>1. Pending(inbox[p], "request", p)' = Pending(Got(p), "request", p)
      BY <1>3 DEF Pending
    <3>2. CASE p \in Audience(e)
      <4>1. inbox[p] \in Seq(Mail) /\ Got(p) = Append(inbox[p], e)
        BY <1>3, <1>7, <3>2
      <4> QED BY <1>2, <3>1, <4>1, PendingAppend
    <3>3. CASE p \notin Audience(e)
      <4>1. ~IsHit(e, "request", p)
        BY <1>8, <3>3 DEF IsHit
      <4>2. Got(p) = inbox[p]
        BY <1>7, <3>3
      <4> QED BY <2>1, <3>1, <4>1, <4>2
    <3> QED BY <3>2, <3>3
  <2>6. Pending(Answered', "response", p) = Pending(Answered, "response", p) + IF IsHit(e, "response", p) THEN 1 ELSE 0
    <3>1. Answered \in Seq(Mail) /\ Pending(Answered, "response", p) \in Nat
      BY AnsweredTyped, HitsFinite DEF ActiveInv
    <3>2. CASE Manager \in Audience(e)
      <4>1. inbox'[Manager] = Append(inbox[Manager], e) /\ inbox[Manager] \in Seq(Mail)
        BY <1>3, <1>7, <3>2
      <4>2. selecting => inbox[Manager] # <<>>
        BY DEF ActiveInv, SelectingHolds
      <4>3. Answered' = Append(Answered, e)
        <5>1. selecting => Tail(Append(inbox[Manager], e)) = Append(Tail(inbox[Manager]), e)
          BY <1>2, <4>1, <4>2, AppendLast
        <5> QED BY <1>1, <4>1, <5>1 DEF Answered
      <4> QED BY <1>2, <3>1, <4>3, PendingAppend
    <3>3. CASE Manager \notin Audience(e)
      <4>1. inbox'[Manager] = inbox[Manager]
        BY <1>3, <1>7, <3>3
      <4>2. Answered' = Answered
        BY <1>1, <4>1 DEF Answered
      <4>3. ~IsHit(e, "response", p)
        BY <1>8, <3>3 DEF IsHit
      <4> QED BY <3>1, <4>2, <4>3
    <3> QED BY <3>2, <3>3
  <2>7. /\ Abroad(p) = Pending(bus, "request", p) + Pending(bus, "response", p) + Pending(Answered, "response", p)
        /\ Abroad(p)' = Pending(bus', "request", p) + Pending(bus', "response", p) + Pending(Answered', "response", p)
    BY DEF Abroad, Pending
  <2>8. Pending(Answered, "response", p) \in Nat
    BY AnsweredTyped, HitsFinite DEF ActiveInv
  <2>9. /\ Pending(bus, "request", p) = Pending(bus', "request", p) + (IF IsHit(e, "request", p) THEN 1 ELSE 0)
        /\ Pending(bus, "response", p) = Pending(bus', "response", p) + (IF IsHit(e, "response", p) THEN 1 ELSE 0)
        /\ Pending(bus', "request", p) \in Nat /\ Pending(bus', "response", p) \in Nat
    BY <2>4
  <2> QED BY ONLY <2>1, <2>2, <2>3, <2>5, <2>6, <2>7, <2>8, <2>9
<1>11. RespondersAreActive'
  BY <1>10 DEF RespondersAreActive
<1> QED BY <1>4, <1>6, <1>9, <1>11 DEF ActiveInv

\* A step on the queue of the runtime that adds neither request nor response.
LEMMA OutsideAgents ==
  ASSUME ActiveInv, UNCHANGED <<inbox, active, selecting>>, terminated' => terminated,
         work' \in [Members -> {"idle", "thinking", "logged"}], WorkIsAsked', RobinStands',
         bus' \in Seq(Mail),
         \A p \in Members : /\ Pending(bus', "request", p) <= Pending(bus, "request", p)
                            /\ Pending(bus', "response", p) <= Pending(bus, "response", p)
  PROVE  ActiveInv'
<1>1. Shapes /\ SelectingHolds
  BY DEF ActiveInv
<1>2. inbox' \in [Agents -> Seq(Mail)] /\ active' \in [Members -> Nat] /\ bus \in Seq(Mail)
  BY <1>1 DEF Shapes
<1>3. SelectingHolds'
  BY <1>1 DEF SelectingHolds
<1>4. ASSUME NEW p \in Members PROVE Abroad(p)' + active[p] <= Abroad(p) + active'[p]
  <2>1. /\ Pending(bus, "request", p) \in Nat /\ Pending(bus, "response", p) \in Nat
        /\ Pending(bus', "request", p) \in Nat /\ Pending(bus', "response", p) \in Nat
        /\ Pending(Answered, "response", p) \in Nat /\ active[p] \in Nat /\ active'[p] = active[p]
    BY <1>1, <1>2, AnsweredTyped, HitsFinite
  <2>2. /\ Abroad(p) = Pending(bus, "request", p) + Pending(bus, "response", p) + Pending(Answered, "response", p)
        /\ Abroad(p)' = Pending(bus', "request", p) + Pending(bus', "response", p) + Pending(Answered, "response", p)
    BY DEF Abroad, Answered, Pending
  <2>3. /\ Pending(bus', "request", p) <= Pending(bus, "request", p)
        /\ Pending(bus', "response", p) <= Pending(bus, "response", p)
    OBVIOUS
  <2> QED BY ONLY <2>1, <2>2, <2>3
<1> QED BY <1>2, <1>3, <1>4, OutsideMembers

\* A handler of the manager ends.  What it takes off the list is the response
\* it holds, unless that was taken off before select_speaker was awaited.
LEMMA ManagerEnds ==
  ASSUME ActiveInv, inbox[Manager] # <<>>, Finished(Manager), ~selecting',
         UNCHANGED work, RobinStands', bus' \in Seq(Mail), active' \in [Members -> Nat],
         \A p \in Members :
            Pending(bus', "request", p) + Pending(bus', "response", p) + active[p] <=
                Pending(bus, "request", p) + Pending(bus, "response", p) + active'[p]
                + IF ~selecting /\ IsHit(Head(inbox[Manager]), "response", p) THEN 1 ELSE 0
  PROVE  ActiveInv'
<1> USE Team
<1>1. Shapes /\ SelectingHolds /\ WorkIsAsked
  BY DEF ActiveInv
<1>2. /\ inbox \in [Agents -> Seq(Mail)] /\ bus \in Seq(Mail) /\ active \in [Members -> Nat]
      /\ work' \in [Members -> {"idle", "thinking", "logged"}]
  BY <1>1 DEF Shapes
<1>3. /\ inbox' \in [Agents -> Seq(Mail)] /\ inbox'[Manager] = Tail(inbox[Manager])
      /\ \A p \in Members : inbox'[p] = inbox[p]
  BY <1>2 DEF Finished
<1>4. SelectingHolds' /\ WorkIsAsked'
  BY <1>1, <1>3 DEF SelectingHolds, WorkIsAsked
<1>5. ASSUME NEW p \in Members PROVE Abroad(p)' + active[p] <= Abroad(p) + active'[p]
  <2>1. /\ Pending(bus, "request", p) \in Nat /\ Pending(bus, "response", p) \in Nat
        /\ Pending(bus', "request", p) \in Nat /\ Pending(bus', "response", p) \in Nat
        /\ Pending(Answered, "response", p) \in Nat /\ active[p] \in Nat /\ active'[p] \in Nat
    BY <1>1, <1>2, AnsweredTyped, HitsFinite
  <2>2. Answered' = Tail(inbox[Manager]) /\ inbox[Manager] \in Seq(Mail) /\ Tail(inbox[Manager]) \in Seq(Mail)
    BY <1>2, <1>3 DEF Answered
  <2>3. /\ Abroad(p) = Pending(bus, "request", p) + Pending(bus, "response", p) + Pending(Answered, "response", p)
        /\ Abroad(p)' = Pending(bus', "request", p) + Pending(bus', "response", p) + Pending(Answered', "response", p)
    BY DEF Abroad, Pending
  <2>4. Pending(inbox[Manager], "response", p) = Pending(Tail(inbox[Manager]), "response", p)
           + IF IsHit(Head(inbox[Manager]), "response", p) THEN 1 ELSE 0
    BY <2>2, PendingTail
  <2>5. Pending(Tail(inbox[Manager]), "response", p) \in Nat
    BY <2>2, HitsFinite
  <2>6. Answered = IF selecting THEN Tail(inbox[Manager]) ELSE inbox[Manager]
    BY DEF Answered
  <2>7. Pending(Answered', "response", p)
           + (IF ~selecting /\ IsHit(Head(inbox[Manager]), "response", p) THEN 1 ELSE 0)
         = Pending(Answered, "response", p)
    <3>1. CASE selecting
      BY <2>2, <2>5, <2>6, <3>1
    <3>2. CASE ~selecting
      BY <2>2, <2>4, <2>5, <2>6, <3>2
    <3> QED BY <3>1, <3>2
  <2>8. Pending(bus', "request", p) + Pending(bus', "response", p) + active[p] <=
                Pending(bus, "request", p) + Pending(bus, "response", p) + active'[p]
                + IF ~selecting /\ IsHit(Head(inbox[Manager]), "response", p) THEN 1 ELSE 0
    OBVIOUS
  <2>9. Pending(Answered', "response", p) \in Nat
    BY <2>2, <2>5
  <2> QED BY ONLY <2>1, <2>3, <2>7, <2>8, <2>9
<1> QED BY <1>2, <1>3, <1>4, <1>5, OutsideMembers

\* A handler of the manager awaits select_speaker.
LEMMA ManagerSelects ==
  ASSUME ActiveInv, inbox[Manager] # <<>>, ~selecting, selecting',
         Head(inbox[Manager]).kind \in {"start", "response"},
         Head(inbox[Manager]).kind = "start" => ~terminated',
         UNCHANGED <<inbox, work>>, RobinStands', bus' \in Seq(Mail), active' \in [Members -> Nat],
         \A p \in Members :
            Pending(bus', "request", p) + Pending(bus', "response", p) + active[p] <=
                Pending(bus, "request", p) + Pending(bus, "response", p) + active'[p]
                + IF IsHit(Head(inbox[Manager]), "response", p) THEN 1 ELSE 0
  PROVE  ActiveInv'
<1> USE Team
<1>1. Shapes /\ SelectingHolds /\ WorkIsAsked
  BY DEF ActiveInv
<1>2. /\ inbox' \in [Agents -> Seq(Mail)] /\ bus \in Seq(Mail) /\ active \in [Members -> Nat]
      /\ work' \in [Members -> {"idle", "thinking", "logged"}] /\ inbox[Manager] \in Seq(Mail)
  BY <1>1 DEF Shapes
<1>3. SelectingHolds' /\ WorkIsAsked'
  BY <1>1 DEF SelectingHolds, WorkIsAsked
<1>4. ASSUME NEW p \in Members PROVE Abroad(p)' + active[p] <= Abroad(p) + active'[p]
  <2>1. /\ Pending(bus, "request", p) \in Nat /\ Pending(bus, "response", p) \in Nat
        /\ Pending(bus', "request", p) \in Nat /\ Pending(bus', "response", p) \in Nat
        /\ active[p] \in Nat /\ active'[p] \in Nat
    BY <1>2, HitsFinite
  <2>2. Answered' = Tail(inbox[Manager]) /\ Answered = inbox[Manager]
    BY DEF Answered
  <2>3. /\ Abroad(p) = Pending(bus, "request", p) + Pending(bus, "response", p) + Pending(Answered, "response", p)
        /\ Abroad(p)' = Pending(bus', "request", p) + Pending(bus', "response", p) + Pending(Answered', "response", p)
    BY DEF Abroad, Pending
  <2>4. Pending(inbox[Manager], "response", p) = Pending(Tail(inbox[Manager]), "response", p)
           + IF IsHit(Head(inbox[Manager]), "response", p) THEN 1 ELSE 0
    BY <1>2, PendingTail
  <2>5. Pending(Tail(inbox[Manager]), "response", p) \in Nat
    <3>1. Tail(inbox[Manager]) \in Seq(Mail)
      BY <1>2
    <3> QED BY <3>1, HitsFinite
  <2>6. Pending(bus', "request", p) + Pending(bus', "response", p) + active[p] <=
                Pending(bus, "request", p) + Pending(bus, "response", p) + active'[p]
                + IF IsHit(Head(inbox[Manager]), "response", p) THEN 1 ELSE 0
    OBVIOUS
  <2>7. /\ Pending(Answered', "response", p) = Pending(Tail(inbox[Manager]), "response", p)
        /\ Pending(Answered, "response", p) = Pending(inbox[Manager], "response", p)
    BY <2>2
  <2> QED BY ONLY <2>1, <2>3, <2>4, <2>5, <2>6, <2>7
<1> QED BY <1>2, <1>3, <1>4, OutsideMembers

\* A step that touches none of this.
LEMMA Untouched ==
  ASSUME ActiveInv, UNCHANGED <<bus, inbox, active, selecting, work>>, terminated' => terminated,
         RobinStands'
  PROVE  ActiveInv'
<1>1. /\ bus' \in Seq(Mail) /\ work' \in [Members -> {"idle", "thinking", "logged"}]
  BY DEF ActiveInv, Shapes
<1>2. WorkIsAsked'
  BY DEF ActiveInv, WorkIsAsked
<1>3. ASSUME NEW p \in Members
      PROVE  /\ Pending(bus', "request", p) <= Pending(bus, "request", p)
             /\ Pending(bus', "response", p) <= Pending(bus, "response", p)
  <2>1. Pending(bus, "request", p) \in Nat /\ Pending(bus, "response", p) \in Nat
    BY HitsFinite DEF ActiveInv, Shapes
  <2>2. /\ Pending(bus', "request", p) = Pending(bus, "request", p)
        /\ Pending(bus', "response", p) = Pending(bus, "response", p)
    OBVIOUS
  <2> QED BY ONLY <2>1, <2>2
<1> QED BY <1>1, <1>2, <1>3, OutsideAgents

LEMMA RuntimeActive == ASSUME ActiveInv, RuntimeStep PROVE ActiveInv'
<1>1. CASE Deliver
  BY <1>1, DeliverActive
<1>2. CASE StopWhenIdle
  <2>1. UNCHANGED <<bus, inbox, active, selecting, work, terminated>> /\ RobinStands'
    BY <1>2 DEF StopWhenIdle, managerVars, memberVars, callerVars, ActiveInv, RobinStands
  <2> QED BY <2>1, Untouched
<1>3. CASE DeliverError \/ RaiseInLoop
  <2>1. /\ UNCHANGED <<inbox, active, selecting, work, terminated, style, speaker, saved>>
        /\ bus' = <<>> \/ (bus # <<>> /\ bus' = Tail(bus))
    BY <1>3 DEF DeliverError, RaiseInLoop, managerVars, memberVars, callerVars
  <2>2. bus \in Seq(Mail) /\ bus' \in Seq(Mail) /\ work' \in [Members -> {"idle", "thinking", "logged"}]
    <3>1. bus \in Seq(Mail) /\ work' \in [Members -> {"idle", "thinking", "logged"}]
      BY <2>1 DEF ActiveInv, Shapes
    <3>2. <<>> \in Seq(Mail) /\ (bus # <<>> => Tail(bus) \in Seq(Mail))
      BY <3>1
    <3>3. bus' \in Seq(Mail)
      BY <2>1, <3>2
    <3> QED BY <3>1, <3>3
  <2>3. RobinStands' /\ WorkIsAsked'
    BY <2>1 DEF ActiveInv, RobinStands, WorkIsAsked
  <2>4. ASSUME NEW p \in Members, NEW k PROVE Pending(bus', k, p) <= Pending(bus, k, p)
    <3>1. Pending(bus, k, p) \in Nat /\ Pending(bus', k, p) \in Nat
      BY <2>2, HitsFinite
    <3>2. CASE bus' = <<>>
      <4>1. Pending(bus', k, p) = 0
        BY <3>2, PendingEmpty
      <4> QED BY ONLY <3>1, <4>1
    <3>3. CASE bus # <<>> /\ bus' = Tail(bus)
      <4>1. Pending(bus, k, p) = Pending(Tail(bus), k, p) + IF IsHit(Head(bus), k, p) THEN 1 ELSE 0
        BY <2>2, <3>3, PendingTail
      <4>2. Pending(bus', k, p) = Pending(Tail(bus), k, p)
        BY <3>3
      <4> QED BY ONLY <3>1, <4>1, <4>2
    <3> QED BY <2>1, <3>2, <3>3
  <2> QED BY <2>1, <2>2, <2>3, <2>4, OutsideAgents
<1> QED BY <1>1, <1>2, <1>3 DEF RuntimeStep

\* The caller: a run begins with an empty queue, and neither reset nor
\* load_state touches the list of active speakers.
LEMMA CallerActive ==
  ASSUME ActiveInv, CallerStep \/ Cancel \/ RunStreamDoomed \/ Reset \/ SaveState \/ LoadState \/ UNCHANGED vars
  PROVE  ActiveInv'
<1> USE TeamAssumption DEF managerVars, memberVars, callerVars, recordVars
<1>1. UNCHANGED <<bus, inbox, active, selecting, work, style>> /\ (terminated' = terminated \/ terminated' = FALSE)
  BY DEF CallerStep, StartAnswered, YieldMessage, EndRun, Cancel, RunStreamDoomed, Reset, SaveState, LoadState, vars
<1>2. RobinStands
  BY DEF ActiveInv
<1>3. CASE CallerStep \/ Cancel \/ RunStreamDoomed \/ UNCHANGED vars
  <2>1. UNCHANGED <<speaker, saved>>
    BY <1>3 DEF CallerStep, StartAnswered, YieldMessage, EndRun, Cancel, RunStreamDoomed, vars
  <2> QED BY <1>1, <1>2, <2>1, Untouched DEF RobinStands
<1>4. CASE Reset
  <2>1. UNCHANGED saved /\ speaker' = FirstSpeaker
    BY <1>4 DEF Reset
  <2>2. Roster[1] \in Members
    OBVIOUS
  <2>3. RobinStands'
    BY <1>1, <1>2, <2>1, <2>2 DEF RobinStands, FirstSpeaker, IsSelector
  <2> QED BY <1>1, <2>3, Untouched
<1>5. CASE SaveState
  <2>1. UNCHANGED speaker /\ saved' # <<>> /\ Head(saved').speaker = speaker
    BY <1>5 DEF SaveState
  <2> QED BY <1>1, <1>2, <2>1, Untouched DEF RobinStands
<1>6. CASE LoadState
  <2>1. saved # <<>> /\ speaker' = Head(saved).speaker /\ saved' = <<>>
    BY <1>6 DEF LoadState
  <2> QED BY <1>1, <1>2, <2>1, Untouched DEF RobinStands
<1> QED BY <1>3, <1>4, <1>5, <1>6

LEMMA RunStreamActive == ASSUME ActiveInv, NEW task \in Tasks, RunStream(task) PROVE ActiveInv'
<1>1. /\ UNCHANGED <<inbox, active, selecting, work, terminated, style, speaker, saved>>
      /\ bus' = <<task>>
  BY DEF RunStream, managerVars, memberVars, callerVars
<1>2. task \in Mail /\ task.kind = "start"
  BY TeamAssumption DEF Tasks, Targets, Envelope, Passing, Mail
<1>3. bus \in Seq(Mail) /\ bus' \in Seq(Mail) /\ work' \in [Members -> {"idle", "thinking", "logged"}]
  BY <1>1, <1>2 DEF ActiveInv, Shapes
<1>4. RobinStands' /\ WorkIsAsked'
  BY <1>1 DEF ActiveInv, RobinStands, WorkIsAsked
<1>5. ASSUME NEW p \in Members
      PROVE  /\ Pending(bus', "request", p) <= Pending(bus, "request", p)
             /\ Pending(bus', "response", p) <= Pending(bus, "response", p)
  <2>1. Pending(bus, "request", p) \in Nat /\ Pending(bus, "response", p) \in Nat
    BY <1>3, HitsFinite
  <2>2. \A i \in DOMAIN <<task>> : <<task>>[i].kind = "start"
    BY <1>2
  <2>3. Hits(bus', "request", p) = {} /\ Hits(bus', "response", p) = {}
    BY <1>1, <2>2 DEF Hits
  <2>4. Pending(bus', "request", p) = 0 /\ Pending(bus', "response", p) = 0
    BY <1>3, <2>3, HitsFinite, FS_EmptySet
  <2> QED BY ONLY <2>1, <2>4
<1> QED BY <1>1, <1>3, <1>4, <1>5, OutsideAgents

\* A message of a participant joins the queue.
LEMMA BusAppend ==
  ASSUME bus \in Seq(Mail), NEW e \in Mail, bus' = Append(bus, e), NEW k, NEW p
  PROVE  /\ bus' \in Seq(Mail) /\ Pending(bus, k, p) \in Nat
         /\ Pending(bus', k, p) = Pending(bus, k, p) + IF IsHit(e, k, p) THEN 1 ELSE 0
<1>1. bus' \in Seq(Mail)
  BY ONLY bus \in Seq(Mail), e \in Mail, bus' = Append(bus, e)
<1> QED BY <1>1, HitsFinite, PendingAppend

LEMMA MemberActive == ASSUME ActiveInv, NEW p \in Members, MemberStep(p) PROVE ActiveInv'
<1> USE Team DEF managerVars, memberVars, callerVars
<1>1. /\ inbox \in [Agents -> Seq(Mail)] /\ bus \in Seq(Mail)
      /\ work \in [Members -> {"idle", "thinking", "logged"}] /\ inbox[p] \in Seq(Mail)
  BY DEF ActiveInv, Shapes
<1>2. work[p] # "idle" => inbox[p] # <<>> /\ Head(inbox[p]).kind = "request"
  BY DEF ActiveInv, WorkIsAsked
<1>3. UNCHANGED <<active, selecting, terminated, speaker, style, saved>>
  BY DEF MemberStep, BufferMessage, CallAgent, LogResponse, AgentFails, AgentCutOff, PublishResponse
<1>4. RobinStands'
  BY <1>3 DEF ActiveInv, RobinStands
<1>5. ASSUME NEW n \in Members PROVE Pending(bus, "request", n) \in Nat /\ Pending(bus, "response", n) \in Nat
  BY <1>1, HitsFinite
<1>6. CASE BufferMessage(p)
  <2>1. inbox[p] # <<>> /\ Finished(p) /\ UNCHANGED <<bus, work>> /\ Head(inbox[p]).kind # "request"
    BY <1>6 DEF BufferMessage, Handling
  <2>2. work'[p] = "idle" /\ work' \in [Members -> {"idle", "thinking", "logged"}]
    BY <1>1, <1>2, <2>1
  <2>3. ASSUME NEW n \in Members
        PROVE  /\ Pending(bus', "request", n) = Pending(bus, "request", n)
               /\ Pending(bus', "response", n) <= Pending(bus, "response", n) +
                    IF n = p /\ Head(inbox[p]).kind = "request" THEN 1 ELSE 0
    <3>1. /\ Pending(bus', "request", n) = Pending(bus, "request", n)
          /\ Pending(bus', "response", n) = Pending(bus, "response", n)
      BY <2>1
    <3> QED BY ONLY <1>5, <3>1, n \in Members
  <2> QED BY <1>1, <1>3, <2>1, <2>2, <2>3, MemberEnds
<1>7. CASE AgentCutOff(p)
  <2>1. work[p] # "idle" /\ Finished(p) /\ work' = [work EXCEPT ![p] = "idle"] /\ UNCHANGED bus
    BY <1>7 DEF AgentCutOff
  <2>2. ASSUME NEW n \in Members
        PROVE  /\ Pending(bus', "request", n) = Pending(bus, "request", n)
               /\ Pending(bus', "response", n) <= Pending(bus, "response", n) +
                    IF n = p /\ Head(inbox[p]).kind = "request" THEN 1 ELSE 0
    <3>1. /\ Pending(bus', "request", n) = Pending(bus, "request", n)
          /\ Pending(bus', "response", n) = Pending(bus, "response", n)
      BY <2>1
    <3> QED BY ONLY <1>5, <3>1, n \in Members
  <2> QED BY <1>1, <1>2, <1>3, <2>1, <2>2, MemberEnds
<1>8. ASSUME NEW e \in Mail, e.kind \in {"response", "error"}, e.who = p, work[p] # "idle",
             Finished(p), work' = [work EXCEPT ![p] = "idle"], bus' = Append(bus, e)
      PROVE  ActiveInv'
  <2>1. ASSUME NEW n \in Members
        PROVE  /\ Pending(bus', "request", n) = Pending(bus, "request", n)
               /\ Pending(bus', "response", n) <= Pending(bus, "response", n) +
                    IF n = p /\ Head(inbox[p]).kind = "request" THEN 1 ELSE 0
    <3>1. /\ Pending(bus', "request", n) = Pending(bus, "request", n) + IF IsHit(e, "request", n) THEN 1 ELSE 0
          /\ Pending(bus', "response", n) = Pending(bus, "response", n) + IF IsHit(e, "response", n) THEN 1 ELSE 0
      BY <1>1, <1>8, BusAppend
    <3>2. ~IsHit(e, "request", n) /\ (IsHit(e, "response", n) => n = p) /\ Head(inbox[p]).kind = "request"
      BY <1>2, <1>8 DEF IsHit
    <3> QED BY ONLY <1>5, <3>1, <3>2, n \in Members
  <2>2. bus' \in Seq(Mail)
    BY <1>1, <1>8, BusAppend
  <2> QED BY <1>1, <1>2, <1>3, <1>8, <2>1, <2>2, MemberEnds
<1>9. CASE AgentFails(p)
  <2>1. Envelope("error", p) \in Mail /\ Envelope("error", p).kind = "error" /\ Envelope("error", p).who = p
    BY DEF Envelope, Passing, Mail
  <2>2. work[p] # "idle" /\ Finished(p) /\ work' = [work EXCEPT ![p] = "idle"] /\ bus' = Append(bus, Envelope("error", p))
    BY <1>9 DEF AgentFails
  <2> QED BY <1>8, <2>1, <2>2
<1>10. CASE \E target \in Targets : PublishResponse(p, target)
  <2>1. PICK target \in Targets : PublishResponse(p, target)
    BY <1>10
  <2> DEFINE e == Passing("response", p, target)
  <2>2. e \in Mail /\ e.kind = "response" /\ e.who = p
    BY TeamAssumption DEF Passing, Mail, Targets
  <2>3. work[p] # "idle" /\ Finished(p) /\ work' = [work EXCEPT ![p] = "idle"] /\ bus' = Append(bus, e)
    BY <2>1 DEF PublishResponse
  <2> HIDE DEF e
  <2> QED BY <1>8, <2>2, <2>3
<1>11. CASE CallAgent(p)
  <2>1. /\ inbox[p] # <<>> /\ Head(inbox[p]).kind = "request" /\ work' = [work EXCEPT ![p] = "thinking"]
        /\ UNCHANGED <<bus, inbox>>
    BY <1>11 DEF CallAgent, Handling
  <2>2. Head(inbox[p]).who = p
    <3>1. Head(inbox[p]) = inbox[p][1] /\ 1 \in DOMAIN inbox[p]
      BY <1>1, <2>1
    <3> QED BY <2>1, <3>1 DEF ActiveInv, RequestsAreOwn
  <2>3. WorkIsAsked' /\ work' \in [Members -> {"idle", "thinking", "logged"}]
    BY <1>1, <2>1, <2>2 DEF ActiveInv, WorkIsAsked
  <2>4. ASSUME NEW n \in Members
        PROVE  /\ Pending(bus', "request", n) <= Pending(bus, "request", n)
               /\ Pending(bus', "response", n) <= Pending(bus, "response", n)
    <3>1. /\ Pending(bus', "request", n) = Pending(bus, "request", n)
          /\ Pending(bus', "response", n) = Pending(bus, "response", n)
      BY <2>1
    <3> QED BY ONLY <1>5, <3>1, n \in Members
  <2> QED BY <1>1, <1>3, <1>4, <2>1, <2>3, <2>4, OutsideAgents
<1>12. CASE LogResponse(p)
  <2> DEFINE e == Envelope("log", p)
  <2>1. e \in Mail /\ e.kind = "log"
    BY DEF Envelope, Passing, Mail
  <2>2. /\ work[p] # "idle" /\ work' = [work EXCEPT ![p] = "logged"]
        /\ bus' = Append(bus, e) /\ UNCHANGED inbox
    BY <1>12 DEF LogResponse
  <2> HIDE DEF e
  <2>3. WorkIsAsked' /\ work' \in [Members -> {"idle", "thinking", "logged"}]
    BY <1>1, <2>2 DEF ActiveInv, WorkIsAsked
  <2>4. ASSUME NEW n \in Members
        PROVE  /\ Pending(bus', "request", n) <= Pending(bus, "request", n)
               /\ Pending(bus', "response", n) <= Pending(bus, "response", n)
    <3>1. /\ Pending(bus', "request", n) = Pending(bus, "request", n) + IF IsHit(e, "request", n) THEN 1 ELSE 0
          /\ Pending(bus', "response", n) = Pending(bus, "response", n) + IF IsHit(e, "response", n) THEN 1 ELSE 0
      BY <1>1, <2>1, <2>2, BusAppend
    <3>2. ~IsHit(e, "request", n) /\ ~IsHit(e, "response", n)
      BY <2>1 DEF IsHit
    <3> QED BY ONLY <1>5, <3>1, <3>2, n \in Members
  <2>5. bus' \in Seq(Mail)
    BY <1>1, <2>1, <2>2, BusAppend
  <2> QED BY <1>3, <1>4, <2>2, <2>3, <2>4, <2>5, OutsideAgents
<1> QED BY <1>6, <1>7, <1>9, <1>10, <1>11, <1>12 DEF MemberStep
-----------------------------------------------------------------------------
(* The manager.                                                            *)

LEMMA RosterFinite == IsFiniteSet(Members)
<1>1. Roster \in [1..Len(Roster) -> Members] /\ Len(Roster) \in Nat
  BY TeamAssumption
<1>2. Members = {Roster[i] : i \in 1..Len(Roster)}
  BY <1>1 DEF Members, ToSet
<1>3. Roster \in Surjection(1..Len(Roster), Members)
  BY <1>1, <1>2 DEF Surjection
<1> QED BY <1>1, <1>3, FS_Interval, FS_Surjection

LEMMA RosterSpeaks ==
  ASSUME NEW p \in Members
  PROVE  After(p) \in Members
<1>1. Len(Roster) \in Nat \ {0} /\ DOMAIN Roster = 1..Len(Roster)
      /\ \A i \in DOMAIN Roster : Roster[i] \in Members
  BY TeamAssumption
<1>2. \E i \in DOMAIN Roster : Roster[i] = p
  BY <1>1 DEF Members, ToSet
<1> DEFINE i == CHOOSE i \in DOMAIN Roster : Roster[i] = p
<1>3. i \in DOMAIN Roster
  BY <1>2
<1>4. After(p) = Roster[(i % Len(Roster)) + 1]
  BY DEF After
<1> HIDE DEF i
<1>5. (i % Len(Roster)) + 1 \in 1..Len(Roster)
  BY <1>1, <1>3
<1> QED BY <1>1, <1>4, <1>5

\* select_speaker names participants, none of them twice
LEMMA Chooses ==
  ASSUME RobinStands, NEW pick \in Selections
  PROVE  /\ pick.chosen \in Seq(Members) /\ IsInjective(pick.chosen)
         /\ style = "round_robin" => pick.speaker \in Members
<1>1. \A p \in Members : <<p>> \in Seq(Members) /\ IsInjective(<<p>>)
  BY DEF IsInjective
<1>2. style \in {"round_robin", "swarm", "selector", "function", "candidates", "parallel"}
  BY TeamAssumption DEF RobinStands
<1>3. \A C \in SUBSET Members : Named(C) \subseteq Members
  BY DEF Named
<1>4. CASE style = "round_robin"
  <2>1. speaker \in Members /\ pick = [chosen |-> <<speaker>>, speaker |-> After(speaker)]
    BY <1>4 DEF RobinStands, Selections
  <2> QED BY <1>1, <2>1, RosterSpeaks
<1>5. CASE style = "parallel"
  <2>1. PICK s \in UNION {SetToSeqs(S) : S \in SUBSET Members \ {{}}} : pick = [chosen |-> s, speaker |-> speaker]
    BY <1>5 DEF Selections
  <2>2. PICK S \in SUBSET Members : s \in SetToSeqs(S)
    BY <2>1
  <2>3. s \in [1..Cardinality(S) -> S] /\ IsInjective(s)
    BY <2>2 DEF SetToSeqs, IsInjective
  <2>4. Cardinality(S) \in Nat
    BY <2>2, RosterFinite, FS_Subset, FS_CardinalityType
  <2>5. s \in Seq(Members)
    BY <2>2, <2>3, <2>4
  <2> QED BY <1>5, <2>1, <2>3, <2>5
<1>6. CASE style \in {"swarm", "selector", "function", "candidates"}
  <2>1. \E p \in Members : pick.chosen = <<p>>
    <3>1. CASE style = "swarm"
      BY <3>1 DEF Selections, Chosen
    <3>2. CASE style = "selector"
      BY <1>3, <3>2 DEF Selections, Chosen
    <3>3. CASE style = "function"
      BY <1>3, <3>3 DEF Selections, Chosen
    <3>4. CASE style = "candidates"
      BY <1>3, <3>4 DEF Selections, Chosen
    <3> QED BY <1>6, <3>1, <3>2, <3>3, <3>4
  <2> QED BY <1>1, <1>6, <2>1
<1> QED BY <1>2, <1>4, <1>5, <1>6

\* the relay of a task is neither request nor response
LEMMA RelayIsNeither ==
  ASSUME bus \in Seq(Mail), bus' = bus \/ bus' = Append(bus, Envelope("relay", User))
  PROVE  /\ bus' \in Seq(Mail)
         /\ \A p \in Members : /\ Pending(bus', "request", p) = Pending(bus, "request", p)
                               /\ Pending(bus', "response", p) = Pending(bus, "response", p)
<1> DEFINE e == Envelope("relay", User)
<1>1. e \in Mail /\ e.kind = "relay"
  BY DEF Envelope, Passing, Mail
<1>2. bus' = bus \/ bus' = Append(bus, e)
  OBVIOUS
<1> HIDE DEF e
<1>3. bus' \in Seq(Mail)
  BY <1>1, <1>2, BusAppend
<1>4. ASSUME NEW p \in Members
      PROVE  /\ Pending(bus', "request", p) = Pending(bus, "request", p)
             /\ Pending(bus', "response", p) = Pending(bus, "response", p)
  <2>1. ~IsHit(e, "request", p) /\ ~IsHit(e, "response", p)
    BY <1>1 DEF IsHit
  <2>2. CASE bus' = bus
    BY <2>2
  <2>3. CASE bus' = Append(bus, e)
    <3>1. /\ Pending(bus, "request", p) \in Nat /\ Pending(bus, "response", p) \in Nat
          /\ Pending(bus', "request", p) = Pending(bus, "request", p) + IF IsHit(e, "request", p) THEN 1 ELSE 0
          /\ Pending(bus', "response", p) = Pending(bus, "response", p) + IF IsHit(e, "response", p) THEN 1 ELSE 0
      BY <1>1, <2>3, BusAppend
    <3> QED BY ONLY <2>1, <3>1
  <2> QED BY <1>2, <2>2, <2>3
<1> QED BY <1>3, <1>4

\* The handlers of the manager that leave the list of active speakers alone:
\* none of them holds a response whose removal is still to come.
LEMMA HandlerEnds ==
  ASSUME ActiveInv, inbox[Manager] # <<>>, Finished(Manager), ~selecting',
         UNCHANGED <<work, active, speaker, style, saved>>,
         bus' = bus \/ bus' = Append(bus, Envelope("relay", User))
  PROVE  ActiveInv'
<1>1. RobinStands' /\ bus \in Seq(Mail) /\ active \in [Members -> Nat]
  BY DEF ActiveInv, RobinStands, Shapes
<1>2. bus' \in Seq(Mail)
  BY <1>1, RelayIsNeither
<1>3. ASSUME NEW p \in Members
      PROVE Pending(bus', "request", p) + Pending(bus', "response", p) + active[p] <=
                Pending(bus, "request", p) + Pending(bus, "response", p) + active'[p]
                + IF ~selecting /\ IsHit(Head(inbox[Manager]), "response", p) THEN 1 ELSE 0
  <2>1. /\ Pending(bus, "request", p) \in Nat /\ Pending(bus, "response", p) \in Nat
        /\ active[p] \in Nat /\ active'[p] = active[p]
    BY <1>1, HitsFinite
  <2>2. /\ Pending(bus', "request", p) = Pending(bus, "request", p)
        /\ Pending(bus', "response", p) = Pending(bus, "response", p)
    BY <1>1, RelayIsNeither
  <2> QED BY ONLY <2>1, <2>2
<1> QED BY <1>1, <1>2, <1>3, ManagerEnds

\* handle_start
LEMMA StartActive ==
  ASSUME ActiveInv, StartRefused \/ StartInvalid \/ HandleResume \/ \E o \in Conditions : HandleStart(o)
  PROVE  ActiveInv'
<1> USE DEF managerVars, memberVars, callerVars, recordVars
<1>1. inbox[Manager] # <<>> /\ Head(inbox[Manager]).kind = "start"
  BY DEF StartRefused, StartInvalid, HandleResume, HandleStart, Handling
<1>2. UNCHANGED <<work, active, speaker, style, saved>>
  BY DEF StartRefused, StartInvalid, HandleResume, HandleStart
<1>3. bus' = bus \/ bus' = Append(bus, Envelope("relay", User))
  BY DEF StartRefused, StartInvalid, HandleResume, HandleStart
<1>4. ~selecting
  BY <1>1 DEF StartRefused, StartInvalid, HandleResume, HandleStart, ActiveInv, SelectingHolds
<1>5. \/ Finished(Manager) /\ ~selecting'
      \/ UNCHANGED inbox /\ selecting' /\ ~terminated'
  <2>1. CASE StartRefused \/ StartInvalid \/ HandleResume
    BY <1>4, <2>1 DEF StartRefused, StartInvalid, HandleResume, StartFails
  <2>2. CASE \E o \in Conditions : HandleStart(o)
    BY <1>4, <2>2 DEF HandleStart, StartFails, Terminate, Raise, Continue
  <2> QED BY <2>1, <2>2
<1>6. CASE Finished(Manager) /\ ~selecting'
  BY <1>1, <1>2, <1>3, <1>6, HandlerEnds
<1>7. CASE UNCHANGED inbox /\ selecting' /\ ~terminated'
  <2>1. RobinStands' /\ bus \in Seq(Mail) /\ active' \in [Members -> Nat]
    BY <1>2 DEF ActiveInv, RobinStands, Shapes
  <2>2. ASSUME NEW p \in Members
        PROVE  Pending(bus', "request", p) + Pending(bus', "response", p) + active[p] <=
                Pending(bus, "request", p) + Pending(bus, "response", p) + active'[p]
                + IF IsHit(Head(inbox[Manager]), "response", p) THEN 1 ELSE 0
    <3>1. /\ Pending(bus, "request", p) \in Nat /\ Pending(bus, "response", p) \in Nat
          /\ active[p] \in Nat /\ active'[p] = active[p]
      BY <1>2, <2>1, HitsFinite
    <3>2. /\ Pending(bus', "request", p) = Pending(bus, "request", p)
          /\ Pending(bus', "response", p) = Pending(bus, "response", p)
      BY <1>3, <2>1, RelayIsNeither
    <3> QED BY ONLY <3>1, <3>2
  <2> QED BY <1>1, <1>2, <1>4, <1>7, <2>1, <2>2, ManagerSelects, RelayIsNeither, <1>3
<1> QED BY <1>5, <1>6, <1>7

\* handle_agent_response: what it removes from the list is what it holds
LEMMA ResponseActive == ASSUME ActiveInv, NEW o, HandleResponse(o) PROVE ActiveInv'
<1> USE Team DEF managerVars, memberVars, callerVars, recordVars
<1> DEFINE m == Head(inbox[Manager])
<1>1. /\ inbox[Manager] # <<>> /\ m.kind = "response" /\ ~selecting
      /\ active[m.who] > 0 /\ active' = [active EXCEPT ![m.who] = @ - 1]
      /\ UNCHANGED <<bus, speaker, work, style, saved>>
  BY DEF HandleResponse, Handling
<1>2. \/ Finished(Manager) /\ ~selecting'
      \/ UNCHANGED inbox /\ selecting'
  BY <1>1 DEF HandleResponse, ResponseFails, ResponseCutOff, Terminate, Raise, Continue
<1>3. inbox[Manager] \in Seq(Mail) /\ bus \in Seq(Mail) /\ active \in [Members -> Nat]
  BY DEF ActiveInv, Shapes
<1>4. m.who \in Members
  <2>1. m \in Mail
    BY <1>1, <1>3
  <2> QED BY <1>1, <2>1, MailKinds
<1>5. RobinStands' /\ bus' \in Seq(Mail)
  BY <1>1, <1>3 DEF ActiveInv, RobinStands
<1> HIDE DEF m
<1>6. active' \in [Members -> Nat]
  <2>1. active[m.who] - 1 \in Nat
    BY <1>1, <1>3, <1>4
  <2> QED BY <1>1, <1>3, <2>1
<1>7. ASSUME NEW p \in Members
      PROVE  Pending(bus', "request", p) + Pending(bus', "response", p) + active[p] <=
                Pending(bus, "request", p) + Pending(bus, "response", p) + active'[p]
                + IF IsHit(m, "response", p) THEN 1 ELSE 0
  <2>1. /\ Pending(bus, "request", p) \in Nat /\ Pending(bus, "response", p) \in Nat
        /\ active[p] \in Nat /\ active'[p] \in Nat
    BY <1>3, <1>6, HitsFinite
  <2>2. /\ Pending(bus', "request", p) = Pending(bus, "request", p)
        /\ Pending(bus', "response", p) = Pending(bus, "response", p)
    BY <1>1
  <2>3. IsHit(m, "response", p) <=> m.who = p
    BY <1>1 DEF IsHit
  <2>4. active'[p] = IF m.who = p THEN active[p] - 1 ELSE active[p]
    BY <1>1, <1>3
  <2> QED BY ONLY <2>1, <2>2, <2>3, <2>4
<1>8. CASE Finished(Manager) /\ ~selecting'
  BY <1>1, <1>5, <1>6, <1>7, <1>8, ManagerEnds DEF m
<1>9. CASE UNCHANGED inbox /\ selecting'
  BY <1>1, <1>5, <1>6, <1>7, <1>9, ManagerSelects DEF m
<1> QED BY <1>2, <1>8, <1>9

\* _transition_to_next_speakers: what it adds to the list is what it requests
LEMMA SelectActive ==
  ASSUME ActiveInv, NEW pick \in Selections, SelectSpeakers(pick)
  PROVE  ActiveInv'
<1> USE Team DEF managerVars, memberVars, callerVars
<1> DEFINE more(p) == IF p \in ToSet(pick.chosen) THEN 1 ELSE 0
<1>1. /\ selecting /\ ~selecting' /\ Finished(Manager) /\ speaker' = pick.speaker
      /\ bus' = bus \o Requests(pick.chosen)
      /\ active' = [p \in Members |-> active[p] + more(p)]
      /\ UNCHANGED <<work, style, saved>>
  BY DEF SelectSpeakers, Requests
<1>2. bus \in Seq(Mail) /\ active \in [Members -> Nat] /\ RobinStands /\ inbox[Manager] # <<>>
  BY <1>1 DEF ActiveInv, Shapes, SelectingHolds
<1>3. /\ pick.chosen \in Seq(Members) /\ IsInjective(pick.chosen)
      /\ style = "round_robin" => pick.speaker \in Members
  BY <1>2, Chooses
<1>4. RobinStands'
  BY <1>1, <1>2, <1>3 DEF RobinStands
<1>5. ASSUME NEW p \in Members
      PROVE  /\ bus' \in Seq(Mail)
             /\ Pending(bus', "request", p) = Pending(bus, "request", p) + more(p)
             /\ Pending(bus', "response", p) = Pending(bus, "response", p)
  <2> DEFINE s == pick.chosen
             r == bus'
  <2>1. s \in Seq(Members) /\ IsInjective(s) /\ r = bus \o Requests(s)
    BY <1>1, <1>3
  <2>2. more(p) = IF p \in ToSet(s) THEN 1 ELSE 0
    OBVIOUS
  <2> HIDE DEF s, r, more
  <2>3. /\ r \in Seq(Mail)
        /\ Pending(r, "request", p) = Pending(bus, "request", p) + IF p \in ToSet(s) THEN 1 ELSE 0
        /\ Pending(r, "response", p) = Pending(bus, "response", p)
    BY ONLY <1>2, <2>1, PendingRequests
  <2> QED BY <2>2, <2>3 DEF r
<1>6. \A p \in Members : more(p) \in Nat
  OBVIOUS
<1> HIDE DEF more
<1>7. active' \in [Members -> Nat] /\ \A p \in Members : active'[p] = active[p] + more(p)
  BY <1>1, <1>2, <1>6
<1>8. bus' \in Seq(Mail)
  <2>1. Roster[1] \in Members
    BY TeamAssumption
  <2> QED BY <1>5, <2>1
<1>9. ASSUME NEW p \in Members
      PROVE  Pending(bus', "request", p) + Pending(bus', "response", p) + active[p] <=
                Pending(bus, "request", p) + Pending(bus, "response", p) + active'[p]
                + IF ~selecting /\ IsHit(Head(inbox[Manager]), "response", p) THEN 1 ELSE 0
  <2>1. /\ Pending(bus, "request", p) \in Nat /\ Pending(bus, "response", p) \in Nat
        /\ active[p] \in Nat /\ more(p) \in Nat /\ active'[p] = active[p] + more(p)
    BY <1>2, <1>6, <1>7, HitsFinite
  <2> QED BY ONLY <1>5, <2>1, <1>1, p \in Members
<1> QED BY <1>1, <1>2, <1>4, <1>7, <1>8, <1>9, ManagerEnds

LEMMA ManagerActive == ASSUME ActiveInv, ManagerStep PROVE ActiveInv'
<1> USE DEF managerVars, memberVars, callerVars, recordVars
<1>1. CASE StartRefused \/ StartInvalid \/ HandleResume \/ \E o \in Conditions : HandleStart(o)
  BY <1>1, StartActive
<1>2. CASE \E o \in Conditions : HandleResponse(o)
  BY <1>2, ResponseActive
<1>3. CASE \E pick \in Selections : SelectSpeakers(pick)
  BY <1>3, SelectActive
<1>4. CASE HandleLog \/ SelectionFails \/ SelectionCancelled
  <2>1. /\ Finished(Manager) /\ UNCHANGED <<bus, work, active, speaker, style, saved>>
        /\ selecting \/ (Head(inbox[Manager]).kind = "log" /\ inbox[Manager] # <<>>)
    BY <1>4 DEF HandleLog, SelectionFails, SelectionCancelled, Handling, StartFails, ResponseFails, ResponseCutOff
  <2>2. SelectingHolds
    BY DEF ActiveInv
  <2>3. inbox[Manager] # <<>>
    BY <2>1, <2>2 DEF SelectingHolds
  <2>4. ~selecting'
    BY <1>4, <2>2 DEF HandleLog, SelectionFails, SelectionCancelled, Handling, SelectingHolds
  <2> QED BY <2>1, <2>3, <2>4, HandlerEnds
<1> QED BY <1>1, <1>2, <1>3, <1>4 DEF ManagerStep
-----------------------------------------------------------------------------
LEMMA ActiveInit == Init => ActiveInv
<1> SUFFICES ASSUME Init PROVE ActiveInv
  OBVIOUS
<1> USE Team DEF Init
<1>1. Shapes
  <2>1. <<>> \in Seq(Mail)
    OBVIOUS
  <2>2. active \in [Members -> Nat]
    BY DEF Nobody
  <2> QED BY <2>1, <2>2 DEF Shapes
<1>2. Roster[1] \in Members
  BY TeamAssumption
<1>3. RobinStands
  BY <1>2 DEF RobinStands, FirstSpeaker, IsSelector
<1>4. RequestsAreOwn /\ WorkIsAsked /\ SelectingHolds
  BY DEF RequestsAreOwn, WorkIsAsked, SelectingHolds
<1>5. ASSUME NEW p \in Members PROVE Outstanding(p) <= active[p]
  <2>1. bus = <<>> /\ inbox[p] = <<>> /\ Answered = <<>> /\ active[p] = 0
    BY DEF Answered, Nobody
  <2>2. Outstanding(p) = Pending(bus, "request", p) + Pending(inbox[p], "request", p)
                        + Pending(bus, "response", p) + Pending(Answered, "response", p)
    BY DEF Outstanding, Answered
  <2>3. /\ Pending(bus, "request", p) = 0 /\ Pending(inbox[p], "request", p) = 0
        /\ Pending(bus, "response", p) = 0 /\ Pending(Answered, "response", p) = 0
    BY <2>1, PendingEmpty
  <2> QED BY ONLY <2>1, <2>2, <2>3
<1>6. RespondersAreActive
  BY <1>5 DEF RespondersAreActive
<1> QED BY <1>1, <1>3, <1>4, <1>6 DEF ActiveInv

LEMMA ActiveNext == ActiveInv /\ [Next]_vars => ActiveInv'
<1> SUFFICES ASSUME ActiveInv, [Next]_vars PROVE ActiveInv'
  OBVIOUS
<1>1. CASE RuntimeStep
  BY <1>1, RuntimeActive
<1>2. CASE ManagerStep
  BY <1>2, ManagerActive
<1>3. CASE \E p \in Members : MemberStep(p)
  BY <1>3, MemberActive
<1>4. CASE \E task \in Tasks : RunStream(task)
  BY <1>4, RunStreamActive
<1>5. CASE CallerStep \/ Cancel \/ RunStreamDoomed \/ Reset \/ SaveState \/ LoadState \/ UNCHANGED vars
  BY <1>5, CallerActive
<1> QED BY <1>1, <1>2, <1>3, <1>4, <1>5 DEF Next

(* Whatever the style of the team, its faults and its cancellations, and   *)
(* across runs, resets and loaded states: no response reaches the manager  *)
(* of a participant that _active_speakers does not hold, so that           *)
(* handle_agent_response never raises out of list.remove.                  *)
THEOREM RespondersAreExpected == Spec => []RespondersAreActive
<1>1. ActiveInv => RespondersAreActive
  BY DEF ActiveInv
<1> QED BY <1>1, ActiveInit, ActiveNext, PTL DEF Spec

-----------------------------------------------------------------------------
(* The recursive filter NotBy, by the least counterexample. *)

(* A property of the naturals that fails somewhere fails at a least place. *)
LEMMA LeastIndex ==
  ASSUME NEW S \in SUBSET Nat, S # {}
  PROVE  \E x \in S : \A y \in S : x <= y
<1> DEFINE R == {ss \in Nat \X Nat : ss[1] < ss[2]}
<1>1. IsWellFoundedOn(R, Nat)
  BY NatLessThanWellFounded DEF OpToRel
<1>2. \A x, y \in Nat : <<y, x>> \notin R => x <= y
  OBVIOUS
<1> HIDE DEF R
<1>3. \E x \in S : \A y \in S : ~ (<<y, x>> \in R)
  BY <1>1, WFMin
<1> QED BY <1>2, <1>3

\* what NotBy does with one more message
Step(p, r, x) == IF x = p THEN r ELSE Append(r, x)

\* the equation that defines NotBy, on the first n messages
Keeps(g, p, s, n) == g = [i \in 0..n |-> IF i = 0 THEN <<>> ELSE Step(p, g[i - 1], s[i])]

\* the equation, place by place
LEMMA KeepsUnfold ==
  ASSUME NEW n \in Nat, NEW g, NEW p, NEW s, Keeps(g, p, s, n)
  PROVE  /\ g[0] = <<>>
         /\ \A i \in 1..n : g[i] = Step(p, g[i - 1], s[i])
<1>1. g = [i \in 0..n |-> IF i = 0 THEN <<>> ELSE Step(p, g[i - 1], s[i])]
  BY DEF Keeps
<1>2. \A i \in 0..n : g[i] = IF i = 0 THEN <<>> ELSE Step(p, g[i - 1], s[i])
  BY <1>1
<1>3. 0 \in 0..n /\ \A i \in 1..n : i \in 0..n /\ i # 0
  OBVIOUS
<1> QED BY <1>2, <1>3

\* the equation has a solution at every length: a least length without one
\* would extend the solution at the length before it
LEMMA KeepsExists ==
  ASSUME NEW p, NEW s, NEW n \in Nat
  PROVE  \E g : Keeps(g, p, s, n)
<1> DEFINE Bad == {k \in Nat : ~ \E g : Keeps(g, p, s, k)}
<1> SUFFICES Bad = {}
  OBVIOUS
<1> SUFFICES ASSUME Bad # {} PROVE FALSE
  OBVIOUS
<1>1. PICK k \in Bad : \A j \in Bad : k <= j
  BY LeastIndex
<1>2. CASE k = 0
  <2> DEFINE g == [i \in 0..0 |-> <<>>]
  <2>1. Keeps(g, p, s, 0)
    BY DEF Keeps
  <2> QED BY <1>1, <1>2, <2>1
<1>3. CASE k # 0
  <2>1. k - 1 \in Nat /\ k \in Nat /\ ~(k <= k - 1)
    BY <1>1, <1>3
  <2>2. k - 1 \notin Bad
    BY <1>1, <2>1
  <2>3. PICK g : Keeps(g, p, s, k - 1)
    BY <2>1, <2>2
  <2> DEFINE h == [i \in 0..k |-> IF i = k THEN Step(p, g[k - 1], s[k]) ELSE g[i]]
  <2>4. g[0] = <<>> /\ \A i \in 1..(k - 1) : g[i] = Step(p, g[i - 1], s[i])
    BY <2>1, <2>3, KeepsUnfold
  <2>5. \A i \in 0..k : h[i] = IF i = 0 THEN <<>> ELSE Step(p, h[i - 1], s[i])
    <3> TAKE i \in 0..k
    <3>1. CASE i = 0
      BY <1>3, <2>1, <2>4, <3>1
    <3>2. CASE i = k
      <4>1. h[k] = Step(p, g[k - 1], s[k]) /\ h[k - 1] = g[k - 1]
        BY <2>1
      <4> HIDE DEF h
      <4> QED BY <1>3, <3>2, <4>1
    <3>3. CASE i # 0 /\ i # k
      <4>1. i \in 1..(k - 1) /\ i - 1 \in 0..k /\ i - 1 # k /\ i \in 0..k
        BY <2>1, <3>3
      <4>2. h[i] = g[i] /\ h[i - 1] = g[i - 1]
        BY <3>3, <4>1
      <4> HIDE DEF h
      <4> QED BY <2>4, <3>3, <4>1, <4>2
    <3> QED BY <3>1, <3>2, <3>3
  <2>6. Keeps(h, p, s, k)
    <3>1. h = [i \in 0..k |-> h[i]]
      OBVIOUS
    <3> HIDE DEF h
    <3>2. [i \in 0..k |-> h[i]] = [i \in 0..k |-> IF i = 0 THEN <<>> ELSE Step(p, h[i - 1], s[i])]
      BY <2>5
    <3> QED BY <3>1, <3>2 DEF Keeps
  <2> QED BY <1>1, <2>6
<1> QED BY <1>2, <1>3

\* and only one: two solutions agree on what they both cover
LEMMA KeepsUnique ==
  ASSUME NEW p, NEW s, NEW t, NEW m \in Nat, NEW n \in Nat, m <= n,
         \A i \in 1..m : s[i] = t[i],
         NEW g, Keeps(g, p, s, m), NEW h, Keeps(h, p, t, n)
  PROVE  g[m] = h[m]
<1> DEFINE Bad == {k \in 0..m : g[k] # h[k]}
<1>1. /\ g[0] = <<>> /\ h[0] = <<>>
      /\ \A i \in 1..m : g[i] = Step(p, g[i - 1], s[i])
      /\ \A i \in 1..n : h[i] = Step(p, h[i - 1], t[i])
  BY KeepsUnfold
<1>2. CASE Bad # {}
  <2>1. Bad \in SUBSET Nat
    OBVIOUS
  <2>2. PICK k \in Bad : \A j \in Bad : k <= j
    BY <1>2, <2>1, LeastIndex
  <2>3. k # 0 /\ k \in Nat /\ k \in 1..m /\ k \in 1..n /\ k - 1 \in 0..m /\ ~(k <= k - 1)
    BY <1>1, <2>2
  <2>4. g[k - 1] = h[k - 1]
    BY <2>2, <2>3
  <2>5. g[k] = h[k]
    BY <1>1, <2>3, <2>4
  <2> QED BY <2>2, <2>5
<1>3. CASE Bad = {}
  BY <1>3
<1> QED BY <1>2, <1>3

\* NotBy is the solution at the length of the list
LEMMA NotByKeeps ==
  ASSUME NEW S, NEW s \in Seq(S), NEW p
  PROVE  \E g : Keeps(g, p, s, Len(s)) /\ NotBy(p, s) = g[Len(s)]
<1> DEFINE g == CHOOSE g : g = [i \in 0..Len(s) |->
                IF i = 0 THEN <<>> ELSE IF s[i] = p THEN g[i - 1] ELSE Append(g[i - 1], s[i])]
<1>1. NotBy(p, s) = g[Len(s)]
  BY DEF NotBy
<1>2. \E h : Keeps(h, p, s, Len(s))
  <2>1. Len(s) \in Nat
    OBVIOUS
  <2> QED BY <2>1, KeepsExists
<1>3. \E h : h = [i \in 0..Len(s) |-> IF i = 0 THEN <<>> ELSE IF s[i] = p THEN h[i - 1] ELSE Append(h[i - 1], s[i])]
  BY <1>2 DEF Keeps, Step
<1>4. g = [i \in 0..Len(s) |-> IF i = 0 THEN <<>> ELSE IF s[i] = p THEN g[i - 1] ELSE Append(g[i - 1], s[i])]
  BY <1>3
<1> HIDE DEF g
<1>5. Keeps(g, p, s, Len(s))
  BY <1>4 DEF Keeps, Step
<1> QED BY <1>1, <1>5

\* NotBy of nothing, and of one message more
LEMMA NotByEmpty == \A p : NotBy(p, <<>>) = <<>>
<1> TAKE p
<1>1. <<>> \in Seq({}) /\ Len(<<>>) = 0
  OBVIOUS
<1>2. PICK g : Keeps(g, p, <<>>, 0) /\ NotBy(p, <<>>) = g[0]
  BY <1>1, NotByKeeps
<1>3. g[0] = <<>>
  BY <1>2, KeepsUnfold
<1> QED BY <1>2, <1>3

LEMMA NotByAppend ==
  ASSUME NEW S, NEW s \in Seq(S), NEW x \in S, NEW p
  PROVE  NotBy(p, Append(s, x)) = IF x = p THEN NotBy(p, s) ELSE Append(NotBy(p, s), x)
<1> DEFINE t == Append(s, x)
           n == Len(s)
<1>1. /\ t \in Seq(S) /\ n \in Nat /\ Len(t) = n + 1 /\ t[n + 1] = x
      /\ \A i \in 1..n : s[i] = t[i]
  OBVIOUS
<1>2. PICK g : Keeps(g, p, s, n) /\ NotBy(p, s) = g[n]
  BY NotByKeeps
<1> HIDE DEF t, n
<1>3. PICK h : Keeps(h, p, t, n + 1) /\ NotBy(p, t) = h[n + 1]
  BY <1>1, NotByKeeps
<1>4. n <= n + 1 /\ n + 1 \in Nat /\ n + 1 \in 1..(n + 1) /\ (n + 1) - 1 = n
  BY <1>1
<1>5. g[n] = h[n]
  BY <1>1, <1>2, <1>3, <1>4, KeepsUnique
<1>6. h[n + 1] = Step(p, h[n], t[n + 1])
  BY <1>3, <1>4, KeepsUnfold
<1> QED BY <1>1, <1>2, <1>3, <1>5, <1>6 DEF Step, t

\* NotBy leaves nothing of p
LEMMA NotByType ==
  ASSUME NEW S, NEW p
  PROVE  \A s \in Seq(S) : NotBy(p, s) \in Seq(S \ {p})
<1> DEFINE Bad == {n \in Nat : \E s \in Seq(S) : Len(s) = n /\ NotBy(p, s) \notin Seq(S \ {p})}
<1>1. \A s \in Seq(S) : NotBy(p, s) \notin Seq(S \ {p}) => Len(s) \in Bad
  OBVIOUS
<1>2. CASE Bad = {}
  BY <1>1, <1>2
<1>3. CASE Bad # {}
  <2>1. Bad \in SUBSET Nat
    OBVIOUS
  <2>2. PICK n \in Bad : \A m \in Bad : n <= m
    BY <1>3, <2>1, LeastIndex
  <2>3. PICK s \in Seq(S) : Len(s) = n /\ NotBy(p, s) \notin Seq(S \ {p})
    BY <2>2
  <2>4. s # <<>>
    BY <2>3, NotByEmpty
  <2>5. PICK t \in Seq(S), x \in S : s = Append(t, x)
    BY <2>3, <2>4, SequenceEmptyOrAppend
  <2>6. Len(t) \in Nat /\ n = Len(t) + 1
    BY <2>3, <2>5
  <2>7. NotBy(p, t) \in Seq(S \ {p})
    <3>1. Len(t) \notin Bad
      BY <2>2, <2>6
    <3> QED BY <1>1, <3>1, <2>5
  <2>8. NotBy(p, s) = IF x = p THEN NotBy(p, t) ELSE Append(NotBy(p, t), x)
    BY <2>5, NotByAppend
  <2> QED BY <2>3, <2>5, <2>7, <2>8
<1> QED BY <1>2, <1>3

LEMMA NotByIsSeq ==
  ASSUME NEW S, NEW p, NEW s \in Seq(S)
  PROVE  NotBy(p, s) \in Seq(S)
<1>1. NotBy(p, s) \in Seq(S \ {p})
  BY NotByType
<1>2. S \ {p} \subseteq S
  OBVIOUS
<1> QED BY <1>1, <1>2, SeqMonotonic

\* one more message on the right of two lists
LEMMA ConcatAppend ==
  ASSUME NEW S, NEW s \in Seq(S), NEW t \in Seq(S), NEW x \in S
  PROVE  s \o Append(t, x) = Append(s \o t, x)
<1>1. Append(t, x) = t \o <<x>> /\ <<x>> \in Seq(S)
  BY AppendIsConcat
<1>2. s \o t \in Seq(S)
  BY ConcatProperties
<1>3. Append(s \o t, x) = (s \o t) \o <<x>>
  BY <1>2, AppendIsConcat
<1>4. (s \o t) \o <<x>> = s \o (t \o <<x>>)
  BY <1>1, ConcatAssociative
<1> QED BY <1>1, <1>3, <1>4

\* NotBy of two lists, one after the other
LEMMA NotByConcat ==
  ASSUME NEW S, NEW p, NEW s \in Seq(S)
  PROVE  \A t \in Seq(S) : NotBy(p, s \o t) = NotBy(p, s) \o NotBy(p, t)
<1> DEFINE Fits(t) == NotBy(p, s \o t) = NotBy(p, s) \o NotBy(p, t)
           Bad == {n \in Nat : \E t \in Seq(S) : Len(t) = n /\ ~Fits(t)}
<1>1. \A t \in Seq(S) : ~Fits(t) => Len(t) \in Bad
  OBVIOUS
<1>2. NotBy(p, s) \in Seq(S)
  BY NotByIsSeq
<1>3. Fits(<<>>)
  BY <1>2, NotByEmpty, ConcatEmptySeq
<1>4. CASE Bad = {}
  BY <1>1, <1>4
<1>5. CASE Bad # {}
  <2>1. Bad \in SUBSET Nat
    OBVIOUS
  <2>2. PICK n \in Bad : \A m \in Bad : n <= m
    BY <1>5, <2>1, LeastIndex
  <2>3. PICK t \in Seq(S) : Len(t) = n /\ ~Fits(t)
    BY <2>2
  <2>4. t # <<>>
    BY <1>3, <2>3
  <2>5. PICK u \in Seq(S), x \in S : t = Append(u, x)
    BY <2>3, <2>4, SequenceEmptyOrAppend
  <2>6. Len(u) \in Nat /\ n = Len(u) + 1
    BY <2>3, <2>5
  <2>7. Fits(u)
    <3>1. Len(u) \notin Bad
      <4> HIDE DEF Bad
      <4> QED BY <2>2, <2>6
    <3> QED BY <1>1, <3>1, <2>5
  <2>8. s \o t = Append(s \o u, x) /\ s \o u \in Seq(S)
    BY <2>5, ConcatAppend, ConcatProperties
  <2>9. /\ NotBy(p, s \o t) = IF x = p THEN NotBy(p, s \o u) ELSE Append(NotBy(p, s \o u), x)
        /\ NotBy(p, t) = IF x = p THEN NotBy(p, u) ELSE Append(NotBy(p, u), x)
    <3>1. NotBy(p, Append(s \o u, x)) = IF x = p THEN NotBy(p, s \o u) ELSE Append(NotBy(p, s \o u), x)
      BY ONLY <2>8, NotByAppend, x \in S
    <3>2. NotBy(p, Append(u, x)) = IF x = p THEN NotBy(p, u) ELSE Append(NotBy(p, u), x)
      BY ONLY NotByAppend, u \in Seq(S), x \in S
    <3> QED BY ONLY <2>5, <2>8, <3>1, <3>2
  <2>10. NotBy(p, u) \in Seq(S)
    BY <2>5, NotByIsSeq
  <2>11. NotBy(p, s) \o Append(NotBy(p, u), x) = Append(NotBy(p, s) \o NotBy(p, u), x)
    BY <1>2, <2>5, <2>10, ConcatAppend
  <2> QED BY <2>3, <2>7, <2>9, <2>11
<1> QED BY <1>4, <1>5

-----------------------------------------------------------------------------
(* What a queue says, message by message. *)

\* whose messages a thread and a buffer may hold
Speakers == Members \cup {User, Manager}

\* the sources of the messages of some kinds in a queue, but for p's own
Says(q, kinds, p) == [i \in DOMAIN q |-> IF q[i].kind \in kinds THEN q[i].who ELSE p]
Words(q, kinds, p) == NotBy(p, Says(q, kinds, p))
Word(e, kinds, p) == IF e.kind \in kinds /\ e.who # p THEN <<e.who>> ELSE <<>>

\* what Says, Words and Word return
LEMMA SaysType ==
  ASSUME NEW q \in Seq(Mail), NEW kinds, NEW p \in Members \cup {Manager}
  PROVE  /\ Says(q, kinds, p) \in Seq(Speakers) /\ Len(Says(q, kinds, p)) = Len(q)
         /\ \A i \in DOMAIN q : Says(q, kinds, p)[i] = IF q[i].kind \in kinds THEN q[i].who ELSE p
<1>1. Len(q) \in Nat /\ DOMAIN q = 1..Len(q) /\ \A i \in 1..Len(q) : q[i] \in Mail
  OBVIOUS
<1>2. \A e \in Mail : e.who \in Speakers
  BY DEF Mail, Speakers
<1>3. p \in Speakers
  BY DEF Speakers
<1> QED BY <1>1, <1>2, <1>3 DEF Says

LEMMA WordsType ==
  ASSUME NEW q \in Seq(Mail), NEW kinds, NEW p \in Members \cup {Manager}
  PROVE  Words(q, kinds, p) \in Seq(Speakers)
BY SaysType, NotByIsSeq DEF Words

LEMMA WordType ==
  ASSUME NEW e \in Mail, NEW kinds, NEW p \in Members \cup {Manager}
  PROVE  Word(e, kinds, p) \in Seq(Speakers)
<1>1. e.who \in Speakers
  BY DEF Mail, Speakers
<1> QED BY <1>1 DEF Word

\* Words of nothing, of a list of two parts, of one message, of a message
\* published last and of one taken from the head
LEMMA WordsEmpty == \A kinds, p : Words(<<>>, kinds, p) = <<>>
<1> TAKE kinds, p
<1>1. Says(<<>>, kinds, p) = <<>>
  BY DEF Says
<1> QED BY <1>1, NotByEmpty DEF Words

\* NotBy of one message
LEMMA NotByOne ==
  ASSUME NEW S, NEW x \in S, NEW p
  PROVE  NotBy(p, <<x>>) = IF x = p THEN <<>> ELSE <<x>>
<1>1. <<x>> = Append(<<>>, x) /\ <<>> \in Seq(S)
  OBVIOUS
<1>2. NotBy(p, Append(<<>>, x)) = IF x = p THEN NotBy(p, <<>>) ELSE Append(NotBy(p, <<>>), x)
  BY <1>1, NotByAppend
<1> QED BY <1>1, <1>2, NotByEmpty

LEMMA WordsConcat ==
  ASSUME NEW kinds, NEW p \in Members \cup {Manager}
  PROVE  \A q, t \in Seq(Mail) : Words(q \o t, kinds, p) = Words(q, kinds, p) \o Words(t, kinds, p)
<1> TAKE q, t \in Seq(Mail)
<1> DEFINE r == q \o t
           a == Says(q, kinds, p)
           b == Says(t, kinds, p)
           c == Says(r, kinds, p)
           m == Len(q)
           n == Len(t)
           Source(e) == IF e.kind \in kinds THEN e.who ELSE p
<1>1. r \in Seq(Mail) /\ Len(r) = m + n /\ m \in Nat /\ n \in Nat
  OBVIOUS
<1>2. \A i \in 1..(m + n) : r[i] = IF i <= m THEN q[i] ELSE t[i - m]
  BY ConcatProperties
<1> HIDE DEF r
<1>3. /\ a \in Seq(Speakers) /\ Len(a) = m /\ \A i \in 1..m : a[i] = Source(q[i])
      /\ b \in Seq(Speakers) /\ Len(b) = n /\ \A i \in 1..n : b[i] = Source(t[i])
  BY SaysType
<1>4. c \in Seq(Speakers) /\ Len(c) = m + n /\ \A i \in 1..(m + n) : c[i] = Source(r[i])
  BY <1>1, SaysType
<1> HIDE DEF a, b, c, m, n, Source
<1>5. a \o b \in Seq(Speakers) /\ Len(a \o b) = m + n
      /\ \A i \in 1..(m + n) : (a \o b)[i] = IF i <= m THEN a[i] ELSE b[i - m]
  BY <1>3, ConcatProperties
<1>6. ASSUME NEW i \in 1..(m + n) PROVE c[i] = (a \o b)[i]
  <2>1. i <= m => i \in 1..m
    BY <1>1
  <2>2. ~(i <= m) => i - m \in 1..n
    BY <1>1
  <2>3. CASE i <= m
    <3>1. c[i] = Source(q[i]) /\ a[i] = Source(q[i]) /\ (a \o b)[i] = a[i]
      BY <1>2, <1>3, <1>4, <1>5, <2>1, <2>3
    <3> QED BY <3>1
  <2>4. CASE ~(i <= m)
    <3>1. c[i] = Source(t[i - m]) /\ b[i - m] = Source(t[i - m]) /\ (a \o b)[i] = b[i - m]
      BY <1>2, <1>3, <1>4, <1>5, <2>2, <2>4
    <3> QED BY <3>1
  <2> QED BY <2>3, <2>4
<1>7. c = a \o b
  <2> DEFINE d == a \o b
  <2>1. d \in Seq(Speakers) /\ Len(d) = m + n /\ \A i \in 1..(m + n) : c[i] = d[i]
    BY <1>5, <1>6
  <2> HIDE DEF d
  <2>2. c = d
    BY <1>1, <1>4, <2>1, SeqEqual
  <2> QED BY <2>2 DEF d
<1>8. NotBy(p, a \o b) = NotBy(p, a) \o NotBy(p, b)
  BY <1>3, NotByConcat
<1> QED BY <1>7, <1>8 DEF Words, a, b, c, r

LEMMA WordsOne ==
  ASSUME NEW e \in Mail, NEW kinds, NEW p \in Members \cup {Manager}
  PROVE  Words(<<e>>, kinds, p) = Word(e, kinds, p)
<1> DEFINE x == IF e.kind \in kinds THEN e.who ELSE p
<1>1. Says(<<e>>, kinds, p) = <<x>>
  BY DEF Says
<1>2. NotBy(p, <<x>>) = IF x = p THEN <<>> ELSE <<x>>
  BY NotByOne
<1> QED BY <1>1, <1>2 DEF Words, Word

LEMMA WordsAppend ==
  ASSUME NEW q \in Seq(Mail), NEW e \in Mail, NEW kinds, NEW p \in Members \cup {Manager}
  PROVE  Words(Append(q, e), kinds, p) = Words(q, kinds, p) \o Word(e, kinds, p)
<1>1. Append(q, e) = q \o <<e>> /\ <<e>> \in Seq(Mail)
  BY AppendIsConcat
<1>2. Words(q \o <<e>>, kinds, p) = Words(q, kinds, p) \o Words(<<e>>, kinds, p)
  BY <1>1, WordsConcat
<1>3. Words(<<e>>, kinds, p) = Word(e, kinds, p)
  BY WordsOne
<1> QED BY ONLY <1>1, <1>2, <1>3

LEMMA WordsTail ==
  ASSUME NEW q \in Seq(Mail), q # <<>>, NEW kinds, NEW p \in Members \cup {Manager}
  PROVE  Words(q, kinds, p) = Word(Head(q), kinds, p) \o Words(Tail(q), kinds, p)
<1> DEFINE e == Head(q)
           t == Tail(q)
           one == <<e>>
<1>1. q = one \o t /\ t \in Seq(Mail) /\ e \in Mail
  BY HeadTailProperties
<1> HIDE DEF e, t
<1>2. one \in Seq(Mail) /\ Words(one, kinds, p) = Word(e, kinds, p)
  BY <1>1, WordsOne
<1> HIDE DEF one
<1>3. Words(one \o t, kinds, p) = Words(one, kinds, p) \o Words(t, kinds, p)
  <2>1. \A s, r \in Seq(Mail) : Words(s \o r, kinds, p) = Words(s, kinds, p) \o Words(r, kinds, p)
    BY WordsConcat
  <2> QED BY ONLY <1>1, <1>2, <2>1
<1>4. Words(q, kinds, p) = Word(e, kinds, p) \o Words(t, kinds, p)
  BY ONLY <1>1, <1>2, <1>3
<1> QED BY <1>4 DEF e, t

\* a queue without messages of those kinds says nothing
LEMMA WordsSilent ==
  ASSUME NEW q \in Seq(Mail), NEW kinds, NEW p \in Members \cup {Manager}, \A i \in DOMAIN q : q[i].kind \notin kinds
  PROVE  Words(q, kinds, p) = <<>>
<1> DEFINE s == Says(q, kinds, p)
<1>1. s \in Seq({p})
  <2>1. Len(q) \in Nat /\ DOMAIN q = 1..Len(q)
    OBVIOUS
  <2> QED BY <2>1 DEF Says
<1>2. NotBy(p, s) \in Seq({p} \ {p})
  BY <1>1, NotByType
<1>3. \A r \in Seq({p} \ {p}) : r = <<>>
  OBVIOUS
<1> QED BY <1>2, <1>3 DEF Words

\* lists one after the other: left folded, the provers rearrange them by these
\* laws alone
Join(s, t) == s \o t

LEMMA JoinType == \A S : \A x, y \in Seq(S) : Join(x, y) \in Seq(S)
BY ConcatProperties DEF Join

LEMMA JoinEmpty == \A S : \A x \in Seq(S) : Join(x, <<>>) = x /\ Join(<<>>, x) = x
BY ConcatEmptySeq DEF Join

LEMMA JoinRegroup == \A S : \A x, y, z \in Seq(S) : Join(Join(x, y), z) = Join(x, Join(y, z))
BY ConcatAssociative DEF Join

-----------------------------------------------------------------------------
(* Everyone hears the others, in the order of the thread. *)

\* what a queue brings to p, and the responses of others in it
Told(q, p) == Words(q, {"relay", "response"}, p)
Answers(q, p) == Words(q, {"response"}, p)

\* the thread of the manager and what participants read and keep
HearTypes ==
    /\ thread \in Seq(Speakers)
    /\ heard \in [Members -> Seq(Speakers)] /\ buffer \in [Members -> Seq(Speakers)]

\* a runtime that was stopped holds no message, and between runs it is stopped
OffIsEmpty ==
    /\ caller = "idle" => rt = "off"
    /\ rt = "off" => bus = <<>> /\ \A a \in Agents : inbox[a] = <<>>

\* while nothing failed no runtime was shut, and a cancelled run is over
FaultsShow == intact => rt # "shut" /\ (cancelled => caller = "idle")

\* the task of a run is the first message under way, and the only one until
\* the manager goes on to the first speakers
StartIsAlone ==
    /\ \A i \in DOMAIN bus : bus[i].kind = "start" =>
            Len(bus) = 1 /\ \A a \in Agents : inbox[a] = <<>>
    /\ \A i \in DOMAIN inbox[Manager] : inbox[Manager][i].kind = "start" =>
            /\ i = 1
            /\ \/ selecting
               \/ Len(inbox[Manager]) = 1 /\ bus = <<>> /\ \A p \in Members : inbox[p] = <<>>

\* a participant is not sent its own response
OwnIsNotSent ==
    \A p \in Members : \A i \in DOMAIN inbox[p] : inbox[p][i].kind = "response" => inbox[p][i].who # p

\* EveryoneHears, of the saved state
SavedHears ==
    saved # <<>> =>
        /\ Head(saved).thread \in Seq(Speakers)
        /\ Head(saved).heard \in [Members -> Seq(Speakers)]
        /\ Head(saved).buffer \in [Members -> Seq(Speakers)]
        /\ Head(saved).intact =>
            \A p \in Members : Head(saved).heard[p] \o Head(saved).buffer[p] = NotBy(p, Head(saved).thread)

\* what p has had and is still to get
Gets(p) == Join(Join(Join(heard[p], buffer[p]), Told(inbox[p], p)), Told(bus, p))

\* what the others said in the thread, and what the manager is still to record
Said(p) == Join(Join(NotBy(p, thread), Answers(Answered, p)), Answers(bus, p))

\* nothing is lost, repeated or out of order on the way
HearsAll == intact => \A p \in Members : Gets(p) = Said(p)

\* the invariant of EveryoneHears
HearInv == /\ HearTypes /\ OffIsEmpty /\ FaultsShow /\ StartIsAlone
           /\ OwnIsNotSent /\ SavedHears /\ HearsAll

LEMMA HearTypesNext == ASSUME ActiveInv, HearInv, [Next]_vars PROVE HearTypes'
<1> USE Team DEF managerVars, memberVars, callerVars, recordVars
<1>1. HearTypes /\ SavedHears /\ Shapes
  BY DEF HearInv, ActiveInv
<1>2. /\ thread \in Seq(Speakers) /\ heard \in [Members -> Seq(Speakers)] /\ buffer \in [Members -> Seq(Speakers)]
      /\ inbox \in [Agents -> Seq(Mail)]
  BY <1>1 DEF HearTypes, Shapes
<1>3. \A a \in Agents : inbox[a] # <<>> => Head(inbox[a]).who \in Speakers
  <2> SUFFICES ASSUME NEW a \in Agents, inbox[a] # <<>> PROVE Head(inbox[a]).who \in Speakers
    OBVIOUS
  <2>1. inbox[a] \in Seq(Mail)
    BY <1>2
  <2>2. Head(inbox[a]) \in Mail
    BY <2>1
  <2> QED BY <2>2 DEF Mail, Speakers
<1>4. CASE UNCHANGED <<thread, heard, buffer>>
  BY <1>1, <1>4 DEF HearTypes
<1>5. ASSUME NEW p \in Members, NEW s \in Seq(Speakers), NEW t \in Seq(Speakers),
             thread' = thread, heard' = [heard EXCEPT ![p] = s], buffer' = [buffer EXCEPT ![p] = t]
      PROVE  HearTypes'
  BY <1>2, <1>5 DEF HearTypes
<1>6. CASE RuntimeStep \/ CallerStep \/ Cancel \/ RunStreamDoomed \/ SaveState \/ UNCHANGED vars \/ \E task \in Tasks : RunStream(task)
  BY <1>4, <1>6 DEF RuntimeStep, Deliver, DeliverError, RaiseInLoop, StopWhenIdle, CallerStep,
     StartAnswered, YieldMessage, EndRun, Cancel, RunStreamDoomed, SaveState, RunStream, vars
<1>7. CASE ManagerStep
  <2>1. CASE StartRefused \/ StartInvalid \/ HandleResume \/ HandleLog \/ SelectionFails \/ SelectionCancelled
             \/ \E pick \in Selections : SelectSpeakers(pick)
    BY <1>4, <2>1 DEF StartRefused, StartInvalid, HandleResume, HandleLog, SelectionFails, SelectionCancelled,
       SelectSpeakers
  <2>2. CASE \E o \in Conditions : HandleStart(o) \/ HandleResponse(o)
    <3>1. /\ inbox[Manager] # <<>> /\ thread' = Append(thread, Head(inbox[Manager]).who)
          /\ UNCHANGED <<heard, buffer>>
      BY <2>2 DEF HandleStart, HandleResponse, Handling, Record
    <3> QED BY <1>2, <1>3, <3>1 DEF HearTypes
  <2> QED BY <1>7, <2>1, <2>2 DEF ManagerStep
<1>8. ASSUME NEW p \in Members, MemberStep(p) PROVE HearTypes'
  <2>1. heard[p] \in Seq(Speakers) /\ buffer[p] \in Seq(Speakers) /\ <<>> \in Seq(Speakers)
        /\ heard[p] \o buffer[p] \in Seq(Speakers)
    BY <1>2
  <2>2. CASE CallAgent(p) \/ LogResponse(p) \/ AgentFails(p)
    BY <1>4, <2>2 DEF CallAgent, LogResponse, AgentFails
  <2>3. CASE BufferMessage(p)
    <3>1. /\ inbox[p] # <<>> /\ UNCHANGED <<thread, heard>>
          /\ buffer' = [buffer EXCEPT ![p] = Append(buffer[p], Head(inbox[p]).who)]
      BY <2>3 DEF BufferMessage, Handling
    <3>2. Append(buffer[p], Head(inbox[p]).who) \in Seq(Speakers)
      BY <1>3, <2>1, <3>1
    <3>3. heard' = [heard EXCEPT ![p] = heard[p]]
      BY <1>2, <3>1
    <3> QED BY <1>5, <2>1, <3>1, <3>2, <3>3
  <2>4. CASE AgentCutOff(p) \/ \E target \in Targets : PublishResponse(p, target)
    <3>1. \/ UNCHANGED <<thread, heard, buffer>>
          \/ /\ UNCHANGED thread /\ heard' = [heard EXCEPT ![p] = heard[p] \o buffer[p]]
             /\ buffer' = [buffer EXCEPT ![p] = <<>>]
      BY <2>4 DEF AgentCutOff, PublishResponse
    <3> QED BY <1>4, <1>5, <2>1, <3>1
  <2> QED BY <1>8, <2>2, <2>3, <2>4 DEF MemberStep
<1>9. CASE Reset
  BY <1>9 DEF Reset, HearTypes
<1>10. CASE LoadState
  <2>1. saved # <<>> /\ thread' = Head(saved).thread /\ heard' = Head(saved).heard /\ buffer' = Head(saved).buffer
    BY <1>10 DEF LoadState
  <2> QED BY <1>1, <2>1 DEF SavedHears, HearTypes
<1> QED BY <1>6, <1>7, <1>8, <1>9, <1>10 DEF Next

\* between runs nothing is under way, and HearsAll is EveryoneHears
LEMMA HearsAtRest ==
  ASSUME ActiveInv, HearTypes, OffIsEmpty, HearsAll, intact, caller = "idle", NEW p \in Members
  PROVE  heard[p] \o buffer[p] = NotBy(p, thread)
<1> USE Team
<1>1. bus = <<>> /\ inbox[p] = <<>> /\ Answered = <<>>
  BY DEF OffIsEmpty, Answered, ActiveInv, SelectingHolds
<1>2. /\ Told(bus, p) = <<>> /\ Told(inbox[p], p) = <<>>
      /\ Answers(bus, p) = <<>> /\ Answers(Answered, p) = <<>>
  BY <1>1, WordsEmpty DEF Told, Answers
<1>3. Gets(p) = Said(p)
  BY DEF HearsAll
<1>4. heard[p] \o buffer[p] \in Seq(Speakers) /\ NotBy(p, thread) \in Seq(Speakers)
  BY NotByIsSeq DEF HearTypes
<1>5. Gets(p) = heard[p] \o buffer[p] /\ Said(p) = NotBy(p, thread)
  BY <1>2, <1>4, JoinEmpty DEF Gets, Said, Join
<1> QED BY <1>3, <1>5

\* SaveState stores what HearsAtRest says, and LoadState restores it
LEMMA SavedHearsNext == ASSUME ActiveInv, HearInv, [Next]_vars PROVE SavedHears'
<1> USE DEF managerVars, memberVars, callerVars, recordVars
<1>1. CASE SaveState
  <2>1. /\ saved' # <<>> /\ Head(saved').thread = thread /\ Head(saved').heard = heard
        /\ Head(saved').buffer = buffer /\ Head(saved').intact = intact /\ caller = "idle"
    BY <1>1 DEF SaveState
  <2>2. HearTypes /\ OffIsEmpty /\ HearsAll
    BY DEF HearInv
  <2>3. intact => \A p \in Members : heard[p] \o buffer[p] = NotBy(p, thread)
    BY <2>1, <2>2, HearsAtRest
  <2> QED BY <2>1, <2>2, <2>3 DEF SavedHears, HearTypes
<1>2. CASE LoadState
  BY <1>2 DEF LoadState, SavedHears
<1>3. CASE ~SaveState /\ ~LoadState
  <2>1. CASE UNCHANGED vars
    BY <2>1 DEF vars, HearInv, SavedHears
  <2>2. CASE Next
    <3>1. UNCHANGED saved
      BY <1>3, <2>2 DEF Next, RuntimeStep, ManagerStep, MemberStep, CallerStep, RunStream, Cancel, RunStreamDoomed, Reset,
         Deliver, DeliverError, RaiseInLoop, StopWhenIdle, StartRefused, StartInvalid, HandleResume,
         HandleLog, HandleStart, HandleResponse, SelectSpeakers, SelectionFails, SelectionCancelled,
         BufferMessage, CallAgent, LogResponse, AgentFails, AgentCutOff, PublishResponse,
         StartAnswered, YieldMessage, EndRun
    <3> QED BY <3>1 DEF HearInv, SavedHears
  <2> QED BY <2>1, <2>2
<1> QED BY <1>1, <1>2, <1>3

\* what a step of the manager does to the messages under way
LEMMA ManagerShape ==
  ASSUME ActiveInv, ManagerStep
  PROVE  /\ inbox[Manager] # <<>>
         /\ UNCHANGED <<heard, buffer, work, caller, cancelled, style, saved, intact>>
         /\ rt' \in {rt, "failing", "leaked"}
         /\ \/ bus' = bus
            \/ bus' = Append(bus, Envelope("relay", User))
            \/ \E s \in Seq(Members) : bus' = bus \o Requests(s)
         /\ \/ Finished(Manager) /\ ~selecting'
            \/ UNCHANGED inbox /\ ~selecting /\ selecting'
<1> USE DEF managerVars, memberVars, callerVars, recordVars
<1>1. SelectingHolds /\ RobinStands
  BY DEF ActiveInv
<1>2. CASE StartRefused
  BY <1>1, <1>2 DEF StartRefused, Handling, SelectingHolds
<1>3. CASE StartInvalid
  BY <1>3 DEF StartInvalid, Handling, StartFails
<1>4. CASE HandleResume
  BY <1>4 DEF HandleResume, Handling
<1>5. CASE HandleLog
  BY <1>1, <1>5 DEF HandleLog, Handling, SelectingHolds
<1>6. ASSUME NEW o \in Conditions, HandleStart(o)
      PROVE  /\ inbox[Manager] # <<>>
             /\ UNCHANGED <<heard, buffer, work, caller, cancelled, style, saved, intact>>
             /\ rt' \in {rt, "failing", "leaked"}
             /\ bus' = Append(bus, Envelope("relay", User))
             /\ \/ Finished(Manager) /\ ~selecting'
                \/ UNCHANGED inbox /\ ~selecting /\ selecting'
  BY <1>6 DEF HandleStart, Handling, StartFails, Terminate, Raise, Continue
<1>7. ASSUME NEW o \in Conditions, HandleResponse(o)
      PROVE  /\ inbox[Manager] # <<>>
             /\ UNCHANGED <<heard, buffer, work, caller, cancelled, style, saved, intact, bus>>
             /\ rt' \in {rt, "failing", "leaked"}
             /\ \/ Finished(Manager) /\ ~selecting'
                \/ UNCHANGED inbox /\ ~selecting /\ selecting'
  BY <1>7 DEF HandleResponse, Handling, ResponseFails, ResponseCutOff, Terminate, Raise, Continue
<1>8. ASSUME NEW pick \in Selections, SelectSpeakers(pick)
      PROVE  /\ inbox[Manager] # <<>>
             /\ UNCHANGED <<heard, buffer, work, caller, cancelled, style, saved, intact, rt>>
             /\ \E s \in Seq(Members) : bus' = bus \o Requests(s)
             /\ Finished(Manager) /\ ~selecting'
  <2>1. pick.chosen \in Seq(Members)
    BY <1>1, Chooses
  <2>2. bus' = bus \o Requests(pick.chosen)
    BY <1>8 DEF SelectSpeakers, Requests
  <2>3. /\ UNCHANGED <<heard, buffer, work, caller, cancelled, style, saved, intact, rt>>
        /\ inbox[Manager] # <<>> /\ Finished(Manager) /\ ~selecting'
    BY <1>1, <1>8 DEF SelectSpeakers, SelectingHolds
  <2> QED BY <2>1, <2>2, <2>3
<1>9. CASE SelectionFails
  BY <1>1, <1>9 DEF SelectionFails, SelectingHolds, StartFails, ResponseFails
<1>10. CASE SelectionCancelled
  BY <1>1, <1>10 DEF SelectionCancelled, SelectingHolds, ResponseCutOff
<1> QED BY <1>2, <1>3, <1>4, <1>5, <1>6, <1>7, <1>8, <1>9, <1>10 DEF ManagerStep

\* and what a step of a participant does
LEMMA MemberShape ==
  ASSUME ActiveInv, NEW p \in Members, MemberStep(p)
  PROVE  /\ inbox[p] # <<>>
         /\ UNCHANGED <<thread, selecting, caller, cancelled, style, saved>>
         /\ rt' \in {rt, "failing"}
         /\ Finished(p) \/ UNCHANGED inbox
         /\ \/ bus' = bus
            \/ \E e \in Mail : e.kind \in {"log", "response", "error"} /\ e.who = p /\ bus' = Append(bus, e)
<1> USE DEF managerVars, memberVars, callerVars, recordVars
<1>1. work[p] # "idle" => inbox[p] # <<>>
  BY DEF ActiveInv, WorkIsAsked
<1>2. /\ Envelope("log", p) \in Mail /\ Envelope("log", p).kind = "log" /\ Envelope("log", p).who = p
      /\ Envelope("error", p) \in Mail /\ Envelope("error", p).kind = "error" /\ Envelope("error", p).who = p
  BY DEF Envelope, Passing, Mail
<1>3. \A target \in Targets : /\ Passing("response", p, target) \in Mail
                              /\ Passing("response", p, target).kind = "response"
                              /\ Passing("response", p, target).who = p
  BY TeamAssumption DEF Passing, Mail, Targets
<1>4. CASE BufferMessage(p) \/ CallAgent(p)
  BY <1>4 DEF BufferMessage, CallAgent, Handling
<1>5. CASE LogResponse(p)
  BY <1>1, <1>2, <1>5 DEF LogResponse
<1>6. CASE AgentFails(p)
  BY <1>1, <1>2, <1>6 DEF AgentFails
<1>7. CASE AgentCutOff(p)
  BY <1>1, <1>7 DEF AgentCutOff, LateOrSilent
<1>8. ASSUME NEW target \in Targets, PublishResponse(p, target)
      PROVE  /\ inbox[p] # <<>> /\ Finished(p) /\ UNCHANGED rt
             /\ UNCHANGED <<thread, selecting, caller, cancelled, style, saved>>
             /\ \E e \in Mail : e.kind \in {"log", "response", "error"} /\ e.who = p /\ bus' = Append(bus, e)
  BY <1>1, <1>3, <1>8 DEF PublishResponse
<1> QED BY <1>4, <1>5, <1>6, <1>7, <1>8 DEF MemberStep

\* a stopped runtime stays stopped until the next run
LEMMA WorkNeedsRuntime ==
  ASSUME ActiveInv, OffIsEmpty, RuntimeStep \/ ManagerStep \/ \E p \in Members : MemberStep(p)
  PROVE  rt # "off" /\ caller # "idle" /\ caller' = caller /\ cancelled' = cancelled
<1> USE Team DEF managerVars, memberVars, callerVars
<1>1. rt # "off" => caller # "idle"
  BY DEF OffIsEmpty
<1>2. CASE RuntimeStep
  BY <1>1, <1>2 DEF RuntimeStep, Deliver, DeliverError, RaiseInLoop, StopWhenIdle, OffIsEmpty
<1>3. CASE ManagerStep
  BY <1>1, <1>3, ManagerShape DEF OffIsEmpty
<1>4. CASE \E p \in Members : MemberStep(p)
  BY <1>1, <1>4, MemberShape DEF OffIsEmpty
<1> QED BY <1>2, <1>3, <1>4

\* only run_stream starts the runtime
LEMMA OffIsEmptyNext == ASSUME ActiveInv, HearInv, [Next]_vars PROVE OffIsEmpty'
<1> USE DEF managerVars, memberVars, callerVars
<1>1. OffIsEmpty
  BY DEF HearInv
<1>2. CASE RuntimeStep
  BY <1>1, <1>2, WorkNeedsRuntime DEF RuntimeStep, Deliver, DeliverError, RaiseInLoop, StopWhenIdle, OffIsEmpty
<1>3. CASE ManagerStep
  BY <1>1, <1>3, WorkNeedsRuntime, ManagerShape DEF OffIsEmpty
<1>4. CASE \E p \in Members : MemberStep(p)
  BY <1>1, <1>4, WorkNeedsRuntime, MemberShape DEF OffIsEmpty
<1>5. CASE RunStreamDoomed \/ \E task \in Tasks : RunStream(task)
  BY <1>5 DEF RunStream, RunStreamDoomed, OffIsEmpty
<1>6. CASE CallerStep \/ Cancel \/ Reset \/ SaveState \/ LoadState \/ UNCHANGED vars
  <2>1. UNCHANGED <<bus, inbox, rt>> /\ (caller' = "idle" => caller = "idle" \/ rt = "off")
    BY <1>6 DEF CallerStep, StartAnswered, YieldMessage, EndRun, Cancel, Reset, SaveState, LoadState, vars
  <2> QED BY <1>1, <2>1 DEF OffIsEmpty
<1> QED BY <1>2, <1>3, <1>4, <1>5, <1>6 DEF Next

\* a fault clears intact in the step that it shows in
LEMMA FaultsShowNext == ASSUME ActiveInv, HearInv, [Next]_vars PROVE FaultsShow'
<1> USE DEF managerVars, memberVars, callerVars
<1>1. OffIsEmpty /\ FaultsShow
  BY DEF HearInv
<1>2. CASE RuntimeStep
  BY <1>1, <1>2, WorkNeedsRuntime DEF RuntimeStep, Deliver, DeliverError, RaiseInLoop, StopWhenIdle, FaultsShow
<1>3. CASE ManagerStep
  BY <1>1, <1>3, WorkNeedsRuntime, ManagerShape DEF FaultsShow
<1>4. ASSUME NEW p \in Members, MemberStep(p) PROVE FaultsShow'
  <2>1. intact' => intact
    BY <1>4 DEF MemberStep, BufferMessage, CallAgent, LogResponse, AgentFails, AgentCutOff, PublishResponse
  <2> QED BY <1>1, <1>4, <2>1, WorkNeedsRuntime, MemberShape DEF FaultsShow
<1>5. CASE \E task \in Tasks : RunStream(task)
  BY <1>5 DEF RunStream, FaultsShow
<1>6. CASE Reset \/ LoadState
  <2>1. caller' = "idle" /\ rt' = rt /\ caller = "idle"
    BY <1>6 DEF Reset, LoadState
  <2> QED BY <1>1, <2>1 DEF FaultsShow, OffIsEmpty
<1>7. CASE Cancel \/ RunStreamDoomed
  BY <1>7 DEF Cancel, RunStreamDoomed, FaultsShow
<1>8. CASE CallerStep \/ SaveState \/ UNCHANGED vars
  <2>1. UNCHANGED <<rt, cancelled, intact>> /\ (caller = "idle" => caller' = "idle")
    BY <1>8 DEF CallerStep, StartAnswered, YieldMessage, EndRun, SaveState, vars
  <2> QED BY <1>1, <2>1 DEF FaultsShow
<1> QED BY <1>2, <1>3, <1>4, <1>5, <1>6, <1>7, <1>8 DEF Next

\* the output topic has every subscriber but the sender
LEMMA OwnIsNotSentNext == ASSUME ActiveInv, HearInv, [Next]_vars PROVE OwnIsNotSent'
<1> USE Team DEF managerVars, memberVars, callerVars
<1>1. /\ inbox \in [Agents -> Seq(Mail)] /\ bus \in Seq(Mail)
      /\ \A p \in Members : \A i \in DOMAIN inbox[p] : inbox[p][i].kind = "response" => inbox[p][i].who # p
  BY DEF ActiveInv, Shapes, HearInv, OwnIsNotSent
<1>2. ASSUME NEW a \in Agents, Finished(a), inbox[a] # <<>> PROVE OwnIsNotSent'
  <2>1. inbox'[a] = Tail(inbox[a]) /\ \A p \in Members : p # a => inbox'[p] = inbox[p]
    BY <1>1, <1>2 DEF Finished
  <2>2. inbox[a] \in Seq(Mail)
    BY <1>1
  <2>3. \A i \in DOMAIN Tail(inbox[a]) : i + 1 \in DOMAIN inbox[a] /\ Tail(inbox[a])[i] = inbox[a][i + 1]
    BY <1>2, <2>2
  <2>4. ASSUME NEW p \in Members, NEW i \in DOMAIN inbox'[p], inbox'[p][i].kind = "response"
        PROVE  inbox'[p][i].who # p
    <3>1. CASE p = a
      <4>1. i + 1 \in DOMAIN inbox[p] /\ inbox'[p][i] = inbox[p][i + 1]
        BY <2>1, <2>3, <3>1
      <4> QED BY <1>1, <2>4, <4>1
    <3>2. CASE p # a
      BY <1>1, <2>1, <2>4, <3>2
    <3> QED BY <3>1, <3>2
  <2> QED BY <2>4 DEF OwnIsNotSent
<1>3. CASE UNCHANGED inbox
  BY <1>1, <1>3 DEF OwnIsNotSent
<1>4. CASE Deliver
  <2> DEFINE e == Head(bus)
  <2>1. bus # <<>> /\ e.kind # "error" /\ e \in Mail
    BY <1>1, <1>4 DEF Deliver
  <2>2. e.kind = "response" => Audience(e) = Agents \ {e.who}
    BY <2>1, MailKinds DEF Audience
  <2>3. \A a \in Agents : inbox'[a] = IF a \in Audience(e) THEN Append(inbox[a], e) ELSE inbox[a]
    BY <1>4 DEF Deliver
  <2> HIDE DEF e
  <2>4. ASSUME NEW p \in Members, NEW i \in DOMAIN inbox'[p], inbox'[p][i].kind = "response"
        PROVE  inbox'[p][i].who # p
    <3>1. inbox[p] \in Seq(Mail)
      BY <1>1
    <3>2. CASE p \in Audience(e)
      <4>1. inbox'[p] = Append(inbox[p], e)
        BY <2>3, <3>2
      <4>2. \/ i \in DOMAIN inbox[p] /\ inbox'[p][i] = inbox[p][i]
            \/ inbox'[p][i] = e
        BY <2>1, <3>1, <4>1
      <4>3. e.kind = "response" => e.who # p
        BY <2>2, <3>2
      <4> QED BY <1>1, <2>4, <4>2, <4>3
    <3>3. CASE p \notin Audience(e)
      BY <1>1, <2>3, <2>4, <3>3
    <3> QED BY <3>2, <3>3
  <2> QED BY <2>4 DEF OwnIsNotSent
<1>5. CASE RuntimeStep
  BY <1>3, <1>4, <1>5 DEF RuntimeStep, DeliverError, RaiseInLoop, StopWhenIdle
<1>6. CASE ManagerStep
  BY <1>2, <1>3, <1>6, ManagerShape
<1>7. CASE \E p \in Members : MemberStep(p)
  BY <1>2, <1>3, <1>7, MemberShape
<1>8. CASE CallerStep \/ Cancel \/ RunStreamDoomed \/ Reset \/ SaveState \/ LoadState \/ UNCHANGED vars
           \/ \E task \in Tasks : RunStream(task)
  BY <1>3, <1>8 DEF CallerStep, StartAnswered, YieldMessage, EndRun, Cancel, RunStreamDoomed, Reset, SaveState, LoadState,
     RunStream, vars
<1> QED BY <1>5, <1>6, <1>7, <1>8 DEF Next

\* no task of a run in a queue
NoStart(q) == \A i \in DOMAIN q : q[i].kind # "start"

\* once anything is in the line of an agent no task is in the queue
LEMMA NoStartInBus ==
  ASSUME StartIsAlone, NEW a \in Agents, inbox[a] # <<>>
  PROVE  NoStart(bus)
BY DEF StartIsAlone, NoStart

LEMMA NoStartAppended ==
  ASSUME NEW q \in Seq(Mail), NoStart(q), NEW e \in Mail, e.kind # "start"
  PROVE  NoStart(Append(q, e))
<1>1. \A i \in DOMAIN Append(q, e) : Append(q, e)[i] = e \/ (i \in DOMAIN q /\ Append(q, e)[i] = q[i])
  OBVIOUS
<1> QED BY <1>1 DEF NoStart

LEMMA NoStartInRequests ==
  ASSUME NEW q \in Seq(Mail), NoStart(q), NEW s \in Seq(Members)
  PROVE  /\ NoStart(q \o Requests(s)) /\ Requests(s) \in Seq(Mail)
         /\ \A i \in DOMAIN Requests(s) : Requests(s)[i].kind = "request"
<1> DEFINE t == Requests(s)
<1>1. Len(s) \in Nat /\ DOMAIN s = 1..Len(s) /\ \A i \in DOMAIN s : s[i] \in Members
  OBVIOUS
<1>2. \A i \in DOMAIN s : Envelope("request", s[i]) \in Mail /\ Envelope("request", s[i]).kind = "request"
  BY <1>1 DEF Envelope, Passing, Mail
<1>3. t \in Seq(Mail) /\ DOMAIN t = DOMAIN s
  BY <1>1, <1>2 DEF Requests
<1>4. \A i \in DOMAIN t : t[i].kind = "request"
  BY <1>2 DEF Requests
<1> HIDE DEF t
<1>5. \A i \in DOMAIN (q \o t) : \/ i \in DOMAIN q /\ (q \o t)[i] = q[i]
                                 \/ i - Len(q) \in DOMAIN t /\ (q \o t)[i] = t[i - Len(q)]
  <2>1. /\ q \o t \in Seq(Mail) /\ Len(q \o t) = Len(q) + Len(t)
        /\ \A i \in 1..(Len(q) + Len(t)) : (q \o t)[i] = IF i <= Len(q) THEN q[i] ELSE t[i - Len(q)]
    BY <1>3, ConcatProperties
  <2>2. Len(q) \in Nat /\ Len(t) \in Nat /\ DOMAIN q = 1..Len(q) /\ DOMAIN t = 1..Len(t)
        /\ DOMAIN (q \o t) = 1..(Len(q) + Len(t))
    BY <1>3, <2>1
  <2> QED BY ONLY <2>1, <2>2
<1>6. NoStart(q \o t)
  BY <1>4, <1>5 DEF NoStart
<1> QED BY <1>3, <1>4, <1>6 DEF t

\* a step on the lines of the agents that leaves the place of a task alone
LEMMA StartStays ==
  ASSUME NoStart(bus'),
         \A i \in DOMAIN inbox'[Manager] : inbox'[Manager][i].kind = "start" => i = 1 /\ selecting'
  PROVE  StartIsAlone'
BY DEF StartIsAlone, NoStart

\* every message after the task follows from the manager having read it
LEMMA StartIsAloneNext == ASSUME ActiveInv, HearInv, [Next]_vars PROVE StartIsAlone'
<1> USE Team DEF managerVars, memberVars, callerVars
<1>1. inbox \in [Agents -> Seq(Mail)] /\ bus \in Seq(Mail) /\ inbox[Manager] \in Seq(Mail)
  BY DEF ActiveInv, Shapes
<1>2. StartIsAlone /\ OffIsEmpty
  BY DEF HearInv
<1>3. \A i \in DOMAIN inbox[Manager] : inbox[Manager][i].kind = "start" => i = 1 /\
            (selecting \/ (Len(inbox[Manager]) = 1 /\ bus = <<>> /\ \A p \in Members : inbox[p] = <<>>))
  BY <1>2 DEF StartIsAlone
<1>4. CASE Deliver
  <2> DEFINE e == Head(bus)
  <2>1. bus # <<>> /\ e \in Mail /\ e.kind # "error" /\ bus' = Tail(bus) /\ selecting' = selecting
    BY <1>1, <1>4 DEF Deliver
  <2>2. \A a \in Agents : inbox'[a] = IF a \in Audience(e) THEN Append(inbox[a], e) ELSE inbox[a]
    BY <1>4 DEF Deliver
  <2>3. /\ e = bus[1] /\ 1 \in DOMAIN bus /\ Len(bus) \in Nat /\ DOMAIN bus = 1..Len(bus)
        /\ \A i \in DOMAIN Tail(bus) : i + 1 \in DOMAIN bus /\ i + 1 # 1 /\ Tail(bus)[i] = bus[i + 1]
        /\ Len(bus) = 1 => Tail(bus) = <<>>
    BY <1>1, <2>1
  <2>4. CASE e.kind = "start"
    <3>1. Len(bus) = 1 /\ \A a \in Agents : inbox[a] = <<>>
      BY <1>2, <2>3, <2>4 DEF StartIsAlone
    <3>2. Audience(e) = {Manager}
      BY <2>4 DEF Audience
    <3>3. bus' = <<>> /\ inbox'[Manager] = Append(<<>>, e) /\ \A p \in Members : inbox'[p] = <<>>
      <4> HIDE DEF e
      <4> QED BY <2>1, <2>2, <2>3, <3>1, <3>2
    <3>4. Len(inbox'[Manager]) = 1 /\ DOMAIN inbox'[Manager] = {1}
      <4> HIDE DEF e
      <4> QED BY <2>1, <3>3
    <3> HIDE DEF e
    <3> QED BY <3>3, <3>4 DEF StartIsAlone
  <2>5. CASE e.kind # "start"
    <3> HIDE DEF e
    <3>1. NoStart(bus)
      <4> SUFFICES ASSUME NEW i \in DOMAIN bus, bus[i].kind = "start" PROVE FALSE
        BY DEF NoStart
      <4>1. Len(bus) = 1
        BY <1>2 DEF StartIsAlone
      <4> QED BY <2>3, <2>5, <4>1
    <3>2. NoStart(bus')
      BY <2>1, <2>3, <3>1 DEF NoStart
    <3>3. ASSUME NEW i \in DOMAIN inbox'[Manager], inbox'[Manager][i].kind = "start"
          PROVE  i = 1 /\ selecting'
      <4>1. i \in DOMAIN inbox[Manager] /\ inbox[Manager][i].kind = "start"
        <5>1. CASE Manager \in Audience(e)
          <6>1. inbox'[Manager] = Append(inbox[Manager], e)
            BY <2>2, <5>1
          <6>2. inbox'[Manager][i] = e \/ (i \in DOMAIN inbox[Manager] /\ inbox'[Manager][i] = inbox[Manager][i])
            BY <1>1, <2>1, <6>1
          <6> QED BY <2>5, <3>3, <6>2
        <5>2. CASE Manager \notin Audience(e)
          BY <2>2, <3>3, <5>2
        <5> QED BY <5>1, <5>2
      <4> QED BY <1>3, <2>1, <4>1
    <3> QED BY <3>2, <3>3, StartStays
  <2> QED BY <2>4, <2>5
<1>5. CASE DeliverError
  <2>1. /\ bus # <<>> /\ Head(bus).kind = "error" /\ bus' = Tail(bus) /\ UNCHANGED <<inbox, selecting>>
    BY <1>5 DEF DeliverError
  <2>2. /\ Head(bus) = bus[1] /\ 1 \in DOMAIN bus /\ Len(bus) \in Nat /\ DOMAIN bus = 1..Len(bus)
        /\ \A i \in DOMAIN Tail(bus) : i + 1 \in DOMAIN bus /\ Tail(bus)[i] = bus[i + 1]
    BY <1>1, <2>1
  <2>3. NoStart(bus)
    <3> SUFFICES ASSUME NEW i \in DOMAIN bus, bus[i].kind = "start" PROVE FALSE
      BY DEF NoStart
    <3>1. Len(bus) = 1
      BY <1>2 DEF StartIsAlone
    <3> QED BY <2>1, <2>2, <3>1
  <2>4. NoStart(bus')
    BY <2>1, <2>2, <2>3 DEF NoStart
  <2> QED BY <1>3, <2>1, <2>4, StartStays
<1>6. CASE RaiseInLoop
  <2>1. bus' = <<>> /\ UNCHANGED <<inbox, selecting>>
    BY <1>6 DEF RaiseInLoop
  <2> QED BY <1>2, <2>1 DEF StartIsAlone
<1>7. CASE UNCHANGED <<bus, inbox, selecting>>
  BY <1>2, <1>7 DEF StartIsAlone
<1>8. CASE ManagerStep
  <2>1. /\ inbox[Manager] # <<>>
        /\ \/ bus' = bus
           \/ bus' = Append(bus, Envelope("relay", User))
           \/ \E s \in Seq(Members) : bus' = bus \o Requests(s)
        /\ (Finished(Manager) /\ ~selecting') \/ (UNCHANGED inbox /\ selecting')
    BY <1>8, ManagerShape
  <2>2. NoStart(bus)
    BY <1>2, <2>1, NoStartInBus
  <2>3. Envelope("relay", User) \in Mail /\ Envelope("relay", User).kind # "start"
    BY DEF Envelope, Passing, Mail
  <2>4. NoStart(bus')
    <3>1. CASE bus' = bus
      BY <2>2, <3>1
    <3>2. CASE bus' = Append(bus, Envelope("relay", User))
      BY <1>1, <2>2, <2>3, <3>2, NoStartAppended
    <3>3. CASE \E s \in Seq(Members) : bus' = bus \o Requests(s)
      BY <1>1, <2>2, <3>3, NoStartInRequests
    <3> QED BY <2>1, <3>1, <3>2, <3>3
  <2>5. CASE Finished(Manager)
    <3>1. inbox'[Manager] = Tail(inbox[Manager])
      BY <1>1, <2>5 DEF Finished
    <3>2. \A i \in DOMAIN Tail(inbox[Manager]) : /\ i + 1 \in DOMAIN inbox[Manager] /\ i + 1 # 1
                                                 /\ Tail(inbox[Manager])[i] = inbox[Manager][i + 1]
      BY <1>1, <2>1
    <3>3. \A i \in DOMAIN inbox'[Manager] : inbox'[Manager][i].kind # "start"
      BY <1>3, <3>1, <3>2
    <3> QED BY <2>4, <3>3, StartStays
  <2>6. CASE UNCHANGED inbox /\ selecting'
    BY <1>3, <2>4, <2>6, StartStays
  <2> QED BY <2>1, <2>5, <2>6
<1>9. ASSUME NEW p \in Members, MemberStep(p) PROVE StartIsAlone'
  <2>1. /\ inbox[p] # <<>> /\ UNCHANGED selecting
        /\ Finished(p) \/ UNCHANGED inbox
        /\ \/ bus' = bus
           \/ \E e \in Mail : e.kind \in {"log", "response", "error"} /\ e.who = p /\ bus' = Append(bus, e)
    BY <1>9, MemberShape
  <2>2. NoStart(bus)
    BY <1>2, <2>1, NoStartInBus
  <2>3. NoStart(bus')
    <3>1. CASE bus' = bus
      BY <2>2, <3>1
    <3>2. ASSUME NEW e \in Mail, e.kind \in {"log", "response", "error"}, bus' = Append(bus, e)
          PROVE  NoStart(bus')
      BY <1>1, <2>2, <3>2, NoStartAppended
    <3> QED BY <2>1, <3>1, <3>2
  <2>4. inbox'[Manager] = inbox[Manager]
    BY <1>1, <2>1 DEF Finished
  <2> QED BY <1>3, <2>1, <2>3, <2>4, StartStays
<1>10. ASSUME NEW task \in Tasks, RunStream(task) PROVE StartIsAlone'
  <2>1. bus' = <<task>> /\ UNCHANGED <<inbox, selecting>> /\ \A a \in Agents : inbox[a] = <<>>
    BY <1>2, <1>10 DEF RunStream, OffIsEmpty
  <2>2. Len(<<task>>) = 1
    OBVIOUS
  <2> QED BY <2>1, <2>2 DEF StartIsAlone
<1>11. CASE RuntimeStep
  BY <1>4, <1>5, <1>6, <1>7, <1>11 DEF RuntimeStep, StopWhenIdle
<1>12. CASE CallerStep \/ Cancel \/ RunStreamDoomed \/ Reset \/ SaveState \/ LoadState \/ UNCHANGED vars
  BY <1>7, <1>12 DEF CallerStep, StartAnswered, YieldMessage, EndRun, Cancel, RunStreamDoomed, Reset, SaveState, LoadState, vars
<1> QED BY <1>8, <1>9, <1>10, <1>11, <1>12 DEF Next

\* a message passes from the queue to the lines
LEMMA JoinMiddle == \A S : \A x, y, z, w \in Seq(S) : Join(Join(x, y), Join(z, w)) = Join(Join(x, Join(y, z)), w)
<1> TAKE S
<1> TAKE x, y, z, w \in Seq(S)
<1>1. Join(y, z) \in Seq(S) /\ Join(z, w) \in Seq(S)
  BY JoinType
<1>2. Join(Join(x, y), Join(z, w)) = Join(x, Join(y, Join(z, w)))
  BY <1>1, JoinRegroup
<1>3. Join(y, Join(z, w)) = Join(Join(y, z), w)
  BY JoinRegroup
<1>4. Join(x, Join(Join(y, z), w)) = Join(Join(x, Join(y, z)), w)
  BY <1>1, JoinRegroup
<1> QED BY <1>2, <1>3, <1>4

\* HearsAll after a step, with the primes on the parts
LEMMA HearNext ==
  ASSUME NEW p \in Members
  PROVE  /\ Gets(p)' = Join(Join(Join(heard'[p], buffer'[p]), Told(inbox'[p], p)), Told(bus', p))
         /\ Said(p)' = Join(Join(NotBy(p, thread'), Answers(Answered', p)), Answers(bus', p))
BY DEF Gets, Said, Told, Answers, Words, Says, NotBy, Join

\* the lists these sums are made of
LEMMA HearParts ==
  ASSUME ActiveInv, HearTypes, NEW p \in Members
  PROVE  /\ heard[p] \in Seq(Speakers) /\ buffer[p] \in Seq(Speakers) /\ Join(heard[p], buffer[p]) \in Seq(Speakers)
         /\ inbox[p] \in Seq(Mail) /\ bus \in Seq(Mail) /\ Answered \in Seq(Mail)
         /\ Told(inbox[p], p) \in Seq(Speakers) /\ Told(bus, p) \in Seq(Speakers)
         /\ NotBy(p, thread) \in Seq(Speakers)
         /\ Answers(Answered, p) \in Seq(Speakers) /\ Answers(bus, p) \in Seq(Speakers)
<1>1. heard[p] \in Seq(Speakers) /\ buffer[p] \in Seq(Speakers) /\ thread \in Seq(Speakers)
  BY DEF HearTypes
<1>2. Join(heard[p], buffer[p]) \in Seq(Speakers)
  BY <1>1, JoinType
<1>3. inbox[p] \in Seq(Mail) /\ bus \in Seq(Mail) /\ Answered \in Seq(Mail)
  BY AnsweredTyped DEF ActiveInv, Shapes
<1>4. NotBy(p, thread) \in Seq(Speakers)
  BY <1>1, NotByIsSeq
<1> QED BY <1>1, <1>2, <1>3, <1>4, WordsType DEF Told, Answers

\* Nothing said and nothing told: the sums stay as they are.
LEMMA HearQuiet ==
  ASSUME NEW p \in Members, Gets(p) = Said(p), NotBy(p, thread') = NotBy(p, thread),
         Join(heard'[p], buffer'[p]) = Join(heard[p], buffer[p]),
         Told(inbox'[p], p) = Told(inbox[p], p), Told(bus', p) = Told(bus, p),
         Answers(Answered', p) = Answers(Answered, p), Answers(bus', p) = Answers(bus, p)
  PROVE  Gets(p)' = Said(p)'
BY HearNext DEF Gets, Said

\* one message more, or one less at the head, that tells p nothing
LEMMA TellsNothing ==
  ASSUME NEW q \in Seq(Mail), NEW e \in Mail, NEW kinds, NEW p \in Members \cup {Manager}, e.kind \notin kinds
  PROVE  Words(Append(q, e), kinds, p) = Words(q, kinds, p)
<1>1. Word(e, kinds, p) = <<>>
  BY DEF Word
<1>2. Words(q, kinds, p) \in Seq(Speakers)
  BY WordsType
<1>3. Words(Append(q, e), kinds, p) = Words(q, kinds, p) \o Word(e, kinds, p)
  BY WordsAppend
<1> QED BY ONLY <1>1, <1>2, <1>3, ConcatEmptySeq

\* or as the first message
LEMMA TellsNothingFirst ==
  ASSUME NEW q \in Seq(Mail), q # <<>>, NEW kinds, NEW p \in Members \cup {Manager}, Head(q).kind \notin kinds
  PROVE  Words(Tail(q), kinds, p) = Words(q, kinds, p)
<1>1. Word(Head(q), kinds, p) = <<>>
  BY DEF Word
<1>2. Tail(q) \in Seq(Mail)
  OBVIOUS
<1>3. Words(Tail(q), kinds, p) \in Seq(Speakers)
  BY <1>2, WordsType
<1>4. Words(q, kinds, p) = Word(Head(q), kinds, p) \o Words(Tail(q), kinds, p)
  BY WordsTail
<1> QED BY ONLY <1>1, <1>3, <1>4, ConcatEmptySeq

\* requests to speak carry no message of the thread
LEMMA RequestsTellNothing ==
  ASSUME NEW q \in Seq(Mail), NEW s \in Seq(Members), NEW kinds, "request" \notin kinds,
         NEW p \in Members \cup {Manager}
  PROVE  Words(q \o Requests(s), kinds, p) = Words(q, kinds, p)
<1>1. Requests(s) \in Seq(Mail) /\ \A i \in DOMAIN Requests(s) : Requests(s)[i].kind = "request"
  <2>1. <<>> \in Seq(Mail) /\ NoStart(<<>>)
    BY DEF NoStart
  <2> QED BY <2>1, NoStartInRequests
<1>2. Words(Requests(s), kinds, p) = <<>>
  BY <1>1, WordsSilent
<1>3. Words(q, kinds, p) \in Seq(Speakers)
  BY WordsType
<1>4. Words(q \o Requests(s), kinds, p) = Words(q, kinds, p) \o Words(Requests(s), kinds, p)
  BY ONLY <1>1, WordsConcat, q \in Seq(Mail), p \in Members \cup {Manager}
<1> QED BY ONLY <1>2, <1>3, <1>4, ConcatEmptySeq

\* the sums of an empty runtime
LEMMA HearRests ==
  ASSUME HearTypes', NEW p \in Members, bus' = <<>>, inbox'[p] = <<>>, Answered' = <<>>,
         heard'[p] \o buffer'[p] = NotBy(p, thread')
  PROVE  Gets(p)' = Said(p)'
<1>1. /\ Told(bus', p) = <<>> /\ Told(inbox'[p], p) = <<>>
      /\ Answers(bus', p) = <<>> /\ Answers(Answered', p) = <<>>
  BY WordsEmpty DEF Told, Answers
<1>2. thread' \in Seq(Speakers)
  BY DEF HearTypes
<1>3. NotBy(p, thread') \in Seq(Speakers)
  BY <1>2, NotByIsSeq
<1>4. Join(heard'[p], buffer'[p]) = NotBy(p, thread')
  BY DEF Join
<1> QED BY <1>1, <1>3, <1>4, HearNext, JoinEmpty

\* what a message tells p, and what it has the manager record
Tells(e, p) == Word(e, {"relay", "response"}, p)
Adds(e, p) == Word(e, {"response"}, p)

\* one message more at the end of a line, or one less at its head
LEMMA HearAppend ==
  ASSUME NEW q \in Seq(Mail), NEW e \in Mail, NEW p \in Members
  PROVE  /\ Told(Append(q, e), p) = Join(Told(q, p), Tells(e, p))
         /\ Answers(Append(q, e), p) = Join(Answers(q, p), Adds(e, p))
         /\ Tells(e, p) \in Seq(Speakers) /\ Adds(e, p) \in Seq(Speakers)
BY WordsAppend, WordType DEF Told, Answers, Tells, Adds, Join

\* the head of a line leaves it
LEMMA HearTail ==
  ASSUME NEW q \in Seq(Mail), q # <<>>, NEW p \in Members
  PROVE  /\ Told(q, p) = Join(Tells(Head(q), p), Told(Tail(q), p))
         /\ Answers(q, p) = Join(Adds(Head(q), p), Answers(Tail(q), p))
         /\ Told(Tail(q), p) \in Seq(Speakers) /\ Answers(Tail(q), p) \in Seq(Speakers)
<1>1. Tail(q) \in Seq(Mail)
  OBVIOUS
<1>2. Told(Tail(q), p) \in Seq(Speakers) /\ Answers(Tail(q), p) \in Seq(Speakers)
  BY <1>1, WordsType DEF Told, Answers
<1>3. /\ Told(q, p) = Join(Tells(Head(q), p), Told(Tail(q), p))
      /\ Answers(q, p) = Join(Adds(Head(q), p), Answers(Tail(q), p))
  BY WordsTail DEF Told, Answers, Tells, Adds, Join
<1> QED BY <1>2, <1>3

\* a delivery moves one message from the queue to every line, with no line before another
LEMMA DeliverHears ==
  ASSUME ActiveInv, HearTypes, HearsAll, Deliver, intact, NEW p \in Members
  PROVE  Gets(p)' = Said(p)'
<1> USE Team
<1> DEFINE e == Head(bus)
<1>1. /\ inbox \in [Agents -> Seq(Mail)] /\ bus \in Seq(Mail) /\ bus # <<>>
      /\ bus' = Tail(bus) /\ UNCHANGED <<selecting, thread, heard, buffer>>
      /\ \A a \in Agents : inbox'[a] = IF a \in Audience(e) THEN Append(inbox[a], e) ELSE inbox[a]
  BY DEF ActiveInv, Shapes, Deliver, managerVars, memberVars, recordVars
<1>2. e \in Mail /\ e.kind # "error"
  BY <1>1 DEF Deliver
<1>3. /\ Told(bus, p) = Join(Tells(e, p), Told(bus', p))
      /\ Answers(bus, p) = Join(Adds(e, p), Answers(bus', p))
      /\ Told(bus', p) \in Seq(Speakers) /\ Answers(bus', p) \in Seq(Speakers)
  BY <1>1, HearTail
<1> HIDE DEF e
<1>4. /\ e.kind \in {"start", "log"} => Audience(e) = {Manager}
      /\ e.kind = "relay" => Audience(e) = Members
      /\ e.kind = "request" => Audience(e) = {e.who}
      /\ e.kind = "response" => Audience(e) = Agents \ {e.who} /\ e.who \in Members
      /\ e.kind \in {"start", "relay", "request", "response", "log"}
  BY <1>2, MailKinds DEF Audience
<1>5. /\ Tells(e, p) \in Seq(Speakers) /\ Adds(e, p) \in Seq(Speakers)
  BY <1>2, WordType DEF Tells, Adds
<1>6. Told(inbox'[p], p) = Join(Told(inbox[p], p), Tells(e, p))
  <2>1. inbox[p] \in Seq(Mail) /\ Told(inbox[p], p) \in Seq(Speakers)
    BY HearParts
  <2>2. CASE p \in Audience(e)
    <3>1. inbox'[p] = Append(inbox[p], e)
      BY <1>1, <2>2
    <3> QED BY ONLY <1>2, <2>1, <3>1, HearAppend, p \in Members
  <2>3. CASE p \notin Audience(e)
    <3>1. inbox'[p] = inbox[p]
      BY <1>1, <2>3
    <3>2. Tells(e, p) = <<>>
      BY <1>4, <2>3 DEF Tells, Word
    <3> QED BY ONLY <2>1, <3>1, <3>2, JoinEmpty
  <2> QED BY <2>2, <2>3
<1>7. Answers(Answered', p) = Join(Answers(Answered, p), Adds(e, p))
  <2>1. Answered \in Seq(Mail) /\ Answers(Answered, p) \in Seq(Speakers)
    BY HearParts
  <2>2. CASE Manager \in Audience(e)
    <3>1. inbox'[Manager] = Append(inbox[Manager], e) /\ inbox[Manager] \in Seq(Mail)
      BY <1>1, <2>2
    <3>2. selecting => inbox[Manager] # <<>>
      BY DEF ActiveInv, SelectingHolds
    <3>3. selecting => Tail(Append(inbox[Manager], e)) = Append(Tail(inbox[Manager]), e)
      BY <1>2, <3>1, <3>2, AppendLast
    <3>4. Answered' = Append(Answered, e)
      BY <1>1, <3>1, <3>3 DEF Answered
    <3> QED BY ONLY <1>2, <2>1, <3>4, HearAppend, p \in Members
  <2>3. CASE Manager \notin Audience(e)
    <3>1. Answered' = Answered
      BY <1>1, <2>3 DEF Answered
    <3>2. Adds(e, p) = <<>>
      BY <1>4, <2>3 DEF Adds, Word
    <3> QED BY ONLY <2>1, <3>1, <3>2, JoinEmpty
  <2> QED BY <2>2, <2>3
<1>8. Gets(p) = Said(p)
  BY DEF HearsAll
<1>9. /\ Join(heard[p], buffer[p]) \in Seq(Speakers) /\ Told(inbox[p], p) \in Seq(Speakers)
      /\ NotBy(p, thread) \in Seq(Speakers) /\ Answers(Answered, p) \in Seq(Speakers)
  BY HearParts
<1>10. Join(Join(Join(heard[p], buffer[p]), Told(inbox[p], p)), Join(Tells(e, p), Told(bus', p)))
         = Join(Join(NotBy(p, thread), Answers(Answered, p)), Join(Adds(e, p), Answers(bus', p)))
  BY ONLY <1>3, <1>8 DEF Gets, Said
<1>11. Join(Join(Join(heard[p], buffer[p]), Join(Told(inbox[p], p), Tells(e, p))), Told(bus', p))
         = Join(Join(NotBy(p, thread), Join(Answers(Answered, p), Adds(e, p))), Answers(bus', p))
  <2> DEFINE a == Join(heard[p], buffer[p])
             i == Told(inbox[p], p)
             c == Tells(e, p)
             b == Told(bus', p)
             t == NotBy(p, thread)
             w == Answers(Answered, p)
             r == Adds(e, p)
             q == Answers(bus', p)
  <2>1. /\ a \in Seq(Speakers) /\ i \in Seq(Speakers) /\ c \in Seq(Speakers) /\ b \in Seq(Speakers)
        /\ t \in Seq(Speakers) /\ w \in Seq(Speakers) /\ r \in Seq(Speakers) /\ q \in Seq(Speakers)
    BY ONLY <1>3, <1>5, <1>9
  <2>2. Join(Join(a, i), Join(c, b)) = Join(Join(t, w), Join(r, q))
    BY ONLY <1>10
  <2> HIDE DEF a, i, c, b, t, w, r, q
  <2>3. Join(Join(a, i), Join(c, b)) = Join(Join(a, Join(i, c)), b)
    BY ONLY <2>1, JoinMiddle
  <2>4. Join(Join(t, w), Join(r, q)) = Join(Join(t, Join(w, r)), q)
    BY ONLY <2>1, JoinMiddle
  <2>5. Join(Join(a, Join(i, c)), b) = Join(Join(t, Join(w, r)), q)
    BY ONLY <2>2, <2>3, <2>4
  <2> QED BY ONLY <2>5 DEF a, i, c, b, t, w, r, q
<1>12. NotBy(p, thread') = NotBy(p, thread)
  BY <1>1
<1> QED BY ONLY <1>1, <1>6, <1>7, <1>11, <1>12, HearNext, p \in Members

\* what a step of the manager leaves of the responses it has to record
LEMMA ManagerAnswers ==
  ASSUME ActiveInv, ManagerStep
  PROVE  /\ \A p \in Members : inbox'[p] = inbox[p]
         /\ Answered' = IF selecting THEN Answered ELSE Tail(inbox[Manager])
         /\ ~selecting => Answered = inbox[Manager]
<1>1. inbox \in [Agents -> Seq(Mail)]
  BY DEF ActiveInv, Shapes
<1>2. \/ Finished(Manager) /\ ~selecting'
      \/ UNCHANGED inbox /\ ~selecting /\ selecting'
  BY ManagerShape
<1> QED BY <1>1, <1>2, Team DEF Finished, Answered

\* a handler of the manager that records nothing
LEMMA ManagerQuiet ==
  ASSUME ActiveInv, HearTypes, HearsAll, ManagerStep, intact, thread' = thread,
         selecting \/ Head(inbox[Manager]).kind # "response",
         bus' = bus \/ \E s \in Seq(Members) : bus' = bus \o Requests(s),
         NEW p \in Members
  PROVE  Gets(p)' = Said(p)'
<1>1. Gets(p) = Said(p)
  BY DEF HearsAll
<1>2. inbox[Manager] \in Seq(Mail) /\ bus \in Seq(Mail)
  BY AnsweredTyped DEF ActiveInv, Shapes
<1>3. /\ inbox[Manager] # <<>> /\ heard' = heard /\ buffer' = buffer /\ inbox'[p] = inbox[p]
      /\ Answered' = IF selecting THEN Answered ELSE Tail(inbox[Manager])
      /\ ~selecting => Answered = inbox[Manager]
  BY ManagerShape, ManagerAnswers
<1>4. Answers(Answered', p) = Answers(Answered, p)
  <2>1. CASE selecting
    BY <1>3, <2>1
  <2>2. CASE ~selecting
    <3>1. Head(inbox[Manager]).kind \notin {"response"}
      BY <2>2
    <3>2. Answers(Tail(inbox[Manager]), p) = Answers(inbox[Manager], p)
      BY ONLY <1>2, <1>3, <3>1, p \in Members, TellsNothingFirst DEF Answers
    <3> QED BY <1>3, <2>2, <3>2
  <2> QED BY <2>1, <2>2
<1>5. Told(bus', p) = Told(bus, p) /\ Answers(bus', p) = Answers(bus, p)
  <2>1. CASE bus' = bus
    BY <2>1
  <2>2. ASSUME NEW s \in Seq(Members), bus' = bus \o Requests(s)
        PROVE  Told(bus', p) = Told(bus, p) /\ Answers(bus', p) = Answers(bus, p)
    <3>1. ASSUME NEW kinds, "request" \notin kinds PROVE Words(bus \o Requests(s), kinds, p) = Words(bus, kinds, p)
      BY ONLY <1>2, <3>1, RequestsTellNothing, s \in Seq(Members), p \in Members
    <3>2. /\ Told(bus \o Requests(s), p) = Told(bus, p)
          /\ Answers(bus \o Requests(s), p) = Answers(bus, p)
      BY <3>1 DEF Told, Answers
    <3> QED BY ONLY <2>2, <3>2
  <2> QED BY <2>1, <2>2
<1> QED BY <1>1, <1>3, <1>4, <1>5, HearQuiet

\* the list of p with one message that is not p's own
LEMMA NotByJoin ==
  ASSUME NEW x \in Speakers, NEW s \in Seq(Speakers), NEW p
  PROVE  /\ NotBy(p, Append(s, x)) = Join(NotBy(p, s), IF x = p THEN <<>> ELSE <<x>>)
         /\ NotBy(p, s) \in Seq(Speakers)
<1>1. NotBy(p, s) \in Seq(Speakers)
  BY NotByIsSeq
<1>2. NotBy(p, Append(s, x)) = IF x = p THEN NotBy(p, s) ELSE Append(NotBy(p, s), x)
  BY NotByAppend
<1>3. Append(NotBy(p, s), x) = Join(NotBy(p, s), <<x>>)
  BY <1>1, AppendIsConcat DEF Join
<1>4. Join(NotBy(p, s), <<>>) = NotBy(p, s)
  BY <1>1, JoinEmpty
<1> QED BY ONLY <1>1, <1>2, <1>3, <1>4

\* handle_start records the task and relays it
LEMMA StartHears ==
  ASSUME ActiveInv, HearTypes, StartIsAlone, HearsAll, intact, ManagerStep, NEW o, HandleStart(o), NEW p \in Members
  PROVE  Gets(p)' = Said(p)'
<1> USE Team
<1> DEFINE m == Head(inbox[Manager])
           relay == Envelope("relay", User)
<1>1. /\ inbox[Manager] # <<>> /\ m.kind = "start" /\ ~selecting /\ m.who = User
      /\ thread' = Append(thread, User) /\ bus' = Append(bus, relay) /\ heard' = heard /\ buffer' = buffer
  BY DEF HandleStart, Handling, Record, memberVars
<1>2. inbox[Manager] \in Seq(Mail) /\ thread \in Seq(Speakers)
  BY AnsweredTyped DEF ActiveInv, HearTypes
<1>3. 1 \in DOMAIN inbox[Manager] /\ inbox[Manager][1] = m
  BY <1>1, <1>2
<1>4. Len(inbox[Manager]) = 1 /\ bus = <<>> /\ inbox[p] = <<>>
  BY <1>1, <1>3 DEF StartIsAlone
<1>5. inbox'[p] = <<>> /\ Answered' = <<>> /\ bus' = Append(<<>>, relay)
  <2>1. \A q \in Seq(Mail) : Len(q) = 1 => Tail(q) = <<>>
    <3> TAKE q \in Seq(Mail)
    <3> HAVE Len(q) = 1
    <3>1. q # <<>>
      OBVIOUS
    <3>2. Tail(q) \in Seq(Mail) /\ Len(Tail(q)) = Len(q) - 1
      BY <3>1, HeadTailProperties
    <3>3. \A t \in Seq(Mail) : Len(t) = 0 => t = <<>>
      BY EmptySeq
    <3> DEFINE t == Tail(q)
    <3>4. t \in Seq(Mail) /\ Len(t) = 0
      BY <3>2
    <3> HIDE DEF t
    <3>5. t = <<>>
      BY ONLY <3>3, <3>4
    <3> QED BY <3>5 DEF t
  <2>2. Tail(inbox[Manager]) = <<>>
    BY ONLY <1>2, <1>4, <2>1
  <2> QED BY <1>1, <1>4, <2>2, ManagerAnswers
<1>6. Answers(Answered, p) = <<>>
  <2>1. Answered = inbox[Manager]
    BY <1>1 DEF Answered
  <2>2. \A i \in DOMAIN inbox[Manager] : inbox[Manager][i].kind \notin {"response"}
    BY <1>1, <1>2, <1>3, <1>4
  <2> QED BY <1>2, <2>1, <2>2, WordsSilent DEF Answers
<1>7. relay \in Mail /\ relay.kind = "relay" /\ relay.who = User
  BY DEF Envelope, Passing, Mail
<1> HIDE DEF m, relay
<1>8. /\ Told(<<>>, p) = <<>> /\ Answers(<<>>, p) = <<>>
      /\ <<>> \in Seq(Mail) /\ <<>> \in Seq(Speakers) /\ User \in Speakers /\ <<User>> \in Seq(Speakers)
  BY WordsEmpty DEF Told, Answers, Speakers
<1>9. Tells(relay, p) = <<User>> /\ Adds(relay, p) = <<>>
  BY <1>7 DEF Tells, Adds, Word
<1>10. Told(bus', p) = <<User>> /\ Answers(bus', p) = <<>>
  <2>1. /\ Told(bus', p) = Join(Told(<<>>, p), Tells(relay, p))
        /\ Answers(bus', p) = Join(Answers(<<>>, p), Adds(relay, p))
    BY ONLY <1>5, <1>7, <1>8, HearAppend, p \in Members
  <2>2. Join(<<>>, <<User>>) = <<User>> /\ Join(<<>>, <<>>) = <<>>
    BY DEF Join
  <2> QED BY ONLY <1>8, <1>9, <2>1, <2>2
<1>11. NotBy(p, thread') = Join(NotBy(p, thread), <<User>>) /\ NotBy(p, thread) \in Seq(Speakers)
  <2>1. User # p
    OBVIOUS
  <2> QED BY ONLY <1>1, <1>2, <1>8, <2>1, NotByJoin
<1>12. Join(heard[p], buffer[p]) = NotBy(p, thread)
  <2>1. Gets(p) = Said(p)
    BY DEF HearsAll
  <2>2. Join(heard[p], buffer[p]) \in Seq(Speakers)
    BY HearParts
  <2> QED BY ONLY <1>4, <1>6, <1>8, <1>11, <2>1, <2>2, JoinEmpty DEF Gets, Said
<1>13. Join(NotBy(p, thread), <<User>>) \in Seq(Speakers)
  BY <1>8, <1>11, JoinType
<1> QED BY ONLY <1>1, <1>5, <1>8, <1>10, <1>11, <1>12, <1>13, HearNext, JoinEmpty, p \in Members

\* handle_agent_response records the response
LEMMA ResponseHears ==
  ASSUME ActiveInv, HearTypes, HearsAll, intact, ManagerStep, NEW o, HandleResponse(o), NEW p \in Members
  PROVE  Gets(p)' = Said(p)'
<1> DEFINE m == Head(inbox[Manager])
<1>1. /\ inbox[Manager] # <<>> /\ m.kind = "response" /\ ~selecting
      /\ thread' = Append(thread, m.who) /\ bus' = bus /\ heard' = heard /\ buffer' = buffer
  BY DEF HandleResponse, Handling, Record, memberVars
<1>2. inbox[Manager] \in Seq(Mail) /\ thread \in Seq(Speakers)
  BY AnsweredTyped DEF ActiveInv, HearTypes
<1>3. inbox'[p] = inbox[p] /\ Answered = inbox[Manager] /\ Answered' = Tail(inbox[Manager])
  BY <1>1, ManagerAnswers
<1>4. m \in Mail /\ m.who \in Speakers
  BY <1>1, <1>2 DEF Mail, Speakers
<1>5. /\ Answers(Answered, p) = Join(Adds(m, p), Answers(Answered', p))
      /\ Answers(Answered', p) \in Seq(Speakers)
  BY ONLY <1>1, <1>2, <1>3, HearTail, p \in Members
<1> HIDE DEF m
<1>6. Adds(m, p) = IF m.who = p THEN <<>> ELSE <<m.who>>
  BY <1>1 DEF Adds, Word
<1>7. NotBy(p, thread') = Join(NotBy(p, thread), Adds(m, p)) /\ NotBy(p, thread) \in Seq(Speakers)
  BY ONLY <1>1, <1>2, <1>4, <1>6, NotByJoin
<1>8. Adds(m, p) \in Seq(Speakers)
  BY <1>4, WordType DEF Adds
<1>9. Join(NotBy(p, thread'), Answers(Answered', p)) = Join(NotBy(p, thread), Answers(Answered, p))
  BY ONLY <1>5, <1>7, <1>8, JoinRegroup
<1>10. Gets(p) = Said(p)
  BY DEF HearsAll
<1> QED BY ONLY <1>1, <1>3, <1>9, <1>10, HearNext, p \in Members DEF Gets, Said

\* the manager records and relays in one step
LEMMA ManagerHears ==
  ASSUME ActiveInv, HearInv, ManagerStep, intact, NEW p \in Members
  PROVE  Gets(p)' = Said(p)'
<1> USE DEF managerVars, memberVars, callerVars, recordVars
<1>1. HearTypes /\ StartIsAlone /\ HearsAll
  BY DEF HearInv
<1>2. SelectingHolds /\ RobinStands
  BY DEF ActiveInv
<1>3. CASE StartRefused \/ StartInvalid \/ HandleResume \/ HandleLog \/ SelectionFails \/ SelectionCancelled
  <2>1. thread' = thread /\ bus' = bus /\ (selecting \/ Head(inbox[Manager]).kind # "response")
    BY <1>3 DEF StartRefused, StartInvalid, HandleResume, HandleLog, SelectionFails, SelectionCancelled, Handling
  <2> QED BY <1>1, <2>1, ManagerQuiet
<1>4. ASSUME NEW pick \in Selections, SelectSpeakers(pick) PROVE Gets(p)' = Said(p)'
  <2>1. pick.chosen \in Seq(Members)
    BY <1>2, Chooses
  <2>2. bus' = bus \o Requests(pick.chosen) /\ thread' = thread /\ selecting
    BY <1>4 DEF SelectSpeakers, Requests
  <2>3. \E s \in Seq(Members) : bus' = bus \o Requests(s)
    BY ONLY <2>1, <2>2
  <2> QED BY <1>1, <2>2, <2>3, ManagerQuiet
<1>5. CASE \E o \in Conditions : HandleStart(o)
  BY <1>1, <1>5, StartHears
<1>6. CASE \E o \in Conditions : HandleResponse(o)
  BY <1>1, <1>6, ResponseHears
<1> QED BY <1>3, <1>4, <1>5, <1>6 DEF ManagerStep

\* a step of a participant and the lines of the others
LEMMA MemberAnswers ==
  ASSUME ActiveInv, NEW n \in Members, MemberStep(n)
  PROVE  /\ Answered' = Answered /\ thread' = thread
         /\ \A p \in Members \ {n} : inbox'[p] = inbox[p]
<1>1. inbox \in [Agents -> Seq(Mail)]
  BY DEF ActiveInv, Shapes
<1>2. (Finished(n) \/ UNCHANGED inbox) /\ UNCHANGED <<selecting, thread>>
  BY MemberShape
<1> QED BY <1>1, <1>2, Team DEF Finished, Answered

\* what the head of p's own line told it is in its buffer
LEMMA BufferHears ==
  ASSUME ActiveInv, HearTypes, OwnIsNotSent, HearsAll, intact, NEW n \in Members, MemberStep(n), BufferMessage(n),
         NEW p \in Members
  PROVE  Gets(p)' = Said(p)'
<1> USE Team
<1> DEFINE h == Head(inbox[n])
<1>1. /\ inbox[n] # <<>> /\ h.kind \in {"relay", "response"} /\ bus' = bus /\ heard' = heard
      /\ buffer' = [buffer EXCEPT ![n] = Append(buffer[n], h.who)] /\ Finished(n)
  BY DEF BufferMessage, Handling, memberVars
<1>2. inbox[n] \in Seq(Mail) /\ buffer \in [Members -> Seq(Speakers)] /\ inbox \in [Agents -> Seq(Mail)]
  BY DEF ActiveInv, Shapes, HearTypes
<1>3. Answered' = Answered /\ thread' = thread /\ \A q \in Members \ {n} : inbox'[q] = inbox[q]
  BY MemberAnswers
<1>4. Gets(p) = Said(p)
  BY DEF HearsAll
<1>5. CASE p # n
  <2>1. buffer'[p] = buffer[p] /\ inbox'[p] = inbox[p]
    BY <1>1, <1>2, <1>3, <1>5
  <2> QED BY <1>1, <1>3, <1>4, <2>1, HearQuiet
<1>6. CASE p = n
  <2>1. h \in Mail /\ h = inbox[n][1] /\ 1 \in DOMAIN inbox[n]
    BY <1>1, <1>2
  <2>2. h.who # n /\ h.who \in Speakers
    <3>1. h.kind = "response" => h.who # n
      BY <2>1 DEF OwnIsNotSent
    <3>2. h.kind = "relay" => h.who \in {User, Manager}
      BY <2>1 DEF Mail
    <3>3. h.who \in Speakers
      BY <2>1 DEF Mail, Speakers
    <3> HIDE DEF h
    <3> QED BY <1>1, <3>1, <3>2, <3>3
  <2>3. buffer'[n] = Append(buffer[n], h.who) /\ inbox'[n] = Tail(inbox[n])
    BY <1>1, <1>2 DEF Finished
  <2>4. Told(inbox[n], n) = Join(Tells(h, n), Told(inbox'[n], n)) /\ Told(inbox'[n], n) \in Seq(Speakers)
    BY ONLY <1>1, <1>2, <2>3, HearTail, n \in Members
  <2> HIDE DEF h
  <2>5. Tells(h, n) = <<h.who>> /\ <<h.who>> \in Seq(Speakers)
    BY <1>1, <2>2 DEF Tells, Word
  <2>6. heard[n] \in Seq(Speakers) /\ buffer[n] \in Seq(Speakers)
    BY HearParts
  <2>7. buffer'[n] = Join(buffer[n], <<h.who>>)
    BY ONLY <2>2, <2>3, <2>6, AppendIsConcat DEF Join
  <2>8. Join(Join(heard'[n], buffer'[n]), Told(inbox'[n], n)) = Join(Join(heard[n], buffer[n]), Told(inbox[n], n))
    <3> DEFINE x == heard[n]
               y == buffer[n]
               z == <<h.who>>
               w == Told(inbox'[n], n)
    <3>1. x \in Seq(Speakers) /\ y \in Seq(Speakers) /\ z \in Seq(Speakers) /\ w \in Seq(Speakers)
      BY ONLY <2>4, <2>5, <2>6
    <3> HIDE DEF x, y, z, w
    <3>2. Join(Join(x, y), Join(z, w)) = Join(Join(x, Join(y, z)), w)
      BY ONLY <3>1, JoinMiddle
    <3> QED BY ONLY <1>1, <2>4, <2>5, <2>7, <3>2 DEF x, y, z, w
  <2>9. NotBy(n, thread') = NotBy(n, thread)
    BY <1>3
  <2> QED BY ONLY <1>1, <1>3, <1>4, <1>6, <2>8, <2>9, HearNext, p \in Members DEF Gets, Said
<1> QED BY <1>5, <1>6

\* the buffer is taken and the response joins the queue
LEMMA PublishHears ==
  ASSUME ActiveInv, HearTypes, HearsAll, intact, NEW n \in Members, MemberStep(n),
         NEW target \in Targets, PublishResponse(n, target), NEW p \in Members
  PROVE  Gets(p)' = Said(p)'
<1> USE Team
<1> DEFINE e == Passing("response", n, target)
<1>1. /\ work[n] # "idle" /\ heard' = [heard EXCEPT ![n] = heard[n] \o buffer[n]]
      /\ buffer' = [buffer EXCEPT ![n] = <<>>] /\ bus' = Append(bus, e) /\ Finished(n)
  BY DEF PublishResponse
<1>2. /\ inbox \in [Agents -> Seq(Mail)] /\ bus \in Seq(Mail)
      /\ heard \in [Members -> Seq(Speakers)] /\ buffer \in [Members -> Seq(Speakers)]
  BY DEF ActiveInv, Shapes, HearTypes
<1>3. Answered' = Answered /\ thread' = thread /\ \A q \in Members \ {n} : inbox'[q] = inbox[q]
  BY MemberAnswers
<1>4. e \in Mail /\ e.kind = "response"
  BY TeamAssumption DEF Passing, Mail, Targets
<1> HIDE DEF e
<1>5. Tells(e, p) = Adds(e, p)
  BY <1>4 DEF Tells, Adds, Word
<1>6. /\ Told(bus', p) = Join(Told(bus, p), Adds(e, p)) /\ Answers(bus', p) = Join(Answers(bus, p), Adds(e, p))
      /\ Adds(e, p) \in Seq(Speakers)
  BY ONLY <1>1, <1>2, <1>4, <1>5, HearAppend, p \in Members
<1>7. Told(inbox'[p], p) = Told(inbox[p], p)
  <2>1. CASE p # n
    BY <1>3, <2>1
  <2>2. CASE p = n
    <3>1. inbox'[p] = Tail(inbox[p]) /\ inbox[p] \in Seq(Mail)
      BY <1>1, <1>2, <2>2 DEF Finished
    <3>2. inbox[p] # <<>> /\ Head(inbox[p]).kind \notin {"relay", "response"}
      BY <1>1, <2>2 DEF ActiveInv, WorkIsAsked
    <3> QED BY ONLY <3>1, <3>2, TellsNothingFirst, p \in Members DEF Told
  <2> QED BY <2>1, <2>2
<1>8. Join(heard'[p], buffer'[p]) = Join(heard[p], buffer[p])
  <2>1. CASE p # n
    BY <1>1, <1>2, <2>1
  <2>2. CASE p = n
    <3>1. heard'[p] = Join(heard[p], buffer[p]) /\ buffer'[p] = <<>>
      BY <1>1, <1>2, <2>2 DEF Join
    <3>2. Join(heard[p], buffer[p]) \in Seq(Speakers)
      BY HearParts
    <3> QED BY ONLY <3>1, <3>2, JoinEmpty
  <2> QED BY <2>1, <2>2
<1>9. Gets(p) = Said(p) /\ NotBy(p, thread') = NotBy(p, thread)
  BY <1>3 DEF HearsAll
<1>10. Gets(p)' = Join(Gets(p), Adds(e, p)) /\ Said(p)' = Join(Said(p), Adds(e, p))
  <2> DEFINE x == Join(Join(heard[p], buffer[p]), Told(inbox[p], p))
             y == Join(NotBy(p, thread), Answers(Answered, p))
             b == Told(bus, p)
             c == Answers(bus, p)
             w == Adds(e, p)
  <2>1. x \in Seq(Speakers) /\ y \in Seq(Speakers) /\ b \in Seq(Speakers) /\ c \in Seq(Speakers) /\ w \in Seq(Speakers)
    BY <1>6, HearParts, JoinType
  <2>2. Gets(p)' = Join(x, Join(b, w)) /\ Said(p)' = Join(y, Join(c, w)) /\ Gets(p) = Join(x, b) /\ Said(p) = Join(y, c)
    BY ONLY <1>3, <1>6, <1>7, <1>8, <1>9, HearNext, p \in Members DEF Gets, Said
  <2> HIDE DEF x, y, b, c, w
  <2>3. Join(Join(x, b), w) = Join(x, Join(b, w)) /\ Join(Join(y, c), w) = Join(y, Join(c, w))
    BY ONLY <2>1, JoinRegroup
  <2>4. Gets(p)' = Join(Gets(p), w) /\ Said(p)' = Join(Said(p), w)
    BY ONLY <2>2, <2>3
  <2> QED BY ONLY <2>4 DEF w
<1> QED BY ONLY <1>9, <1>10

\* a participant reads its buffer as it answers
LEMMA MemberHears ==
  ASSUME ActiveInv, HearInv, NEW n \in Members, MemberStep(n), intact, intact', NEW p \in Members
  PROVE  Gets(p)' = Said(p)'
<1> USE DEF managerVars, memberVars, callerVars
<1>1. HearTypes /\ OwnIsNotSent /\ HearsAll /\ OffIsEmpty /\ FaultsShow
  BY DEF HearInv
<1>2. Gets(p) = Said(p)
  BY <1>1 DEF HearsAll
<1>3. Answered' = Answered /\ thread' = thread
  BY MemberAnswers
<1>4. CASE BufferMessage(n)
  BY <1>1, <1>4, BufferHears
<1>5. CASE CallAgent(n)
  BY <1>2, <1>3, <1>5, HearQuiet DEF CallAgent
<1>6. CASE LogResponse(n)
  <2>1. bus' = Append(bus, Envelope("log", n)) /\ UNCHANGED <<inbox, heard, buffer>>
    BY <1>6 DEF LogResponse
  <2>2. Envelope("log", n) \in Mail /\ Envelope("log", n).kind \notin {"relay", "response"} /\ bus \in Seq(Mail)
    BY DEF Envelope, Passing, Mail, ActiveInv, Shapes
  <2>3. Told(bus', p) = Told(bus, p) /\ Answers(bus', p) = Answers(bus, p)
    BY <2>1, <2>2, TellsNothing DEF Told, Answers
  <2> QED BY <1>2, <1>3, <2>1, <2>3, HearQuiet
<1>7. ASSUME NEW target \in Targets, PublishResponse(n, target) PROVE Gets(p)' = Said(p)'
  BY <1>1, <1>7, PublishHears
<1>8. ~AgentFails(n)
  BY DEF AgentFails
<1>9. ~AgentCutOff(n)
  <2>1. caller # "idle"
    BY <1>1, WorkNeedsRuntime
  <2> QED BY <1>1, <2>1 DEF AgentCutOff, FaultsShow
<1> QED BY <1>4, <1>5, <1>6, <1>7, <1>8, <1>9 DEF MemberStep

\* HearsAll, action by action
LEMMA HearsAllNext == ASSUME ActiveInv, HearInv, HearTypes', [Next]_vars PROVE HearsAll'
<1> USE Team DEF managerVars, memberVars, callerVars, recordVars
<1> SUFFICES ASSUME intact', NEW p \in Members PROVE Gets(p)' = Said(p)'
  BY DEF HearsAll
<1>1. HearTypes /\ OffIsEmpty /\ HearsAll /\ SavedHears /\ SelectingHolds /\ inbox[p] \in Seq(Mail) /\ bus \in Seq(Mail)
  BY DEF HearInv, ActiveInv, Shapes
<1>2. intact => Gets(p) = Said(p)
  BY <1>1 DEF HearsAll
<1>3. CASE intact /\ UNCHANGED <<bus, inbox, selecting, thread, heard, buffer>>
  <2>1. Answered' = Answered
    BY <1>3 DEF Answered
  <2> QED BY <1>2, <1>3, <2>1, HearQuiet
<1>4. CASE RuntimeStep
  <2>1. CASE Deliver
    <3>1. intact
      BY <2>1 DEF Deliver
    <3> QED BY <1>1, <2>1, <3>1, DeliverHears
  <2>2. CASE DeliverError
    <3>1. bus # <<>> /\ Head(bus).kind \notin {"relay", "response"} /\ bus' = Tail(bus) /\ intact
          /\ UNCHANGED <<inbox, selecting, thread, heard, buffer>>
      BY <2>2 DEF DeliverError
    <3>2. Told(bus', p) = Told(bus, p) /\ Answers(bus', p) = Answers(bus, p)
      BY <1>1, <3>1, TellsNothingFirst DEF Told, Answers
    <3>3. Answered' = Answered
      BY <3>1 DEF Answered
    <3> QED BY <1>2, <3>1, <3>2, <3>3, HearQuiet
  <2>3. CASE RaiseInLoop
    BY <2>3 DEF RaiseInLoop
  <2>4. CASE StopWhenIdle
    BY <1>3, <2>4 DEF StopWhenIdle
  <2> QED BY <1>4, <2>1, <2>2, <2>3, <2>4 DEF RuntimeStep
<1>5. CASE ManagerStep
  <2>1. intact
    BY <1>5, ManagerShape
  <2> QED BY <1>5, <2>1, ManagerHears
<1>6. ASSUME NEW n \in Members, MemberStep(n) PROVE Gets(p)' = Said(p)'
  <2>1. intact
    BY <1>6 DEF MemberStep, BufferMessage, CallAgent, LogResponse, AgentFails, AgentCutOff, PublishResponse
  <2> QED BY <1>6, <2>1, MemberHears
<1>7. CASE Cancel \/ RunStreamDoomed
  BY <1>7 DEF Cancel, RunStreamDoomed
<1>8. CASE CallerStep \/ SaveState \/ UNCHANGED vars
  BY <1>3, <1>8 DEF CallerStep, StartAnswered, YieldMessage, EndRun, SaveState, vars
<1>9. ASSUME NEW task \in Tasks, RunStream(task) PROVE Gets(p)' = Said(p)'
  <2>1. caller = "idle" /\ bus' = <<task>> /\ UNCHANGED <<inbox, selecting, thread, heard, buffer, intact>>
    BY <1>9 DEF RunStream
  <2>2. bus = <<>>
    BY <1>1, <2>1 DEF OffIsEmpty
  <2>3. task \in Mail /\ task.kind \notin {"relay", "response"}
    BY TeamAssumption DEF Tasks, Targets, Envelope, Passing, Mail
  <2>4. bus' = Append(bus, task)
    BY <2>1, <2>2
  <2>5. Told(bus', p) = Told(bus, p) /\ Answers(bus', p) = Answers(bus, p)
    BY <1>1, <2>3, <2>4, TellsNothing DEF Told, Answers
  <2>6. Answered' = Answered
    BY <2>1 DEF Answered
  <2> QED BY <1>2, <2>1, <2>5, <2>6, HearQuiet
<1>10. CASE Reset \/ LoadState
  <2>1. caller = "idle" /\ UNCHANGED <<bus, inbox, selecting>>
    BY <1>10 DEF Reset, LoadState
  <2>2. bus' = <<>> /\ inbox'[p] = <<>> /\ Answered' = <<>>
    BY <1>1, <2>1 DEF OffIsEmpty, SelectingHolds, Answered
  <2>3. heard'[p] \o buffer'[p] = NotBy(p, thread')
    <3>1. CASE Reset
      <4>1. heard'[p] = <<>> /\ buffer'[p] = <<>> /\ thread' = <<>>
        BY <3>1 DEF Reset
      <4>2. <<>> \o <<>> = <<>>
        OBVIOUS
      <4> QED BY ONLY <4>1, <4>2, NotByEmpty
    <3>2. CASE LoadState
      <4>1. /\ saved # <<>> /\ thread' = Head(saved).thread /\ heard' = Head(saved).heard
            /\ buffer' = Head(saved).buffer /\ Head(saved).intact
        BY <3>2 DEF LoadState
      <4> QED BY <1>1, <4>1 DEF SavedHears
    <3> QED BY <1>10, <3>1, <3>2
  <2> QED BY <2>2, <2>3, HearRests
<1> QED BY <1>4, <1>5, <1>6, <1>7, <1>8, <1>9, <1>10 DEF Next

\* HearInv holds at the start and is kept
LEMMA HearInit == Init => HearInv
<1> SUFFICES ASSUME Init PROVE HearInv
  OBVIOUS
<1> USE Team
<1>1. /\ bus = <<>> /\ inbox = [a \in Agents |-> <<>>] /\ rt = "off" /\ ~selecting /\ thread = <<>>
      /\ buffer = [p \in Members |-> <<>>] /\ heard = [p \in Members |-> <<>>]
      /\ caller = "idle" /\ ~cancelled /\ saved = <<>>
  BY DEF Init
<1>2. HearTypes /\ OffIsEmpty /\ FaultsShow /\ StartIsAlone /\ OwnIsNotSent /\ SavedHears
  BY <1>1 DEF HearTypes, OffIsEmpty, FaultsShow, StartIsAlone, OwnIsNotSent, SavedHears
<1>3. ASSUME NEW p \in Members PROVE Gets(p) = Said(p)
  <2>1. /\ heard[p] = <<>> /\ buffer[p] = <<>> /\ inbox[p] = <<>> /\ Answered = <<>> /\ NotBy(p, thread) = <<>>
    BY <1>1, NotByEmpty DEF Answered
  <2>2. Told(<<>>, p) = <<>> /\ Answers(<<>>, p) = <<>> /\ Join(<<>>, <<>>) = <<>>
    BY WordsEmpty DEF Told, Answers, Join
  <2> QED BY ONLY <1>1, <2>1, <2>2 DEF Gets, Said
<1> QED BY <1>2, <1>3 DEF HearInv, HearsAll

LEMMA HearNextInv == ActiveInv /\ HearInv /\ [Next]_vars => HearInv'
BY HearTypesNext, OffIsEmptyNext, FaultsShowNext, StartIsAloneNext, OwnIsNotSentNext, SavedHearsNext, HearsAllNext
   DEF HearInv

(* Whatever the style of the team, and across runs, resets and loaded      *)
(* states: unless a run of this thread failed or was cancelled, between    *)
(* runs every participant has read, or keeps in its buffer, exactly what   *)
(* the others said in the thread of the manager, in that order.  The       *)
(* manager writes the thread in handle_start and handle_agent_response,    *)
(* the participants their buffers in theirs, each from its own copy of a   *)
(* publication: the records agree although only the queue orders them.     *)
THEOREM EveryoneIsTold == Spec => []EveryoneHears
<1>1. ActiveInv /\ HearInv => EveryoneHears
  BY HearsAtRest DEF EveryoneHears, HearInv
<1> QED BY <1>1, ActiveInit, ActiveNext, HearInit, HearNextInv, PTL DEF Spec

-----------------------------------------------------------------------------
(* The turns under way, step by step. *)

\* the turns of p under way, before and after a step
LEMMA Tally ==
  ASSUME ActiveInv, ActiveInv', NEW p \in Members
  PROVE  /\ Outstanding(p) = Pending(bus, "request", p) + Pending(inbox[p], "request", p)
                             + Pending(bus, "response", p) + Pending(Answered, "response", p)
         /\ Outstanding(p)' = Pending(bus', "request", p) + Pending(inbox'[p], "request", p)
                              + Pending(bus', "response", p) + Pending(Answered', "response", p)
         /\ Pending(bus, "request", p) \in Nat /\ Pending(inbox[p], "request", p) \in Nat
         /\ Pending(bus, "response", p) \in Nat /\ Pending(Answered, "response", p) \in Nat
         /\ Pending(bus', "request", p) \in Nat /\ Pending(inbox'[p], "request", p) \in Nat
         /\ Pending(bus', "response", p) \in Nat /\ Pending(Answered', "response", p) \in Nat
         /\ Outstanding(p) \in Nat /\ Outstanding(p)' \in Nat
<1>1. bus \in Seq(Mail) /\ inbox[p] \in Seq(Mail) /\ Answered \in Seq(Mail)
  BY AnsweredTyped DEF ActiveInv, Shapes
<1>2. bus' \in Seq(Mail) /\ inbox'[p] \in Seq(Mail) /\ Answered' \in Seq(Mail)
  BY Team, OutstandingNext DEF ActiveInv, Shapes
<1>3. /\ Pending(bus, "request", p) \in Nat /\ Pending(inbox[p], "request", p) \in Nat
      /\ Pending(bus, "response", p) \in Nat /\ Pending(Answered, "response", p) \in Nat
  BY <1>1, HitsFinite
<1>4. /\ Pending(bus', "request", p) \in Nat /\ Pending(inbox'[p], "request", p) \in Nat
      /\ Pending(bus', "response", p) \in Nat /\ Pending(Answered', "response", p) \in Nat
  BY <1>2, HitsFinite
<1>5. Outstanding(p) = Pending(bus, "request", p) + Pending(inbox[p], "request", p)
                       + Pending(bus, "response", p) + Pending(Answered, "response", p)
  BY DEF Outstanding, Answered
<1>6. Outstanding(p)' = Pending(bus', "request", p) + Pending(inbox'[p], "request", p)
                        + Pending(bus', "response", p) + Pending(Answered', "response", p)
  BY DEF Outstanding, Answered, Pending
<1>7. Outstanding(p) \in Nat /\ Outstanding(p)' \in Nat
  BY ONLY <1>3, <1>4, <1>5, <1>6
<1> QED BY ONLY <1>3, <1>4, <1>5, <1>6, <1>7

\* a delivery keeps the turns under way
LEMMA DeliverTally ==
  ASSUME ActiveInv, ActiveInv', Deliver, NEW p \in Members
  PROVE  Outstanding(p)' = Outstanding(p)
<1> USE Team
<1> DEFINE e == Head(bus)
           hit(k) == IF IsHit(e, k, p) THEN 1 ELSE 0
<1>1. /\ inbox \in [Agents -> Seq(Mail)] /\ bus \in Seq(Mail) /\ bus # <<>>
      /\ bus' = Tail(bus) /\ UNCHANGED selecting
      /\ \A a \in Agents : inbox'[a] = IF a \in Audience(e) THEN Append(inbox[a], e) ELSE inbox[a]
  BY DEF ActiveInv, Shapes, Deliver, managerVars
<1>2. e \in Mail /\ e.kind # "error"
  BY <1>1 DEF Deliver
<1>3. /\ Pending(bus, "request", p) = Pending(bus', "request", p) + hit("request")
      /\ Pending(bus, "response", p) = Pending(bus', "response", p) + hit("response")
  BY <1>1, PendingTail
<1> HIDE DEF e
<1>4. /\ e.kind = "request" => Audience(e) = {e.who}
      /\ e.kind = "response" => Audience(e) = Agents \ {e.who} /\ e.who \in Members
  BY <1>2, MailKinds DEF Audience
<1>5. /\ Pending(inbox[p], "request", p) \in Nat /\ Pending(Answered, "response", p) \in Nat
      /\ inbox[p] \in Seq(Mail) /\ Answered \in Seq(Mail)
  BY Tally, AnsweredTyped DEF ActiveInv
<1>6. Pending(inbox'[p], "request", p) = Pending(inbox[p], "request", p) + hit("request")
  <2>1. CASE p \in Audience(e)
    <3>1. inbox'[p] = Append(inbox[p], e)
      BY <1>1, <2>1
    <3> QED BY <1>2, <1>5, <3>1, PendingAppend
  <2>2. CASE p \notin Audience(e)
    <3>1. ~IsHit(e, "request", p) /\ inbox'[p] = inbox[p]
      BY <1>1, <1>4, <2>2 DEF IsHit
    <3> QED BY <1>5, <3>1
  <2> QED BY <2>1, <2>2
<1>7. Pending(Answered', "response", p) = Pending(Answered, "response", p) + hit("response")
  <2>1. CASE Manager \in Audience(e)
    <3>1. inbox'[Manager] = Append(inbox[Manager], e) /\ inbox[Manager] \in Seq(Mail)
      BY <1>1, <2>1
    <3>2. selecting => inbox[Manager] # <<>>
      BY DEF ActiveInv, SelectingHolds
    <3>3. selecting => Tail(Append(inbox[Manager], e)) = Append(Tail(inbox[Manager]), e)
      BY <1>2, <3>1, <3>2, AppendLast
    <3>4. Answered' = Append(Answered, e)
      BY <1>1, <3>1, <3>3 DEF Answered
    <3> QED BY <1>2, <1>5, <3>4, PendingAppend
  <2>2. CASE Manager \notin Audience(e)
    <3>1. Answered' = Answered /\ ~IsHit(e, "response", p)
      BY <1>1, <1>4, <2>2 DEF Answered, IsHit
    <3> QED BY <1>5, <3>1
  <2> QED BY <2>1, <2>2
<1>8. hit("request") \in Nat /\ hit("response") \in Nat
  OBVIOUS
<1> HIDE DEF hit
<1> QED BY ONLY <1>3, <1>6, <1>7, <1>8, Tally, ActiveInv, ActiveInv', p \in Members

\* a step that leaves the messages under way alone
LEMMA SameTally ==
  ASSUME ActiveInv, ActiveInv', UNCHANGED <<bus, inbox, selecting>>, NEW p \in Members
  PROVE  Outstanding(p)' = Outstanding(p)
<1>1. Answered' = Answered
  BY DEF Answered
<1> QED BY <1>1, Tally

\* empty queues hold no turn
LEMMA EmptyTally ==
  ASSUME ActiveInv, ActiveInv', NEW p \in Members
  PROVE  /\ (bus = <<>> /\ inbox[p] = <<>> /\ Answered = <<>>) => Outstanding(p) = 0
         /\ (bus' = <<>> /\ inbox'[p] = <<>> /\ Answered' = <<>>) => Outstanding(p)' = 0
<1>1. \A k : Pending(<<>>, k, p) = 0
  BY PendingEmpty
<1>2. /\ Outstanding(p) = Pending(bus, "request", p) + Pending(inbox[p], "request", p)
                             + Pending(bus, "response", p) + Pending(Answered, "response", p)
      /\ Outstanding(p)' = Pending(bus', "request", p) + Pending(inbox'[p], "request", p)
                              + Pending(bus', "response", p) + Pending(Answered', "response", p)
  BY Tally
<1> QED BY ONLY <1>1, <1>2

\* the runtime starts and ends no turn
LEMMA RuntimeTally ==
  ASSUME ActiveInv, ActiveInv', RuntimeStep, NEW p \in Members
  PROVE  Outstanding(p)' <= Outstanding(p) /\ (intact' => Outstanding(p)' = Outstanding(p))
<1> USE DEF managerVars
<1>1. Outstanding(p) \in Nat /\ Outstanding(p)' \in Nat
  BY Tally
<1>2. Outstanding(p)' = Outstanding(p) => Outstanding(p)' <= Outstanding(p)
  BY ONLY <1>1
<1>3. CASE Deliver
  BY <1>2, <1>3, DeliverTally
<1>4. CASE DeliverError
  <2>1. /\ bus # <<>> /\ Head(bus).kind = "error" /\ bus' = Tail(bus) /\ UNCHANGED <<inbox, selecting>>
        /\ bus \in Seq(Mail)
    BY <1>4 DEF DeliverError, ActiveInv, Shapes
  <2>2. ~IsHit(Head(bus), "request", p) /\ ~IsHit(Head(bus), "response", p)
    BY <2>1 DEF IsHit
  <2>3. /\ Pending(bus, "request", p) = Pending(bus', "request", p) + 0
        /\ Pending(bus, "response", p) = Pending(bus', "response", p) + 0
    BY <2>1, <2>2, PendingTail
  <2>4. Answered' = Answered
    BY <2>1 DEF Answered
  <2>5. Outstanding(p)' = Outstanding(p)
    BY ONLY <2>1, <2>3, <2>4, Tally, ActiveInv, ActiveInv', p \in Members
  <2> QED BY <1>2, <2>5
<1>5. CASE RaiseInLoop
  <2>1. bus' = <<>> /\ UNCHANGED <<inbox, selecting>> /\ ~intact'
    BY <1>5 DEF RaiseInLoop
  <2>2. Pending(bus', "request", p) = 0 /\ Pending(bus', "response", p) = 0
    BY <2>1, PendingEmpty
  <2>3. Answered' = Answered
    BY <2>1 DEF Answered
  <2>4. Outstanding(p)' <= Outstanding(p)
    BY ONLY <2>1, <2>2, <2>3, Tally, ActiveInv, ActiveInv', p \in Members
  <2> QED BY <2>1, <2>4
<1>6. CASE StopWhenIdle
  BY <1>2, <1>6, SameTally DEF StopWhenIdle
<1> QED BY <1>3, <1>4, <1>5, <1>6 DEF RuntimeStep

\* a handler of the manager takes the response it holds off the count
LEMMA ManagerTally ==
  ASSUME ActiveInv, ActiveInv', ManagerStep, NEW p \in Members
  PROVE  Pending(Answered, "response", p) = Pending(Answered', "response", p)
            + IF ~selecting /\ IsHit(Head(inbox[Manager]), "response", p) THEN 1 ELSE 0
<1>1. inbox[Manager] # <<>> /\ inbox[Manager] \in Seq(Mail)
  BY ManagerShape, AnsweredTyped DEF ActiveInv
<1>2. Answered' = IF selecting THEN Answered ELSE Tail(inbox[Manager])
  BY ManagerAnswers
<1>3. ~selecting => Answered = inbox[Manager]
  BY ManagerAnswers
<1>4. Pending(Answered, "response", p) \in Nat /\ Pending(Answered', "response", p) \in Nat
  BY Tally
<1>5. CASE selecting
  BY ONLY <1>2, <1>4, <1>5
<1>6. CASE ~selecting
  <2>1. Pending(inbox[Manager], "response", p) = Pending(Tail(inbox[Manager]), "response", p)
           + IF IsHit(Head(inbox[Manager]), "response", p) THEN 1 ELSE 0
    BY <1>1, PendingTail
  <2> QED BY ONLY <1>2, <1>3, <1>6, <2>1
<1> QED BY <1>5, <1>6

\* its handlers record a turn, and its selection asks for new ones
LEMMA HandlerTally ==
  ASSUME ActiveInv, ActiveInv', ManagerStep, bus' = bus \/ bus' = Append(bus, Envelope("relay", User)),
         NEW p \in Members
  PROVE  Outstanding(p) = Outstanding(p)'
            + IF ~selecting /\ IsHit(Head(inbox[Manager]), "response", p) THEN 1 ELSE 0
<1> DEFINE hit == IF ~selecting /\ IsHit(Head(inbox[Manager]), "response", p) THEN 1 ELSE 0
<1>1. inbox'[p] = inbox[p]
  BY ManagerAnswers
<1>2. /\ Pending(bus', "request", p) = Pending(bus, "request", p)
      /\ Pending(bus', "response", p) = Pending(bus, "response", p)
  BY RelayIsNeither DEF ActiveInv, Shapes
<1>3. Pending(Answered, "response", p) = Pending(Answered', "response", p) + hit /\ hit \in Nat
  BY ManagerTally
<1> HIDE DEF hit
<1>4. Outstanding(p) = Outstanding(p)' + hit
  BY ONLY <1>1, <1>2, <1>3, Tally, ActiveInv, ActiveInv', p \in Members
<1> QED BY <1>4 DEF hit

\* the selection asks the chosen, each once
LEMMA SelectTally ==
  ASSUME ActiveInv, ActiveInv', NEW pick \in Selections, SelectSpeakers(pick), NEW p \in Members
  PROVE  Outstanding(p)' = Outstanding(p) + IF p \in ToSet(pick.chosen) THEN 1 ELSE 0
<1> DEFINE s == pick.chosen
           r == bus'
           more == IF p \in ToSet(s) THEN 1 ELSE 0
<1>1. ManagerStep
  BY DEF ManagerStep
<1>2. selecting /\ r = bus \o Requests(s) /\ bus \in Seq(Mail)
  BY DEF SelectSpeakers, Requests, ActiveInv, Shapes
<1>3. s \in Seq(Members) /\ IsInjective(s)
  BY Chooses DEF ActiveInv
<1>4. inbox'[p] = inbox[p] /\ Answered' = Answered
  BY <1>1, <1>2, ManagerAnswers
<1>5. more \in Nat
  OBVIOUS
<1> HIDE DEF s, r
<1>6. /\ Pending(r, "request", p) = Pending(bus, "request", p) + more
      /\ Pending(r, "response", p) = Pending(bus, "response", p)
  BY ONLY <1>2, <1>3, PendingRequests
<1> HIDE DEF more
<1>7. Outstanding(p)' = Outstanding(p) + more
  BY ONLY <1>4, <1>5, <1>6, Tally, ActiveInv, ActiveInv', p \in Members DEF r
<1> QED BY <1>7 DEF more, s

\* a participant answers the request it holds, or drops it
LEMMA MemberTally ==
  ASSUME ActiveInv, ActiveInv', HearInv, NEW n \in Members, MemberStep(n), NEW p \in Members
  PROVE  Outstanding(p)' <= Outstanding(p) /\ (intact' => Outstanding(p)' = Outstanding(p))
<1> USE Team DEF managerVars, memberVars, callerVars
<1> DEFINE asked == IF p = n /\ Head(inbox[n]).kind = "request" THEN 1 ELSE 0
<1>1. /\ inbox \in [Agents -> Seq(Mail)] /\ bus \in Seq(Mail) /\ inbox[n] \in Seq(Mail)
  BY DEF ActiveInv, Shapes
<1>2. Answered' = Answered /\ inbox[n] # <<>> /\ \A q \in Members \ {n} : inbox'[q] = inbox[q]
  BY MemberAnswers, MemberShape
<1>3. Outstanding(p) \in Nat /\ Outstanding(p)' \in Nat /\ asked \in Nat
  BY Tally
<1>4. /\ Outstanding(p) = Pending(bus, "request", p) + Pending(inbox[p], "request", p)
                             + Pending(bus, "response", p) + Pending(Answered, "response", p)
       /\ Outstanding(p)' = Pending(bus', "request", p) + Pending(inbox'[p], "request", p)
                              + Pending(bus', "response", p) + Pending(Answered', "response", p)
       /\ Pending(bus, "request", p) \in Nat /\ Pending(bus, "response", p) \in Nat
       /\ Pending(inbox'[p], "request", p) \in Nat
       /\ Pending(Answered, "response", p) \in Nat /\ Answered' = Answered
  BY <1>2, Tally
<1>5. Outstanding(p)' = Outstanding(p) => Outstanding(p)' <= Outstanding(p)
  BY ONLY <1>3
<1>6. ASSUME Finished(n)
      PROVE  Pending(inbox[p], "request", p) = Pending(inbox'[p], "request", p) + asked
  <2>1. CASE p # n
    <3>1. inbox'[p] = inbox[p] /\ asked = 0 /\ Pending(inbox[p], "request", p) \in Nat
      BY <1>2, <2>1, Tally
    <3> QED BY ONLY <3>1
  <2>2. CASE p = n
    <3>1. inbox'[p] = Tail(inbox[p])
      BY <1>1, <1>6, <2>2 DEF Finished
    <3>2. IsHit(Head(inbox[p]), "request", p) <=> Head(inbox[p]).kind = "request"
      <4>1. Head(inbox[p]) = inbox[p][1] /\ 1 \in DOMAIN inbox[p]
        BY <1>1, <1>2, <2>2
      <4> QED BY <4>1 DEF IsHit, ActiveInv, RequestsAreOwn
    <3>3. Pending(inbox[p], "request", p) = Pending(Tail(inbox[p]), "request", p)
            + IF IsHit(Head(inbox[p]), "request", p) THEN 1 ELSE 0
      BY <1>1, <1>2, <2>2, PendingTail
    <3> QED BY ONLY <2>2, <3>1, <3>2, <3>3
  <2> QED BY <2>1, <2>2
<1>7. work[n] # "idle" => Head(inbox[n]).kind = "request"
  BY DEF ActiveInv, WorkIsAsked
<1>8. CASE BufferMessage(n)
  <2>1. Finished(n) /\ bus' = bus /\ asked = 0
    BY <1>8 DEF BufferMessage, Handling
  <2> HIDE DEF asked
  <2>2. Outstanding(p)' = Outstanding(p)
    BY ONLY <1>2, <1>6, <2>1, Tally, ActiveInv, ActiveInv', p \in Members
  <2> QED BY <1>5, <2>2
<1>9. CASE CallAgent(n)
  BY <1>5, <1>9, SameTally DEF CallAgent
<1>10. ASSUME NEW e \in Mail, bus' = Append(bus, e)
      PROVE  /\ Pending(bus', "request", p) = Pending(bus, "request", p) + IF IsHit(e, "request", p) THEN 1 ELSE 0
             /\ Pending(bus', "response", p) = Pending(bus, "response", p) + IF IsHit(e, "response", p) THEN 1 ELSE 0
  BY <1>1, <1>10, BusAppend
<1>11. CASE LogResponse(n)
  <2> DEFINE e == Envelope("log", n)
  <2>1. e \in Mail /\ ~IsHit(e, "request", p) /\ ~IsHit(e, "response", p)
    BY DEF Envelope, Passing, Mail, IsHit
  <2>2. bus' = Append(bus, e) /\ inbox' = inbox
    BY <1>11 DEF LogResponse
  <2> HIDE DEF e
  <2>3. /\ Pending(bus', "request", p) = Pending(bus, "request", p) + 0
        /\ Pending(bus', "response", p) = Pending(bus, "response", p) + 0
    BY <1>10, <2>1, <2>2
  <2>4. Outstanding(p)' = Outstanding(p)
    BY ONLY <1>2, <2>2, <2>3, Tally, ActiveInv, ActiveInv', p \in Members
  <2> QED BY <1>5, <2>4
<1>12. ASSUME NEW target \in Targets, PublishResponse(n, target) PROVE Outstanding(p)' = Outstanding(p)
  <2> DEFINE e == Passing("response", n, target)
  <2>1. e \in Mail /\ ~IsHit(e, "request", p) /\ (IsHit(e, "response", p) <=> p = n)
    BY TeamAssumption DEF Passing, Mail, Targets, IsHit
  <2>2. bus' = Append(bus, e) /\ Finished(n) /\ asked = IF p = n THEN 1 ELSE 0
    BY <1>7, <1>12 DEF PublishResponse
  <2> HIDE DEF e
  <2>3. /\ Pending(bus', "request", p) = Pending(bus, "request", p) + 0
        /\ Pending(bus', "response", p) = Pending(bus, "response", p) + asked
    BY <1>10, <2>1, <2>2
  <2> HIDE DEF asked
  <2> QED BY ONLY <1>3, <1>6, <1>4, <2>2, <2>3
<1>13. CASE AgentFails(n)
  <2> DEFINE e == Envelope("error", n)
  <2>1. e \in Mail /\ ~IsHit(e, "request", p) /\ ~IsHit(e, "response", p)
    BY DEF Envelope, Passing, Mail, IsHit
  <2>2. bus' = Append(bus, e) /\ Finished(n) /\ ~intact'
    BY <1>13 DEF AgentFails
  <2> HIDE DEF e
  <2>3. /\ Pending(bus', "request", p) = Pending(bus, "request", p) + 0
        /\ Pending(bus', "response", p) = Pending(bus, "response", p) + 0
    BY <1>10, <2>1, <2>2
  <2> HIDE DEF asked
  <2>4. Outstanding(p)' <= Outstanding(p)
    BY ONLY <1>3, <1>6, <1>4, <2>2, <2>3
  <2> QED BY <2>2, <2>4
<1>14. CASE AgentCutOff(n)
  <2>1. bus' = bus /\ Finished(n) /\ ~intact'
    BY <1>14 DEF AgentCutOff
  <2> HIDE DEF asked
  <2>2. Outstanding(p)' <= Outstanding(p)
    BY ONLY <1>3, <1>6, <1>4, <2>1
  <2> QED BY <2>1, <2>2
<1> QED BY <1>5, <1>8, <1>9, <1>11, <1>12, <1>13, <1>14 DEF MemberStep

-----------------------------------------------------------------------------
(* Whose turn is next. *)

\* the participant whose turn follows k turns of a round robin
Nth(k) == Roster[(k % Len(Roster)) + 1]

\* the last to have spoken
Latest(t) == IF t = <<>> THEN NoOne ELSE t[Len(t)]

\* the turns t in the order of the style, when the manager remembers s
Ordered(st, t, s) ==
    /\ st = "round_robin" => (\A i \in DOMAIN t : t[i] = Nth(i - 1)) /\ s = Nth(Len(t))
    /\ (st = "selector" /\ Len(Roster) = 2) => (\A i \in 2..Len(t) : t[i] # t[i - 1]) /\ s = Latest(t)

\* one further round the roster
LEMMA NextPlace ==
  ASSUME NEW k \in Nat, NEW n \in Nat \ {0}
  PROVE  (((k % n) + 1) % n) = ((k + 1) % n)
<1> DEFINE r == k % n
           d == k \div n
<1>1. r \in 0..(n - 1) /\ d \in Int /\ k = n * d + r
  OBVIOUS
<1> HIDE DEF r, d
<1>2. CASE r + 1 < n
  <2>1. (r + 1) % n = r + 1
    BY <1>1, <1>2
  <2>2. k + 1 = n * d + (r + 1)
    BY <1>1
  <2>3. (k + 1) % n = r + 1
    BY <1>1, <1>2, <2>2
  <2> QED BY <2>1, <2>3 DEF r
<1>3. CASE r + 1 = n
  <2>1. (r + 1) % n = 0
    BY <1>3
  <2>2. k + 1 = n * (d + 1)
    BY <1>1, <1>3
  <2>3. (k + 1) % n = 0
    BY <1>1, <2>2
  <2> QED BY <2>1, <2>3 DEF r
<1> QED BY <1>1, <1>2, <1>3

\* the round robin asks the next
LEMMA RobinSteps ==
  ASSUME NEW k \in Nat
  PROVE  Nth(k) \in Members /\ After(Nth(k)) = Nth(k + 1)
<1> DEFINE n == Len(Roster)
           j == (k % n) + 1
           i == CHOOSE i \in DOMAIN Roster : Roster[i] = Nth(k)
<1>1. n \in Nat \ {0} /\ DOMAIN Roster = 1..n /\ IsInjective(Roster) /\ \A l \in 1..n : Roster[l] \in Members
  BY TeamAssumption
<1>2. j \in 1..n
  BY <1>1
<1>3. Nth(k) = Roster[j] /\ Nth(k) \in Members
  BY <1>1, <1>2 DEF Nth
<1>4. i \in 1..n /\ Roster[i] = Roster[j]
  BY <1>1, <1>2, <1>3
<1>5. i = j
  BY <1>1, <1>2, <1>4 DEF IsInjective
<1>6. After(Nth(k)) = Roster[(i % n) + 1]
  BY DEF After
<1> HIDE DEF i
<1>7. (((k % n) + 1) % n) = ((k + 1) % n)
  BY <1>1, NextPlace
<1> QED BY <1>3, <1>5, <1>6, <1>7 DEF Nth

\* of two participants one is left when the other spoke last
LEMMA OtherOne ==
  ASSUME Len(Roster) = 2, NEW x, NEW p \in Named(Members \ {x})
  PROVE  p \in Members /\ p # x
<1>1. Roster \in [1..2 -> Members] /\ DOMAIN Roster = 1..2 /\ IsInjective(Roster)
  BY TeamAssumption
<1>2. Members = {Roster[1], Roster[2]} /\ Roster[1] # Roster[2]
  <2>1. Members = {Roster[i] : i \in 1..2}
    BY <1>1 DEF Members, ToSet
  <2>2. 1..2 = {1, 2}
    OBVIOUS
  <2> QED BY <1>1, <2>1, <2>2 DEF IsInjective
<1>3. p \in Members
  BY DEF Named
<1>4. CASE x \in Members
  <2>1. \E y : Members \ {x} = {y}
    BY <1>2, <1>4
  <2>2. Cardinality(Members \ {x}) = 1
    BY <2>1, FS_Singleton
  <2> QED BY <2>2 DEF Named
<1>5. CASE x \notin Members
  BY <1>3, <1>5
<1> QED BY <1>3, <1>4, <1>5

\* select_speaker goes on in the order of the style
LEMMA SelectsInOrder ==
  ASSUME RobinStands, NEW pick \in Selections, style # "parallel"
  PROVE  \E p \in Members : /\ pick.chosen = <<p>>
                            /\ style = "swarm" => handoff \in {p, NoOne}
                            /\ \A t \in Seq(Speakers) : Ordered(style, t, speaker) => Ordered(style, Append(t, p), pick.speaker)
<1>1. style \in {"round_robin", "swarm", "selector", "function", "candidates"}
  BY TeamAssumption DEF RobinStands
<1>2. \A C \in SUBSET Members : Named(C) \subseteq Members
  BY DEF Named
<1>3. CASE style = "round_robin"
  <2>1. speaker \in Members /\ pick = [chosen |-> <<speaker>>, speaker |-> After(speaker)]
    BY <1>3 DEF RobinStands, Selections
  <2>2. ASSUME NEW t \in Seq(Speakers), Ordered(style, t, speaker)
        PROVE  Ordered(style, Append(t, speaker), pick.speaker)
    <3>1. (\A i \in DOMAIN t : t[i] = Nth(i - 1)) /\ speaker = Nth(Len(t)) /\ Len(t) \in Nat /\ DOMAIN t = 1..Len(t)
      BY <1>3, <2>2 DEF Ordered
    <3>2. pick.speaker = Nth(Len(t) + 1)
      BY <2>1, <3>1, RobinSteps
    <3>3. speaker \in Speakers
      BY <2>1 DEF Speakers
    <3>4. /\ Len(Append(t, speaker)) = Len(t) + 1 /\ DOMAIN Append(t, speaker) = 1..(Len(t) + 1)
          /\ \A i \in 1..(Len(t) + 1) : Append(t, speaker)[i] = IF i <= Len(t) THEN t[i] ELSE speaker
      BY <3>3
    <3>5. \A i \in 1..(Len(t) + 1) : ~(i <= Len(t)) => i - 1 = Len(t)
      BY <3>1
    <3>6. \A i \in DOMAIN Append(t, speaker) : Append(t, speaker)[i] = Nth(i - 1)
      <4> TAKE i \in DOMAIN Append(t, speaker)
      <4>1. CASE i <= Len(t)
        <5>1. i \in DOMAIN t
          BY <3>1, <3>4, <4>1
        <5> QED BY <3>1, <3>4, <4>1, <5>1
      <4>2. CASE ~(i <= Len(t))
        <5>1. i - 1 = Len(t)
          BY <3>4, <3>5, <4>2
        <5> QED BY <3>1, <3>4, <4>2, <5>1
      <4> QED BY <4>1, <4>2
    <3> QED BY <1>3, <3>2, <3>4, <3>6 DEF Ordered
  <2> QED BY <1>3, <2>1, <2>2
<1>4. CASE style = "selector"
  <2>1. PICK p \in Named(Members \ {speaker}) : pick = Chosen(p)
    BY <1>4 DEF Selections
  <2>2. p \in Members /\ pick.chosen = <<p>> /\ pick.speaker = p
    BY <1>2, <2>1 DEF Chosen
  <2>3. ASSUME NEW t \in Seq(Speakers), Ordered(style, t, speaker)
        PROVE  Ordered(style, Append(t, p), p)
    <3> SUFFICES ASSUME Len(Roster) = 2
                 PROVE  (\A i \in 2..Len(Append(t, p)) : Append(t, p)[i] # Append(t, p)[i - 1]) /\ p = Latest(Append(t, p))
      BY <1>4 DEF Ordered
    <3>1. (\A i \in 2..Len(t) : t[i] # t[i - 1]) /\ speaker = Latest(t) /\ Len(t) \in Nat
      BY <1>4, <2>3 DEF Ordered
    <3>2. p # speaker /\ p \in Speakers
      BY <2>1, OtherOne DEF Speakers
    <3>3. /\ Append(t, p) # <<>> /\ Len(Append(t, p)) = Len(t) + 1
          /\ \A i \in 1..(Len(t) + 1) : Append(t, p)[i] = IF i <= Len(t) THEN t[i] ELSE p
      BY <3>2
    <3>4. p = Latest(Append(t, p))
      <4>1. Append(t, p)[Len(t) + 1] = p
        BY <3>1, <3>3
      <4> QED BY <3>3, <4>1 DEF Latest
    <3>5. ASSUME NEW i \in 2..Len(Append(t, p)) PROVE Append(t, p)[i] # Append(t, p)[i - 1]
      <4>1. i \in 1..(Len(t) + 1) /\ i - 1 \in 1..(Len(t) + 1) /\ i - 1 <= Len(t)
        BY <3>1, <3>3, <3>5
      <4>2. CASE i <= Len(t)
        <5>1. i \in 2..Len(t)
          BY <3>1, <4>2, <4>1, <3>5
        <5> QED BY <3>1, <3>3, <4>1, <4>2, <5>1
      <4>3. CASE ~(i <= Len(t))
        <5>1. i - 1 = Len(t) /\ Append(t, p)[i] = p /\ Append(t, p)[i - 1] = t[Len(t)]
          BY <3>1, <3>3, <4>1, <4>3
        <5>2. t # <<>>
          BY <3>1, <4>1, <5>1
        <5> QED BY <3>1, <3>2, <5>1, <5>2 DEF Latest
      <4> QED BY <4>2, <4>3
    <3> QED BY <3>4, <3>5
  <2> QED BY <1>4, <2>2, <2>3
<1>5. CASE style \in {"swarm", "function", "candidates"}
  <2>1. \E p \in Members : pick.chosen = <<p>> /\ (style = "swarm" => handoff \in {p, NoOne})
    <3>1. CASE style = "swarm"
      BY <3>1 DEF Selections, Chosen
    <3>2. CASE style = "function"
      BY <1>2, <3>2 DEF Selections, Chosen
    <3>3. CASE style = "candidates"
      BY <1>2, <3>3 DEF Selections, Chosen
    <3> QED BY <1>5, <3>1, <3>2, <3>3
  <2> QED BY <1>5, <2>1 DEF Ordered
<1> QED BY <1>1, <1>3, <1>4, <1>5

-----------------------------------------------------------------------------
(* The turns are taken in order. *)

\* no turn is under way
NobodyIsOut == \A p \in Members : Outstanding(p) = 0

\* unless a manager returns lists one participant at a time is asked
OneSpeaks ==
    style # "parallel" =>
        /\ \A p \in Members : Outstanding(p) <= 1
        /\ \A p, q \in Members : Outstanding(p) > 0 /\ Outstanding(q) > 0 => p = q
        /\ selecting => NobodyIsOut

\* the recorded turns, with the one under way, are in order
TurnsRun ==
    intact => /\ NobodyIsOut => Ordered(style, Turns, speaker)
              /\ \A p \in Members : Outstanding(p) > 0 => Ordered(style, Append(Turns, p), speaker)

\* the turns of the saved state are
TurnsSaved ==
    saved # <<>> /\ Head(saved).intact =>
        Ordered(style, NotBy(User, Head(saved).thread), Head(saved).speaker)

\* a swarm in a handoff asks only its target
SwarmWaits == style = "swarm" => \A p \in Members : Outstanding(p) > 0 => handoff \in {p, NoOne}

\* the invariant of TurnsInOrder
TurnInv == OneSpeaks /\ TurnsRun /\ TurnsSaved /\ SwarmWaits

\* its parts after a step, with the primes on the variables
LEMMA TurnNext ==
  /\ NobodyIsOut' <=> \A p \in Members : Outstanding(p)' = 0
  /\ OneSpeaks' <=> (style' # "parallel" =>
        /\ \A p \in Members : Outstanding(p)' <= 1
        /\ \A p, q \in Members : Outstanding(p)' > 0 /\ Outstanding(q)' > 0 => p = q
        /\ selecting' => \A p \in Members : Outstanding(p)' = 0)
  /\ TurnsRun' <=> (intact' =>
        /\ (\A p \in Members : Outstanding(p)' = 0) => Ordered(style', NotBy(User, thread'), speaker')
        /\ \A p \in Members : Outstanding(p)' > 0 => Ordered(style', Append(NotBy(User, thread'), p), speaker'))
  /\ SwarmWaits' <=> (style' = "swarm" => \A p \in Members : Outstanding(p)' > 0 => handoff' \in {p, NoOne})
BY DEF NobodyIsOut, OneSpeaks, TurnsRun, SwarmWaits, Turns, NotBy, Ordered, Nth, Latest

\* an empty runtime has nobody out
LEMMA RestTally ==
  ASSUME ActiveInv, ActiveInv', OffIsEmpty, OffIsEmpty'
  PROVE  (caller = "idle" => NobodyIsOut) /\ (caller' = "idle" => \A p \in Members : Outstanding(p)' = 0)
<1> USE Team
<1>1. ASSUME caller = "idle", NEW p \in Members PROVE Outstanding(p) = 0
  <2>1. bus = <<>> /\ inbox[p] = <<>> /\ Answered = <<>>
    BY <1>1 DEF OffIsEmpty, Answered, ActiveInv, SelectingHolds
  <2> QED BY <2>1, EmptyTally
<1>2. ASSUME caller' = "idle", NEW p \in Members PROVE Outstanding(p)' = 0
  <2>1. bus' = <<>> /\ inbox'[p] = <<>> /\ Answered' = <<>>
    BY <1>2 DEF OffIsEmpty, Answered, ActiveInv, SelectingHolds
  <2> QED BY <2>1, EmptyTally
<1> QED BY <1>1, <1>2 DEF NobodyIsOut

\* nobody is out when the manager handles a start
LEMMA StartTally ==
  ASSUME ActiveInv, ActiveInv', StartIsAlone, inbox[Manager] # <<>>, Head(inbox[Manager]).kind = "start", ~selecting
  PROVE  NobodyIsOut
<1> USE Team
<1>1. inbox[Manager] \in Seq(Mail)
  BY AnsweredTyped DEF ActiveInv
<1>2. 1 \in DOMAIN inbox[Manager] /\ inbox[Manager][1] = Head(inbox[Manager])
  BY <1>1
<1>3. Len(inbox[Manager]) = 1 /\ bus = <<>> /\ \A p \in Members : inbox[p] = <<>>
  BY <1>2 DEF StartIsAlone
<1>4. Answered = inbox[Manager]
  BY DEF Answered
<1>5. ASSUME NEW p \in Members PROVE Outstanding(p) = 0
  <2>1. Hits(inbox[Manager], "response", p) = {}
    BY <1>1, <1>2, <1>3 DEF Hits
  <2>2. Pending(Answered, "response", p) = 0
    BY <1>1, <1>4, <2>1, HitsFinite, FS_EmptySet
  <2>3. Pending(bus, "request", p) = 0 /\ Pending(bus, "response", p) = 0 /\ Pending(inbox[p], "request", p) = 0
    BY <1>3, PendingEmpty
  <2> QED BY ONLY <2>2, <2>3, Tally, ActiveInv, ActiveInv', p \in Members
<1> QED BY <1>5 DEF NobodyIsOut

\* the steps that neither ask nor record
LEMMA QuietTurn ==
  ASSUME ActiveInv, ActiveInv', TurnInv, UNCHANGED <<style, speaker, handoff, thread, saved>>,
         intact' => intact,
         \A p \in Members : Outstanding(p)' <= Outstanding(p) /\ (intact' => Outstanding(p)' = Outstanding(p)),
         selecting' => selecting \/ NobodyIsOut
  PROVE  TurnInv'
<1>1. \A p \in Members : Outstanding(p) \in Nat /\ Outstanding(p)' \in Nat
  BY Tally
<1>2. \A p \in Members : /\ Outstanding(p)' <= Outstanding(p)
                         /\ intact' => Outstanding(p)' = Outstanding(p)
                         /\ Outstanding(p) = 0 => Outstanding(p)' = 0
                         /\ Outstanding(p)' > 0 => Outstanding(p) > 0
                         /\ Outstanding(p) <= 1 => Outstanding(p)' <= 1
  BY <1>1
<1>3. OneSpeaks'
  BY <1>2, TurnNext DEF TurnInv, OneSpeaks, NobodyIsOut
<1>4. TurnsRun'
  BY <1>2, TurnNext DEF TurnInv, TurnsRun, NobodyIsOut, Turns
<1>5. SwarmWaits'
  BY <1>2, TurnNext DEF TurnInv, SwarmWaits
<1>6. TurnsSaved'
  BY DEF TurnInv, TurnsSaved
<1> QED BY <1>3, <1>4, <1>5, <1>6 DEF TurnInv

\* the steps that begin a thread, or a run, while nobody is out
LEMMA RestTurn ==
  ASSUME ActiveInv, ActiveInv', \A p \in Members : Outstanding(p)' = 0,
         intact' => Ordered(style', NotBy(User, thread'), speaker'), TurnsSaved'
  PROVE  TurnInv'
BY TurnNext DEF TurnInv

\* a response makes the turn under way a recorded one
LEMMA ResponseTurn ==
  ASSUME ActiveInv, ActiveInv', HearTypes, TurnInv, ManagerStep, NEW o, HandleResponse(o)
  PROVE  TurnInv'
<1> USE Team DEF managerVars, memberVars, callerVars
<1> DEFINE m == Head(inbox[Manager])
<1>1. /\ inbox[Manager] # <<>> /\ m.kind = "response" /\ ~selecting /\ bus' = bus
      /\ thread' = Append(thread, m.who) /\ UNCHANGED <<style, speaker, saved, intact>>
  BY DEF HandleResponse, Handling, Record
<1>2. m \in Mail /\ m.who \in Members /\ m.who # User /\ m.who \in Speakers
  <2>1. inbox[Manager] \in Seq(Mail)
    BY AnsweredTyped DEF ActiveInv
  <2>2. m \in Mail
    BY <1>1, <2>1
  <2>3. m.who \in Members
    BY <1>1, <2>2, MailKinds
  <2> HIDE DEF m
  <2> QED BY <2>2, <2>3 DEF Speakers
<1>3. \A p \in Members : Outstanding(p) = Outstanding(p)' + IF IsHit(m, "response", p) THEN 1 ELSE 0
  BY <1>1, HandlerTally
<1> HIDE DEF m
<1>4. \A p \in Members : Outstanding(p) \in Nat /\ Outstanding(p)' \in Nat
  BY Tally
<1>5. \A p \in Members : IsHit(m, "response", p) <=> p = m.who
  BY <1>1 DEF IsHit
<1>6. Outstanding(m.who) > 0
  BY <1>2, <1>3, <1>4, <1>5
<1>7. NotBy(User, thread') = Append(NotBy(User, thread), m.who)
  BY <1>1, <1>2, NotByAppend DEF HearTypes
<1>8. TurnsSaved'
  BY <1>1 DEF TurnInv, TurnsSaved
<1>9. CASE style # "parallel"
  <2>1. \A p \in Members : Outstanding(p) <= 1 /\ (Outstanding(p) > 0 => p = m.who)
    BY <1>2, <1>6, <1>9 DEF TurnInv, OneSpeaks
  <2>2. \A p \in Members : Outstanding(p)' = 0
    BY <1>3, <1>4, <1>5, <2>1
  <2>3. intact => Ordered(style, Append(NotBy(User, thread), m.who), speaker)
    BY <1>2, <1>6 DEF TurnInv, TurnsRun, Turns
  <2>4. intact' => Ordered(style', NotBy(User, thread'), speaker')
    BY <1>1, <1>7, <2>3
  <2> QED BY <1>8, <2>2, <2>4, RestTurn
<1>10. CASE style = "parallel"
  <2>1. \A t, s : Ordered(style', t, s)
    BY <1>1, <1>10 DEF Ordered
  <2> QED BY <1>1, <1>8, <1>10, <2>1, TurnNext DEF TurnInv
<1> QED BY <1>9, <1>10

\* the selection puts the next turn under way
LEMMA SelectTurn ==
  ASSUME ActiveInv, ActiveInv', HearTypes, TurnInv, NEW pick \in Selections, SelectSpeakers(pick)
  PROVE  TurnInv'
<1> USE Team DEF managerVars, memberVars, callerVars, recordVars
<1>1. selecting /\ ~selecting' /\ speaker' = pick.speaker /\ UNCHANGED <<thread, handoff, style, saved, intact>>
  BY DEF SelectSpeakers
<1>2. TurnsSaved'
  BY <1>1 DEF TurnInv, TurnsSaved
<1>3. CASE style = "parallel"
  <2>1. \A t, s : Ordered(style', t, s)
    BY <1>1, <1>3 DEF Ordered
  <2> QED BY <1>1, <1>2, <1>3, <2>1, TurnNext DEF TurnInv
<1>4. CASE style # "parallel"
  <2>1. PICK p \in Members :
            /\ pick.chosen = <<p>>
            /\ style = "swarm" => handoff \in {p, NoOne}
            /\ \A t \in Seq(Speakers) : Ordered(style, t, speaker) => Ordered(style, Append(t, p), pick.speaker)
    BY <1>4, SelectsInOrder DEF ActiveInv
  <2>2. \A q : q \in ToSet(pick.chosen) <=> q = p
    BY <2>1 DEF ToSet
  <2>3. NobodyIsOut
    BY <1>1, <1>4 DEF TurnInv, OneSpeaks
  <2>4. \A q \in Members : Outstanding(q)' = IF q = p THEN 1 ELSE 0
    <3>1. \A q \in Members : Outstanding(q)' = Outstanding(q) + IF q \in ToSet(pick.chosen) THEN 1 ELSE 0
      BY SelectTally
    <3> QED BY <2>2, <2>3, <3>1 DEF NobodyIsOut
  <2>5. NotBy(User, thread) \in Seq(Speakers)
    BY NotByIsSeq DEF HearTypes
  <2>6. intact => Ordered(style, Append(NotBy(User, thread), p), pick.speaker)
    BY <2>1, <2>3, <2>5 DEF TurnInv, TurnsRun, Turns
  <2>7. \A q \in Members : Outstanding(q)' <= 1 /\ (Outstanding(q)' > 0 => q = p)
    BY <2>4
  <2>8. Outstanding(p)' # 0
    BY <2>4
  <2>9. TurnsRun'
    BY <1>1, <2>6, <2>7, <2>8, TurnNext
  <2>10. OneSpeaks' /\ SwarmWaits'
    BY <1>1, <2>1, <2>7, TurnNext
  <2> QED BY <1>2, <2>9, <2>10 DEF TurnInv
<1> QED BY <1>3, <1>4

\* a thread begins
LEMMA OrderedEmpty ==
  ASSUME RobinStands
  PROVE  Ordered(style, <<>>, FirstSpeaker)
<1>1. Len(Roster) \in Nat \ {0}
  BY TeamAssumption
<1>2. 0 % Len(Roster) = 0
  BY <1>1
<1>3. Len(<<>>) = 0 /\ DOMAIN <<>> = {} /\ 2..0 = {}
  OBVIOUS
<1>4. style = "round_robin" => FirstSpeaker = Nth(0)
  BY <1>2 DEF FirstSpeaker, IsSelector, Nth
<1>5. style = "selector" => FirstSpeaker = NoOne
  BY DEF FirstSpeaker, IsSelector
<1> QED BY <1>3, <1>4, <1>5 DEF Ordered, Latest

\* every step of the manager
LEMMA ManagerTurn ==
  ASSUME ActiveInv, ActiveInv', HearInv, TurnInv, ManagerStep
  PROVE  TurnInv'
<1> USE Team DEF managerVars, memberVars, callerVars, recordVars
<1>1. HearTypes /\ StartIsAlone /\ SelectingHolds
  BY DEF HearInv, ActiveInv
<1>2. CASE \E o \in Conditions : HandleResponse(o)
  BY <1>1, <1>2, ResponseTurn
<1>3. CASE \E pick \in Selections : SelectSpeakers(pick)
  BY <1>1, <1>3, SelectTurn
<1>4. CASE StartRefused \/ StartInvalid \/ HandleResume \/ HandleLog \/ SelectionFails \/ SelectionCancelled
  <2>1. bus' = bus /\ UNCHANGED <<style, speaker, handoff, thread, saved, intact>>
    BY <1>4 DEF StartRefused, StartInvalid, HandleResume, HandleLog, SelectionFails, SelectionCancelled
  <2>2. selecting \/ Head(inbox[Manager]).kind # "response"
    BY <1>4 DEF StartRefused, StartInvalid, HandleResume, HandleLog, SelectionFails, SelectionCancelled, Handling
  <2>3. \A p \in Members : Outstanding(p) = Outstanding(p)' + 0 /\ Outstanding(p) \in Nat /\ Outstanding(p)' \in Nat
    <3>1. \A p \in Members : ~(~selecting /\ IsHit(Head(inbox[Manager]), "response", p))
      BY <2>2 DEF IsHit
    <3> QED BY <2>1, <3>1, HandlerTally, Tally
  <2>4. \A p \in Members : Outstanding(p)' <= Outstanding(p) /\ (intact' => Outstanding(p)' = Outstanding(p))
    BY ONLY <2>3
  <2>5. selecting' => selecting \/ NobodyIsOut
    <3>1. CASE HandleResume
      <4>1. inbox[Manager] # <<>> /\ Head(inbox[Manager]).kind = "start" /\ ~selecting
        BY <3>1 DEF HandleResume, Handling
      <4> QED BY <1>1, <4>1, StartTally
    <3>2. CASE StartRefused \/ StartInvalid \/ HandleLog \/ SelectionFails \/ SelectionCancelled
      BY <3>2 DEF StartRefused, StartInvalid, HandleLog, SelectionFails, SelectionCancelled
    <3> QED BY <1>4, <3>1, <3>2
  <2> QED BY <2>1, <2>4, <2>5, QuietTurn
<1>5. ASSUME NEW o \in Conditions, HandleStart(o) PROVE TurnInv'
  <2>1. /\ inbox[Manager] # <<>> /\ Head(inbox[Manager]).kind = "start" /\ ~selecting
        /\ bus' = Append(bus, Envelope("relay", User)) /\ thread' = Append(thread, User)
        /\ UNCHANGED <<style, speaker, saved, intact>>
    BY <1>5 DEF HandleStart, Handling, Record
  <2>2. NobodyIsOut
    BY <1>1, <2>1, StartTally
  <2>3. \A p \in Members : Outstanding(p) = Outstanding(p)' + 0 /\ Outstanding(p)' \in Nat
    <3>1. \A p \in Members : ~IsHit(Head(inbox[Manager]), "response", p)
      BY <2>1 DEF IsHit
    <3> QED BY <2>1, <3>1, HandlerTally, Tally
  <2>4. \A p \in Members : Outstanding(p)' = 0
    BY <2>2, <2>3 DEF NobodyIsOut
  <2>5. NotBy(User, thread') = NotBy(User, thread)
    <3>1. User \in Speakers /\ thread \in Seq(Speakers)
      BY <1>1 DEF Speakers, HearTypes
    <3> QED BY <2>1, <3>1, NotByAppend
  <2>6. intact' => Ordered(style', NotBy(User, thread'), speaker')
    BY <2>1, <2>2, <2>5 DEF TurnInv, TurnsRun, Turns
  <2>7. TurnsSaved'
    BY <2>1 DEF TurnInv, TurnsSaved
  <2> QED BY <2>4, <2>6, <2>7, RestTurn
<1> QED BY <1>2, <1>3, <1>4, <1>5 DEF ManagerStep

\* TurnInv holds at the start and is kept
LEMMA TurnInvNext ==
  ASSUME ActiveInv, ActiveInv', HearInv, HearInv', TurnInv, [Next]_vars
  PROVE  TurnInv'
<1> USE DEF managerVars, memberVars, callerVars, recordVars
<1>1. OffIsEmpty /\ OffIsEmpty'
  BY DEF HearInv
<1>2. \A p \in Members : Outstanding(p) \in Nat
  BY Tally
<1>3. CASE RuntimeStep
  <2>1. UNCHANGED <<style, speaker, handoff, thread, saved, selecting>> /\ (intact' => intact)
    BY <1>3 DEF RuntimeStep, Deliver, DeliverError, RaiseInLoop, StopWhenIdle
  <2> QED BY <1>3, <2>1, RuntimeTally, QuietTurn
<1>4. CASE ManagerStep
  BY <1>4, ManagerTurn
<1>5. ASSUME NEW n \in Members, MemberStep(n) PROVE TurnInv'
  <2>1. UNCHANGED <<style, speaker, handoff, thread, saved, selecting>> /\ (intact' => intact)
    <3>1. UNCHANGED <<style, thread, saved, selecting>>
      BY <1>5, MemberShape
    <3>2. UNCHANGED <<speaker, handoff>>
      BY <1>5 DEF MemberStep, BufferMessage, CallAgent, LogResponse, AgentFails, AgentCutOff, PublishResponse
    <3>3. intact' => intact
      BY <1>5 DEF MemberStep, BufferMessage, CallAgent, LogResponse, AgentFails, AgentCutOff, PublishResponse
    <3> QED BY ONLY <3>1, <3>2, <3>3
  <2> QED BY <1>5, <2>1, MemberTally, QuietTurn
<1>6. CASE CallerStep \/ Cancel \/ RunStreamDoomed \/ UNCHANGED vars
  <2>1. UNCHANGED <<style, speaker, handoff, thread, saved, selecting, bus, inbox>> /\ (intact' => intact)
    BY <1>6 DEF CallerStep, StartAnswered, YieldMessage, EndRun, Cancel, RunStreamDoomed, vars
  <2>2. \A p \in Members : Outstanding(p)' = Outstanding(p)
    BY <2>1, SameTally
  <2>3. \A p \in Members : Outstanding(p)' <= Outstanding(p) /\ (intact' => Outstanding(p)' = Outstanding(p))
    BY <1>2, <2>2
  <2> QED BY <2>1, <2>3, QuietTurn
<1>7. ASSUME NEW task \in Tasks, RunStream(task) PROVE TurnInv'
  <2>1. /\ UNCHANGED <<style, speaker, handoff, thread, saved, selecting, inbox, intact>>
        /\ bus' = <<task>> /\ caller = "idle"
    BY <1>7 DEF RunStream
  <2>2. NobodyIsOut
    BY <1>1, <2>1, RestTally
  <2>3. Answered' = Answered
    BY <2>1 DEF Answered
  <2>4. \A p \in Members : Outstanding(p)' <= Outstanding(p) /\ (intact' => Outstanding(p)' = Outstanding(p))
    <3> TAKE p \in Members
    <3>1. task.kind = "start" /\ bus' \in Seq(Mail)
      BY TeamAssumption DEF Tasks, Targets, Envelope, Passing, ActiveInv, Shapes
    <3>2. \A i \in DOMAIN <<task>> : <<task>>[i].kind = "start"
      BY <3>1
    <3>3. Hits(bus', "request", p) = {} /\ Hits(bus', "response", p) = {}
      BY <2>1, <3>2 DEF Hits
    <3>4. Pending(bus', "request", p) = 0 /\ Pending(bus', "response", p) = 0
      BY <3>1, <3>3, HitsFinite, FS_EmptySet
    <3>5. Outstanding(p) = 0
      BY <2>2 DEF NobodyIsOut
    <3>6. /\ Outstanding(p) = Pending(bus, "request", p) + Pending(inbox[p], "request", p)
                             + Pending(bus, "response", p) + Pending(Answered, "response", p)
          /\ Outstanding(p)' = Pending(bus', "request", p) + Pending(inbox'[p], "request", p)
                              + Pending(bus', "response", p) + Pending(Answered', "response", p)
          /\ Pending(bus, "request", p) \in Nat /\ Pending(bus, "response", p) \in Nat
          /\ Pending(inbox[p], "request", p) \in Nat /\ Pending(Answered, "response", p) \in Nat
      BY Tally
    <3>7. /\ Pending(inbox'[p], "request", p) = Pending(inbox[p], "request", p)
          /\ Pending(Answered', "response", p) = Pending(Answered, "response", p)
      BY <2>1, <2>3
    <3>8. Outstanding(p)' = 0
      BY ONLY <3>4, <3>5, <3>6, <3>7
    <3> QED BY <3>5, <3>8
  <2> QED BY <2>1, <2>4, QuietTurn
<1>8. CASE SaveState
  <2>1. /\ UNCHANGED <<style, speaker, thread, intact>> /\ caller = "idle" /\ caller' = "idle"
        /\ Head(saved').thread = thread /\ Head(saved').speaker = speaker /\ Head(saved').intact = intact
    BY <1>8 DEF SaveState
  <2>2. NobodyIsOut /\ \A p \in Members : Outstanding(p)' = 0
    BY <1>1, <2>1, RestTally
  <2>3. intact => Ordered(style, NotBy(User, thread), speaker)
    BY <2>2 DEF TurnInv, TurnsRun, Turns
  <2>4. TurnsSaved' <=> (saved' # <<>> /\ Head(saved').intact =>
            Ordered(style', NotBy(User, Head(saved').thread), Head(saved').speaker))
    BY DEF TurnsSaved, Ordered, NotBy, Nth, Latest
  <2>5. TurnsSaved'
    BY <2>1, <2>3, <2>4
  <2> QED BY <2>1, <2>2, <2>3, <2>5, RestTurn
<1>9. CASE LoadState
  <2>1. /\ caller' = "idle" /\ saved # <<>> /\ saved' = <<>> /\ style' = style
        /\ thread' = Head(saved).thread /\ speaker' = Head(saved).speaker /\ intact' = Head(saved).intact
    BY <1>9 DEF LoadState
  <2>2. \A p \in Members : Outstanding(p)' = 0
    BY <1>1, <2>1, RestTally
  <2>3. intact' => Ordered(style', NotBy(User, thread'), speaker')
    BY <2>1 DEF TurnInv, TurnsSaved
  <2>4. TurnsSaved'
    BY <2>1 DEF TurnsSaved
  <2> QED BY <2>2, <2>3, <2>4, RestTurn
<1>10. CASE Reset
  <2>1. caller' = "idle" /\ UNCHANGED <<saved, style>> /\ thread' = <<>> /\ speaker' = FirstSpeaker
    BY <1>10 DEF Reset
  <2>2. \A p \in Members : Outstanding(p)' = 0
    BY <1>1, <2>1, RestTally
  <2>3. Ordered(style, <<>>, FirstSpeaker)
    BY OrderedEmpty DEF ActiveInv
  <2>4. Ordered(style', NotBy(User, thread'), speaker')
    BY <2>1, <2>3, NotByEmpty
  <2>5. TurnsSaved'
    BY <2>1 DEF TurnInv, TurnsSaved
  <2> QED BY <2>2, <2>4, <2>5, RestTurn
<1> QED BY <1>3, <1>4, <1>5, <1>6, <1>7, <1>8, <1>9, <1>10 DEF Next

LEMMA TurnInit == Init => TurnInv
<1> SUFFICES ASSUME Init PROVE TurnInv
  OBVIOUS
<1> USE Team
<1>1. ActiveInv
  BY ActiveInit
<1>2. ASSUME NEW p \in Members PROVE Outstanding(p) = 0
  <2>1. bus = <<>> /\ inbox[p] = <<>> /\ Answered = <<>>
    BY DEF Init, Answered
  <2>2. Outstanding(p) = Pending(bus, "request", p) + Pending(inbox[p], "request", p)
                        + Pending(bus, "response", p) + Pending(Answered, "response", p)
    BY DEF Outstanding, Answered
  <2>3. /\ Pending(bus, "request", p) = 0 /\ Pending(inbox[p], "request", p) = 0
        /\ Pending(bus, "response", p) = 0 /\ Pending(Answered, "response", p) = 0
    BY <2>1, PendingEmpty
  <2> QED BY ONLY <2>2, <2>3
<1>3. thread = <<>> /\ speaker = FirstSpeaker /\ saved = <<>>
  BY DEF Init
<1>4. Ordered(style, Turns, speaker)
  BY <1>1, <1>3, OrderedEmpty, NotByEmpty DEF Turns, ActiveInv
<1> QED BY <1>2, <1>3, <1>4 DEF TurnInv, OneSpeaks, TurnsRun, TurnsSaved, SwarmWaits, NobodyIsOut

\* the order of the turns, with the answer of the one who is out or without it
LEMMA TurnsAreOrdered ==
  ASSUME ActiveInv, HearTypes, TurnInv
  PROVE  TurnsInOrder
<1>1. Turns \in Seq(Speakers)
  BY NotByIsSeq DEF HearTypes, Turns
<1>2. Len(Turns) \in Nat /\ DOMAIN Turns = 1..Len(Turns)
  BY <1>1
<1>3. \A p \in Members : Outstanding(p) \in Nat
  BY OutstandingParts DEF ActiveInv
<1>4. ASSUME intact
      PROVE  /\ style = "round_robin" => \A i \in DOMAIN Turns : Turns[i] = Nth(i - 1)
             /\ (style = "selector" /\ Len(Roster) = 2) => \A i \in 2..Len(Turns) : Turns[i] # Turns[i - 1]
  <2>1. CASE NobodyIsOut
    BY <1>4, <2>1 DEF TurnInv, TurnsRun, Ordered
  <2>2. CASE ~NobodyIsOut
    <3>1. PICK p \in Members : Outstanding(p) > 0
      BY <1>3, <2>2 DEF NobodyIsOut
    <3>2. Ordered(style, Append(Turns, p), speaker)
      BY <1>4, <3>1 DEF TurnInv, TurnsRun
    <3>3. p \in Speakers
      BY DEF Speakers
    <3>4. /\ Len(Append(Turns, p)) = Len(Turns) + 1
          /\ \A i \in 1..Len(Turns) : i \in DOMAIN Append(Turns, p) /\ Append(Turns, p)[i] = Turns[i]
      BY <1>1, <3>3
    <3>5. \A i \in 2..Len(Turns) : i \in 2..(Len(Turns) + 1) /\ i \in 1..Len(Turns) /\ i - 1 \in 1..Len(Turns)
      BY <1>2
    <3> QED BY <1>2, <3>2, <3>4, <3>5 DEF Ordered
  <2> QED BY <2>1, <2>2
<1>5. ASSUME NEW p \in Members, Asked(p) PROVE Outstanding(p) > 0
  <2>1. /\ Outstanding(p) = Abroad(p) + Pending(inbox[p], "request", p)
        /\ Abroad(p) = Pending(bus, "request", p) + Pending(bus, "response", p) + Pending(Answered, "response", p)
    BY OutstandingParts DEF ActiveInv, Abroad
  <2>2. /\ Pending(bus, "request", p) \in Nat /\ Pending(bus, "response", p) \in Nat
        /\ Pending(Answered, "response", p) \in Nat /\ Pending(inbox[p], "request", p) \in Nat
    BY AnsweredTyped, HitsFinite DEF ActiveInv, Shapes
  <2>3. Pending(bus, "request", p) + Pending(inbox[p], "request", p) > 0
    BY <1>5 DEF Asked
  <2> QED BY ONLY <2>1, <2>2, <2>3
<1>6. style = "swarm" => \A p \in Members : Asked(p) => handoff \in {p, NoOne}
  BY <1>5 DEF TurnInv, SwarmWaits
<1> QED BY <1>4, <1>6 DEF TurnsInOrder, Nth

(* The one who speaks is the one whose turn it is.  Unless a run of this   *)
(* thread failed or was cancelled, the turns of a round robin follow the   *)
(* list of participants over all its runs, through terminations, resets    *)
(* and loaded states, and a selector of two participants, without a        *)
(* selector function, never has one of them twice in a row; a swarm asks   *)
(* only the target of its last handoff, failures or not.                   *)
THEOREM TurnsAreTaken == Spec => []TurnsInOrder
<1>1. ActiveInv /\ HearInv /\ TurnInv => TurnsInOrder
  BY TurnsAreOrdered DEF HearInv
<1>2. ActiveInv /\ ActiveInv' /\ HearInv /\ HearInv' /\ TurnInv /\ [Next]_vars => TurnInv'
  BY TurnInvNext
<1> QED BY <1>1, <1>2, ActiveInit, ActiveNext, HearInit, HearNextInv, TurnInit, PTL DEF Spec

-----------------------------------------------------------------------------
(* A run that returns has yielded what it added to the thread: what         *)
(* run_stream yielded and is to yield keeps in step with what the manager   *)
(* added and is to add, as long as nothing failed.                          *)

\* what ends a stream
Signals == {"stop", "error"}

\* who logged its response and is still to publish it
Logged == {p \in Members : work[p] = "logged"}

\* the sources of the log messages and of the responses in a queue
LogsIn(q) == Words(q, {"log"}, Manager)
ResponsesIn(q) == Words(q, {"response"}, Manager)

\* log messages the caller is still to get, and responses the manager is still
\* to record
LogsOut == Join(LogsIn(inbox[Manager]), LogsIn(bus))
ResponsesOut == Join(ResponsesIn(Answered), ResponsesIn(bus))

\* what the run added to the thread
AddedTo(t, b) == SubSeq(t, b + 1, Len(t))
Added == AddedTo(thread, began)

\* l has the messages of a and one of each participant in w: in their order,
\* unless several speak at a time
Ahead(st, l, a, w) ==
    IF st = "parallel"
    THEN \A m \in Speakers : Times(l, m) = Times(a, m) + IF m \in w THEN 1 ELSE 0
    ELSE (w = {} => l = a) /\ \A p \in w : l = Append(a, p)

\* a message appended to a sequence is in it once more
LEMMA TimesAppend ==
  ASSUME NEW s \in Seq(Speakers), NEW x \in Speakers, NEW m
  PROVE  /\ Times(s, m) \in Nat
         /\ Times(Append(s, x), m) = Times(s, m) + IF x = m THEN 1 ELSE 0
<1> DEFINE t == Append(s, x)
           n == Len(s)
           A == {i \in DOMAIN s : s[i] = m}
           B == {i \in DOMAIN t : t[i] = m}
<1>1. /\ n \in Nat /\ DOMAIN s = 1..n /\ DOMAIN t = 1..(n + 1)
      /\ \A i \in 1..n : t[i] = s[i]
      /\ t[n + 1] = x
  OBVIOUS
<1>2. IsFiniteSet(A)
  <2>1. IsFiniteSet(1..n) /\ A \subseteq 1..n
    BY <1>1, FS_Interval
  <2> QED BY <2>1, FS_Subset
<1>3. Cardinality(A) \in Nat
  BY <1>2, FS_CardinalityType
<1>4. Times(s, m) = Cardinality(A) /\ Times(t, m) = Cardinality(B)
  BY DEF Times
<1> HIDE DEF t, n
<1>5. CASE x = m
  <2>1. B = A \cup {n + 1} /\ n + 1 \notin A
    BY <1>1, <1>5
  <2>2. Cardinality(A \cup {n + 1}) = Cardinality(A) + 1
    BY <1>2, <2>1, FS_AddElement
  <2> QED BY <1>3, <1>4, <1>5, <2>1, <2>2 DEF t
<1>6. CASE x # m
  <2>1. B = A
    BY <1>1, <1>6
  <2>2. Times(t, m) = Times(s, m) + 0 /\ Times(s, m) \in Nat
    <3> HIDE DEF A, B
    <3> QED BY <1>3, <1>4, <2>1
  <2> QED BY <1>6, <2>2 DEF t
<1> QED BY <1>5, <1>6

\* a participant logs its response
LEMMA AheadLogs ==
  ASSUME NEW st, NEW l \in Seq(Speakers), NEW a \in Seq(Speakers), NEW w, Ahead(st, l, a, w),
         NEW p \in Members, p \notin w, st # "parallel" => w = {}
  PROVE  Ahead(st, Append(l, p), a, w \cup {p})
<1>1. CASE st = "parallel"
  <2>1. ASSUME NEW m \in Speakers
        PROVE  Times(Append(l, p), m) = Times(a, m) + IF m \in w \cup {p} THEN 1 ELSE 0
    <3>1. p \in Speakers
      BY DEF Speakers
    <3>2. Times(l, m) = Times(a, m) + IF m \in w THEN 1 ELSE 0
      BY <1>1 DEF Ahead
    <3>3. Times(Append(l, p), m) = Times(l, m) + IF p = m THEN 1 ELSE 0
      BY <3>1, TimesAppend
    <3>4. Times(a, m) \in Nat
      BY <3>1, TimesAppend
    <3> QED BY <3>2, <3>3, <3>4
  <2> QED BY <1>1, <2>1 DEF Ahead
<1>2. CASE st # "parallel"
  BY <1>2 DEF Ahead
<1> QED BY <1>1, <1>2

\* and publishes it
LEMMA AheadPublishes ==
  ASSUME NEW st, NEW l \in Seq(Speakers), NEW a \in Seq(Speakers), NEW w, Ahead(st, l, a, w),
         NEW p \in Members, p \in w, st # "parallel" => w = {p}
  PROVE  Ahead(st, l, Append(a, p), w \ {p})
<1>1. CASE st = "parallel"
  <2>1. ASSUME NEW m \in Speakers
        PROVE  Times(l, m) = Times(Append(a, p), m) + IF m \in w \ {p} THEN 1 ELSE 0
    <3>1. p \in Speakers
      BY DEF Speakers
    <3>2. Times(l, m) = Times(a, m) + IF m \in w THEN 1 ELSE 0
      BY <1>1 DEF Ahead
    <3>3. Times(Append(a, p), m) = Times(a, m) + IF p = m THEN 1 ELSE 0
      BY <3>1, TimesAppend
    <3>4. Times(a, m) \in Nat
      BY <3>1, TimesAppend
    <3> QED BY <3>2, <3>3, <3>4
  <2> QED BY <1>1, <2>1 DEF Ahead
<1>2. CASE st # "parallel"
  <2>1. w = {p} /\ w \ {p} = {} /\ l = Append(a, p)
    BY <1>2 DEF Ahead
  <2> QED BY <1>2, <2>1 DEF Ahead
<1> QED BY <1>1, <1>2

\* the manager records a task and puts it out
LEMMA AheadBoth ==
  ASSUME NEW st, NEW l \in Seq(Speakers), NEW a \in Seq(Speakers), Ahead(st, l, a, {}), NEW x \in Speakers
  PROVE  Ahead(st, Append(l, x), Append(a, x), {})
<1>1. CASE st = "parallel"
  <2>1. ASSUME NEW m \in Speakers
        PROVE  Times(Append(l, x), m) = Times(Append(a, x), m) + IF m \in {} THEN 1 ELSE 0
    <3>1. Times(l, m) = Times(a, m) + 0 /\ Times(a, m) \in Nat
      BY <1>1, TimesAppend DEF Ahead
    <3>2. /\ Times(Append(l, x), m) = Times(l, m) + IF x = m THEN 1 ELSE 0
          /\ Times(Append(a, x), m) = Times(a, m) + IF x = m THEN 1 ELSE 0
      BY TimesAppend
    <3> QED BY <3>1, <3>2
  <2> QED BY <1>1, <2>1 DEF Ahead
<1>2. CASE st # "parallel"
  BY <1>2 DEF Ahead
<1> QED BY <1>1, <1>2

\* what a run has added when it begins, and with one message more
LEMMA AddedTypes ==
  ASSUME NEW t \in Seq(Speakers), NEW b \in Nat, b <= Len(t)
  PROVE  /\ AddedTo(t, b) \in Seq(Speakers)
         /\ \A x \in Speakers : AddedTo(Append(t, x), b) = Append(AddedTo(t, b), x)
<1>1. AddedTo(t, b) \in Seq(Speakers) /\ Len(AddedTo(t, b)) = Len(t) - b
      /\ \A i \in 1..(Len(t) - b) : AddedTo(t, b)[i] = t[b + i]
  BY DEF AddedTo
<1>2. ASSUME NEW x \in Speakers PROVE AddedTo(Append(t, x), b) = Append(AddedTo(t, b), x)
  <2> DEFINE u == Append(t, x)
             n == Len(t)
             s == AddedTo(u, b)
             r == AddedTo(t, b)
             e == Append(r, x)
  <2>1. u \in Seq(Speakers) /\ Len(u) = n + 1 /\ n \in Nat /\ u[n + 1] = x /\ \A i \in 1..n : u[i] = t[i]
    OBVIOUS
  <2> HIDE DEF u
  <2>2. s \in Seq(Speakers) /\ Len(s) = n + 1 - b /\ \A i \in 1..(n + 1 - b) : s[i] = u[b + i]
    BY <2>1 DEF AddedTo
  <2> HIDE DEF n, s, r
  <2>3. e \in Seq(Speakers) /\ Len(e) = n - b + 1 /\ e[n - b + 1] = x /\ \A i \in 1..(n - b) : e[i] = r[i]
    BY <1>1, <1>2, <2>1 DEF n, r
  <2>4. ASSUME NEW i \in 1..(n + 1 - b) PROVE s[i] = e[i]
    <3>1. CASE i = n + 1 - b
      <4>1. b + i = n + 1 /\ i = n - b + 1
        BY <2>1, <3>1
      <4> QED BY <2>1, <2>2, <2>3, <4>1
    <3>2. CASE i # n + 1 - b
      <4>1. i \in 1..(n - b) /\ b + i \in 1..n
        BY <2>1, <3>2 DEF n
      <4>2. r[i] = t[b + i]
        BY <1>1, <4>1 DEF r, n
      <4> QED BY <2>1, <2>2, <2>3, <4>1, <4>2
    <3> QED BY <3>1, <3>2
  <2> HIDE DEF e
  <2>5. s = e
    <3>1. Len(s) = Len(e) /\ Len(s) = n + 1 - b
      BY <2>1, <2>2, <2>3
    <3> QED BY <2>2, <2>3, <2>4, <3>1, SeqEqual
  <2> QED BY <2>5 DEF s, e, r, u
<1> QED BY <1>1, <1>2

\* a run that added nothing
LEMMA AddedNone ==
  ASSUME NEW t \in Seq(Speakers)
  PROVE  AddedTo(t, Len(t)) = <<>>
<1>1. AddedTo(t, Len(t)) \in Seq(Speakers) /\ Len(AddedTo(t, Len(t))) = 0
  BY DEF AddedTo
<1> HIDE DEF AddedTo
<1> QED BY <1>1

\* the source of a log message or of a response
LogOf(e) == Word(e, {"log"}, Manager)
ResponseOf(e) == Word(e, {"response"}, Manager)

\* what one message says of its kind
LEMMA WordOf ==
  ASSUME NEW e \in Mail
  PROVE  /\ LogOf(e) = IF e.kind = "log" THEN <<e.who>> ELSE <<>>
         /\ ResponseOf(e) = IF e.kind = "response" THEN <<e.who>> ELSE <<>>
         /\ LogOf(e) \in Seq(Speakers) /\ ResponseOf(e) \in Seq(Speakers)
<1>1. e.kind \in {"log", "response"} => e.who # Manager
  BY MailKinds, Team
<1>2. Word(e, {"log"}, Manager) \in Seq(Speakers) /\ Word(e, {"response"}, Manager) \in Seq(Speakers)
  BY WordType
<1> QED BY <1>1, <1>2 DEF LogOf, ResponseOf, Word

\* one more message in a queue, and one less
LEMMA LinesAppend ==
  ASSUME NEW q \in Seq(Mail), NEW e \in Mail
  PROVE  /\ LogsIn(Append(q, e)) = Join(LogsIn(q), LogOf(e))
         /\ ResponsesIn(Append(q, e)) = Join(ResponsesIn(q), ResponseOf(e))
BY WordsAppend DEF LogsIn, ResponsesIn, LogOf, ResponseOf, Join

\* the logs and responses of a queue, from its head on
LEMMA LinesTail ==
  ASSUME NEW q \in Seq(Mail), q # <<>>
  PROVE  /\ LogsIn(q) = Join(LogOf(Head(q)), LogsIn(Tail(q)))
         /\ ResponsesIn(q) = Join(ResponseOf(Head(q)), ResponsesIn(Tail(q)))
BY WordsTail DEF LogsIn, ResponsesIn, LogOf, ResponseOf, Join

\* they are sequences of sources
LEMMA LinesTypes ==
  ASSUME NEW q \in Seq(Mail)
  PROVE  LogsIn(q) \in Seq(Speakers) /\ ResponsesIn(q) \in Seq(Speakers)
BY WordsType DEF LogsIn, ResponsesIn

\* a queue without them says nothing
LEMMA LinesSilent ==
  ASSUME NEW q \in Seq(Mail)
  PROVE  /\ (\A i \in DOMAIN q : q[i].kind # "log") => LogsIn(q) = <<>>
         /\ (\A i \in DOMAIN q : q[i].kind # "response") => ResponsesIn(q) = <<>>
<1>1. ASSUME \A i \in DOMAIN q : q[i].kind # "log" PROVE LogsIn(q) = <<>>
  <2>1. \A i \in DOMAIN q : q[i].kind \notin {"log"}
    BY <1>1
  <2> QED BY <2>1, WordsSilent DEF LogsIn
<1>2. ASSUME \A i \in DOMAIN q : q[i].kind # "response" PROVE ResponsesIn(q) = <<>>
  <2>1. \A i \in DOMAIN q : q[i].kind \notin {"response"}
    BY <1>2
  <2> QED BY <2>1, WordsSilent DEF ResponsesIn
<1> QED BY <1>1, <1>2

\* requests add none
LEMMA LinesRequests ==
  ASSUME NEW q \in Seq(Mail), NEW s \in Seq(Members)
  PROVE  LogsIn(q \o Requests(s)) = LogsIn(q) /\ ResponsesIn(q \o Requests(s)) = ResponsesIn(q)
<1>1. ASSUME NEW kinds, "request" \notin kinds PROVE Words(q \o Requests(s), kinds, Manager) = Words(q, kinds, Manager)
  BY ONLY <1>1, RequestsTellNothing, q \in Seq(Mail), s \in Seq(Members)
<1> QED BY <1>1 DEF LogsIn, ResponsesIn

\* LogsOut and ResponsesOut after a step
LEMMA OutNext ==
  /\ LogsOut' = Join(LogsIn(inbox'[Manager]), LogsIn(bus'))
  /\ ResponsesOut' = Join(ResponsesIn(Answered'), ResponsesIn(bus'))
  /\ Added' = AddedTo(thread', began')
BY DEF LogsOut, ResponsesOut, Added, AddedTo, LogsIn, ResponsesIn, Words, Says, NotBy, Join

\* what is under way is mail
LEMMA OutTypes ==
  ASSUME ActiveInv
  PROVE  /\ bus \in Seq(Mail) /\ inbox[Manager] \in Seq(Mail) /\ Answered \in Seq(Mail)
         /\ LogsIn(bus) \in Seq(Speakers) /\ LogsIn(inbox[Manager]) \in Seq(Speakers)
         /\ ResponsesIn(bus) \in Seq(Speakers) /\ ResponsesIn(Answered) \in Seq(Speakers)
         /\ LogsOut \in Seq(Speakers) /\ ResponsesOut \in Seq(Speakers)
<1>1. /\ bus \in Seq(Mail) /\ inbox[Manager] \in Seq(Mail) /\ Answered \in Seq(Mail)
  BY AnsweredTyped DEF ActiveInv, Shapes
<1>2. /\ LogsIn(bus) \in Seq(Speakers) /\ LogsIn(inbox[Manager]) \in Seq(Speakers)
      /\ ResponsesIn(bus) \in Seq(Speakers) /\ ResponsesIn(Answered) \in Seq(Speakers)
  BY <1>1, LinesTypes
<1> QED BY <1>1, <1>2, JoinType DEF LogsOut, ResponsesOut

\* what is published last is got last
LEMMA OutPublished ==
  ASSUME ActiveInv, NEW e \in Mail, bus' = Append(bus, e), inbox'[Manager] = inbox[Manager], Answered' = Answered
  PROVE  LogsOut' = Join(LogsOut, LogOf(e)) /\ ResponsesOut' = Join(ResponsesOut, ResponseOf(e))
<1>1. /\ LogsIn(bus') = Join(LogsIn(bus), LogOf(e)) /\ ResponsesIn(bus') = Join(ResponsesIn(bus), ResponseOf(e))
      /\ LogOf(e) \in Seq(Speakers) /\ ResponseOf(e) \in Seq(Speakers)
  BY OutTypes, LinesAppend, WordOf
<1>2. /\ LogsOut' = Join(LogsIn(inbox[Manager]), Join(LogsIn(bus), LogOf(e)))
      /\ ResponsesOut' = Join(ResponsesIn(Answered), Join(ResponsesIn(bus), ResponseOf(e)))
  BY <1>1, OutNext
<1> QED BY <1>1, <1>2, OutTypes, JoinRegroup DEF LogsOut, ResponsesOut

\* a delivery keeps what is under way
LEMMA OutDelivered ==
  ASSUME ActiveInv, Deliver
  PROVE  LogsOut' = LogsOut /\ ResponsesOut' = ResponsesOut
<1> DEFINE e == Head(bus)
           t == Tail(bus)
           q == inbox[Manager]
           r == Answered
<1> USE Team
<1>1. /\ bus \in Seq(Mail) /\ q \in Seq(Mail) /\ r \in Seq(Mail) /\ bus # <<>> /\ e.kind # "error"
  BY OutTypes DEF Deliver
<1>2. /\ e \in Mail /\ t \in Seq(Mail) /\ bus' = t
      /\ LogsIn(bus) = Join(LogOf(e), LogsIn(t)) /\ ResponsesIn(bus) = Join(ResponseOf(e), ResponsesIn(t))
  BY <1>1, LinesTail DEF Deliver
<1>3. /\ inbox'[Manager] = IF Manager \in Audience(e) THEN Append(q, e) ELSE q
      /\ selecting' = selecting
  BY DEF Deliver, managerVars
<1>4. Answered' = IF Manager \in Audience(e) THEN Append(r, e) ELSE r
  <2>1. CASE selecting
    <3>1. q # <<>> /\ Answered = Tail(q) /\ Answered' = Tail(inbox'[Manager])
      BY <1>3, <2>1 DEF ActiveInv, SelectingHolds, Answered
    <3>2. Tail(Append(q, e)) = Append(Tail(q), e)
      BY <1>1, <1>2, <3>1, AppendLast
    <3> QED BY <1>3, <3>1, <3>2
  <2>2. CASE ~selecting
    BY <1>3, <2>2 DEF Answered
  <2> QED BY <2>1, <2>2
<1>5. /\ e.kind \in {"log", "response"} => Manager \in Audience(e)
      /\ LogOf(e) = IF e.kind = "log" THEN <<e.who>> ELSE <<>>
      /\ ResponseOf(e) = IF e.kind = "response" THEN <<e.who>> ELSE <<>>
      /\ LogOf(e) \in Seq(Speakers) /\ ResponseOf(e) \in Seq(Speakers)
  BY <1>2, WordOf, MailKinds DEF Audience
<1> HIDE DEF e, t, q, r
<1>6. LogsIn(t) \in Seq(Speakers) /\ ResponsesIn(t) \in Seq(Speakers)
      /\ LogsIn(q) \in Seq(Speakers) /\ ResponsesIn(r) \in Seq(Speakers)
  BY <1>1, <1>2, LinesTypes
<1>7. LogsIn(inbox'[Manager]) = Join(LogsIn(q), LogOf(e)) /\ ResponsesIn(Answered') = Join(ResponsesIn(r), ResponseOf(e))
  <2>1. CASE Manager \in Audience(e)
    <3>1. /\ LogsIn(Append(q, e)) = Join(LogsIn(q), LogOf(e))
          /\ ResponsesIn(Append(r, e)) = Join(ResponsesIn(r), ResponseOf(e))
      BY <1>1, <1>2, LinesAppend
    <3> QED BY <1>3, <1>4, <2>1, <3>1
  <2>2. CASE Manager \notin Audience(e)
    <3>1. LogOf(e) = <<>> /\ ResponseOf(e) = <<>>
      BY <1>5, <2>2
    <3>2. Join(LogsIn(q), <<>>) = LogsIn(q) /\ Join(ResponsesIn(r), <<>>) = ResponsesIn(r)
      BY <1>6, JoinEmpty
    <3> QED BY <1>3, <1>4, <2>2, <3>1, <3>2
  <2> QED BY <2>1, <2>2
<1>8. /\ LogsOut' = Join(Join(LogsIn(q), LogOf(e)), LogsIn(t))
      /\ ResponsesOut' = Join(Join(ResponsesIn(r), ResponseOf(e)), ResponsesIn(t))
      /\ LogsOut = Join(LogsIn(q), Join(LogOf(e), LogsIn(t)))
      /\ ResponsesOut = Join(ResponsesIn(r), Join(ResponseOf(e), ResponsesIn(t)))
  BY <1>2, <1>7, OutNext DEF LogsOut, ResponsesOut, q, r
<1>9. LogOf(e) \in Seq(Speakers) /\ ResponseOf(e) \in Seq(Speakers)
  BY ONLY <1>5
<1>10. LogsOut' = LogsOut
  BY ONLY <1>6, <1>8, <1>9, JoinRegroup
<1>11. ResponsesOut' = ResponsesOut
  BY ONLY <1>6, <1>8, <1>9, JoinRegroup
<1> QED BY <1>10, <1>11

\* a handler of the manager takes the head of its line
LEMMA OutHandled ==
  ASSUME ActiveInv, ManagerStep
  PROVE  /\ LogsOut = Join(LogOf(Head(inbox[Manager])), LogsOut')
         /\ ResponsesOut = Join(IF selecting THEN <<>> ELSE ResponseOf(Head(inbox[Manager])), ResponsesOut')
         /\ LogsOut' \in Seq(Speakers) /\ ResponsesOut' \in Seq(Speakers)
<1> DEFINE q == inbox[Manager]
           h == Head(q)
           t == Tail(q)
<1>1. q \in Seq(Mail) /\ bus \in Seq(Mail) /\ q # <<>> /\ Answered \in Seq(Mail)
  BY OutTypes, ManagerShape
<1>2. /\ h \in Mail /\ t \in Seq(Mail)
      /\ LogsIn(q) = Join(LogOf(h), LogsIn(t)) /\ ResponsesIn(q) = Join(ResponseOf(h), ResponsesIn(t))
  BY <1>1, LinesTail
<1>3. LogsIn(bus') = LogsIn(bus) /\ ResponsesIn(bus') = ResponsesIn(bus)
  <2>1. CASE bus' = bus
    BY <2>1
  <2>2. CASE bus' = Append(bus, Envelope("relay", User))
    <3> DEFINE e == Envelope("relay", User)
    <3>1. e \in Mail /\ e.kind = "relay"
      BY TeamAssumption DEF Envelope, Passing, Mail
    <3> HIDE DEF e
    <3>2. LogsIn(Append(bus, e)) = Join(LogsIn(bus), <<>>) /\ ResponsesIn(Append(bus, e)) = Join(ResponsesIn(bus), <<>>)
      BY <1>1, <3>1, LinesAppend, WordOf
    <3> QED BY <2>2, <3>2, OutTypes, JoinEmpty DEF e
  <2>3. ASSUME NEW s \in Seq(Members), bus' = bus \o Requests(s)
        PROVE  LogsIn(bus') = LogsIn(bus) /\ ResponsesIn(bus') = ResponsesIn(bus)
    <3>1. LogsIn(bus \o Requests(s)) = LogsIn(bus) /\ ResponsesIn(bus \o Requests(s)) = ResponsesIn(bus)
      BY ONLY <1>1, LinesRequests, s \in Seq(Members)
    <3> QED BY ONLY <2>3, <3>1
  <2> QED BY <2>1, <2>2, <2>3, ManagerShape
<1>4. /\ Answered' = IF selecting THEN Answered ELSE t
      /\ ~selecting => Answered = q
      /\ inbox'[Manager] = t \/ (inbox'[Manager] = q /\ selecting')
  <2>1. inbox \in [Agents -> Seq(Mail)] /\ Manager \in Agents
    BY Team DEF ActiveInv, Shapes
  <2> QED BY <2>1, ManagerAnswers, ManagerShape DEF Finished
<1>5. /\ LogOf(h) = IF h.kind = "log" THEN <<h.who>> ELSE <<>>
      /\ LogOf(h) \in Seq(Speakers) /\ ResponseOf(h) \in Seq(Speakers)
  BY <1>2, WordOf
<1>6. selecting' => h.kind # "log"
  BY <1>1 DEF ManagerStep, StartRefused, StartInvalid, HandleResume, HandleLog, HandleStart, HandleResponse, Handling,
     SelectSpeakers, SelectionFails, SelectionCancelled, ActiveInv, SelectingHolds, managerVars
<1> HIDE DEF q, h, t
<1>7. /\ LogsIn(t) \in Seq(Speakers) /\ ResponsesIn(t) \in Seq(Speakers) /\ LogsIn(bus) \in Seq(Speakers)
      /\ ResponsesIn(bus) \in Seq(Speakers) /\ ResponsesIn(Answered) \in Seq(Speakers)
  BY <1>1, <1>2, LinesTypes
<1>8. LogsIn(q) = Join(LogOf(h), LogsIn(inbox'[Manager])) /\ LogsIn(inbox'[Manager]) \in Seq(Speakers)
  <2>1. CASE inbox'[Manager] = t
    BY <1>2, <1>7, <2>1
  <2>2. CASE inbox'[Manager] = q /\ selecting'
    <3>1. LogsIn(q) \in Seq(Speakers) /\ LogOf(h) = <<>>
      BY <1>1, <1>5, <1>6, <2>2, LinesTypes
    <3> QED BY <2>2, <3>1, JoinEmpty
  <2> QED BY <1>4, <2>1, <2>2
<1>9. /\ ResponsesIn(Answered) = Join(IF selecting THEN <<>> ELSE ResponseOf(h), ResponsesIn(Answered'))
      /\ ResponsesIn(Answered') \in Seq(Speakers)
  <2>1. CASE selecting
    BY <1>4, <1>7, <2>1, JoinEmpty
  <2>2. CASE ~selecting
    BY <1>2, <1>4, <1>7, <2>2
  <2> QED BY <2>1, <2>2
<1>10. /\ LogsOut' = Join(LogsIn(inbox'[Manager]), LogsIn(bus))
       /\ ResponsesOut' = Join(ResponsesIn(Answered'), ResponsesIn(bus))
       /\ LogsOut = Join(LogsIn(q), LogsIn(bus)) /\ ResponsesOut = Join(ResponsesIn(Answered), ResponsesIn(bus))
  BY <1>3, OutNext DEF LogsOut, ResponsesOut, q
<1>11. LogsOut' \in Seq(Speakers) /\ ResponsesOut' \in Seq(Speakers)
  BY ONLY <1>7, <1>8, <1>9, <1>10, JoinType
<1>12. LogsOut = Join(LogOf(h), LogsOut')
  <2>1. LogOf(h) \in Seq(Speakers) /\ LogsIn(bus) \in Seq(Speakers) /\ LogsIn(inbox'[Manager]) \in Seq(Speakers)
    BY ONLY <1>5, <1>7, <1>8
  <2>2. LogsOut = Join(Join(LogOf(h), LogsIn(inbox'[Manager])), LogsIn(bus))
    BY ONLY <1>8, <1>10
  <2>3. LogsOut' = Join(LogsIn(inbox'[Manager]), LogsIn(bus))
    BY ONLY <1>10
  <2> QED BY ONLY <2>1, <2>2, <2>3, JoinRegroup
<1>13. ResponsesOut = Join(IF selecting THEN <<>> ELSE ResponseOf(h), ResponsesOut')
  <2> DEFINE w == IF selecting THEN <<>> ELSE ResponseOf(h)
  <2>1. w \in Seq(Speakers) /\ ResponsesIn(Answered) = Join(w, ResponsesIn(Answered'))
    BY <1>5, <1>9
  <2> HIDE DEF w
  <2>2. ResponsesOut = Join(w, ResponsesOut')
    BY ONLY <1>7, <1>9, <1>10, <2>1, JoinRegroup
  <2> QED BY <2>2 DEF w
<1> QED BY <1>11, <1>12, <1>13 DEF h, q

\* whose responses are in a queue
Responders(q) == {q[j].who : j \in {j \in DOMAIN q : q[j].kind = "response"}}

\* a participant whose log message is in a queue has a response behind it, or is
\* one of B
Leads(q, B) ==
    \A i \in DOMAIN q : q[i].kind = "log" =>
        q[i].who \in B \/ \E j \in DOMAIN q : j > i /\ q[j].kind = "response" /\ q[j].who = q[i].who

\* an empty queue owes no response
LEMMA LeadsEmpty == \A B : Leads(<<>>, B) /\ Responders(<<>>) = {}
BY DEF Leads, Responders

\* who follows may be more
LEMMA LeadsMore ==
  ASSUME NEW q, NEW B, NEW C, Leads(q, B), B \subseteq C
  PROVE  Leads(q, C)
BY DEF Leads

\* a queue that lost its head owes no more
LEMMA LeadsTail ==
  ASSUME NEW q \in Seq(Mail), q # <<>>, NEW B, Leads(q, B)
  PROVE  Leads(Tail(q), B)
<1> DEFINE t == Tail(q)
<1>1. /\ Len(q) \in Nat \ {0} /\ DOMAIN q = 1..Len(q) /\ DOMAIN t = 1..(Len(q) - 1)
      /\ \A i \in DOMAIN t : t[i] = q[i + 1]
  OBVIOUS
<1> HIDE DEF t
<1>2. ASSUME NEW i \in DOMAIN t, t[i].kind = "log"
      PROVE  t[i].who \in B \/ \E j \in DOMAIN t : j > i /\ t[j].kind = "response" /\ t[j].who = t[i].who
  <2>1. i + 1 \in DOMAIN q /\ t[i] = q[i + 1] /\ i \in Nat
    BY <1>1
  <2>2. q[i + 1].who \in B \/ \E j \in DOMAIN q : j > i + 1 /\ q[j].kind = "response" /\ q[j].who = q[i + 1].who
    BY <1>2, <2>1 DEF Leads
  <2>3. CASE \E j \in DOMAIN q : j > i + 1 /\ q[j].kind = "response" /\ q[j].who = q[i + 1].who
    <3>1. PICK j \in DOMAIN q : j > i + 1 /\ q[j].kind = "response" /\ q[j].who = q[i + 1].who
      BY <2>3
    <3>2. j - 1 \in DOMAIN t /\ j - 1 > i /\ (j - 1) + 1 = j
      BY <1>1, <2>1, <3>1
    <3>3. t[j - 1] = q[j]
      BY <1>1, <3>2
    <3> QED BY <2>1, <3>1, <3>2, <3>3
  <2> QED BY <2>1, <2>2, <2>3
<1> QED BY <1>2 DEF Leads, t

\* a message put into a queue: a log is owed a response, a response settles one
LEMMA LeadsAppend ==
  ASSUME NEW q \in Seq(Mail), NEW e \in Mail, NEW B, NEW C, Leads(q, B),
         B \subseteq C \cup (IF e.kind = "response" THEN {e.who} ELSE {}),
         e.kind = "log" => e.who \in C
  PROVE  Leads(Append(q, e), C)
<1> DEFINE r == Append(q, e)
           n == Len(q)
<1>1. /\ n \in Nat /\ DOMAIN q = 1..n /\ DOMAIN r = 1..(n + 1)
      /\ \A i \in DOMAIN q : r[i] = q[i]
      /\ r[n + 1] = e
  OBVIOUS
<1> HIDE DEF r, n
<1>2. ASSUME NEW i \in DOMAIN r, r[i].kind = "log"
      PROVE  r[i].who \in C \/ \E j \in DOMAIN r : j > i /\ r[j].kind = "response" /\ r[j].who = r[i].who
  <2>1. CASE i = n + 1
    BY <1>1, <1>2, <2>1
  <2>2. CASE i # n + 1
    <3>1. i \in DOMAIN q /\ r[i] = q[i] /\ n + 1 > i /\ n + 1 \in DOMAIN r
      BY <1>1, <2>2
    <3>2. q[i].who \in B \/ \E j \in DOMAIN q : j > i /\ q[j].kind = "response" /\ q[j].who = q[i].who
      BY <1>2, <3>1 DEF Leads
    <3>3. CASE q[i].who \in B
      <4>1. q[i].who \in C \/ (e.kind = "response" /\ e.who = q[i].who)
        BY <3>3
      <4> QED BY <1>1, <3>1, <4>1
    <3>4. CASE \E j \in DOMAIN q : j > i /\ q[j].kind = "response" /\ q[j].who = q[i].who
      <4>1. PICK j \in DOMAIN q : j > i /\ q[j].kind = "response" /\ q[j].who = q[i].who
        BY <3>4
      <4>2. j \in DOMAIN r /\ r[j] = q[j]
        BY <1>1
      <4> QED BY <3>1, <4>1, <4>2
    <3> QED BY <3>2, <3>3, <3>4
  <2> QED BY <2>1, <2>2
<1> QED BY <1>2 DEF Leads, r

\* requests neither owe nor settle
LEMMA LeadsRequests ==
  ASSUME NEW q \in Seq(Mail), NEW s \in Seq(Members), NEW B, Leads(q, B)
  PROVE  Leads(q \o Requests(s), B) /\ Responders(q) \subseteq Responders(q \o Requests(s))
<1> DEFINE x == Requests(s)
           r == q \o x
           n == Len(q)
           m == Len(x)
<1>1. x \in Seq(Mail) /\ \A i \in DOMAIN x : x[i].kind = "request"
  <2>1. NoStart(<<>>) /\ <<>> \in Seq(Mail)
    BY DEF NoStart
  <2> QED BY <2>1, NoStartInRequests
<1> HIDE DEF x
<1>2. /\ n \in Nat /\ m \in Nat /\ DOMAIN q = 1..n /\ DOMAIN r = 1..(n + m) /\ DOMAIN x = 1..m
      /\ \A i \in DOMAIN q : r[i] = q[i]
      /\ \A i \in (n + 1)..(n + m) : r[i] = x[i - n]
  BY <1>1
<1> HIDE DEF r, n, m
<1>3. \A i \in DOMAIN q : i \in DOMAIN r /\ r[i] = q[i]
  BY <1>2
<1>4. ASSUME NEW i \in DOMAIN r, r[i].kind = "log" PROVE i \in DOMAIN q
  <2>1. CASE i \notin DOMAIN q
    <3>1. i \in (n + 1)..(n + m) /\ i - n \in DOMAIN x
      BY <1>2, <2>1
    <3> QED BY <1>1, <1>2, <1>4, <3>1
  <2> QED BY <2>1
<1>5. Leads(r, B)
  BY <1>3, <1>4 DEF Leads
<1>6. Responders(q) \subseteq Responders(r)
  BY <1>3 DEF Responders
<1> QED BY <1>5, <1>6 DEF r, x

\* a queue in which nobody follows its log message
LEMMA LeadsNobody ==
  ASSUME NEW q \in Seq(Mail), Leads(q, {}), \A i \in DOMAIN q : q[i].kind # "response"
  PROVE  \A i \in DOMAIN q : q[i].kind # "log"
BY DEF Leads

\* a response put into a queue
LEMMA RespondersAppend ==
  ASSUME NEW q \in Seq(Mail), NEW e \in Mail
  PROVE  Responders(Append(q, e)) = Responders(q) \cup (IF e.kind = "response" THEN {e.who} ELSE {})
<1> DEFINE r == Append(q, e)
           n == Len(q)
<1>1. /\ n \in Nat /\ DOMAIN q = 1..n /\ DOMAIN r = 1..(n + 1)
      /\ \A i \in DOMAIN q : r[i] = q[i]
      /\ r[n + 1] = e
  OBVIOUS
<1> HIDE DEF r, n
<1>2. ASSUME NEW x \in Responders(r) PROVE x \in Responders(q) \cup (IF e.kind = "response" THEN {e.who} ELSE {})
  <2>1. PICK j \in DOMAIN r : r[j].kind = "response" /\ x = r[j].who
    BY <1>2 DEF Responders
  <2>2. CASE j = n + 1
    BY <1>1, <2>1, <2>2
  <2>3. CASE j # n + 1
    <3>1. j \in DOMAIN q /\ r[j] = q[j]
      BY <1>1, <2>3
    <3> QED BY <2>1, <3>1 DEF Responders
  <2> QED BY <2>2, <2>3
<1>3. ASSUME NEW x \in Responders(q) PROVE x \in Responders(r)
  <2>1. PICK j \in DOMAIN q : q[j].kind = "response" /\ x = q[j].who
    BY <1>3 DEF Responders
  <2>2. j \in DOMAIN r /\ r[j] = q[j]
    BY <1>1
  <2> QED BY <2>1, <2>2 DEF Responders
<1>4. e.kind = "response" => e.who \in Responders(r)
  <2>1. n + 1 \in DOMAIN r
    BY <1>1
  <2> QED BY <1>1, <2>1 DEF Responders
<1> QED BY <1>2, <1>3, <1>4 DEF r

\* a response taken from a queue
LEMMA RespondersTail ==
  ASSUME NEW q \in Seq(Mail), q # <<>>
  PROVE  Responders(q) \subseteq Responders(Tail(q)) \cup (IF Head(q).kind = "response" THEN {Head(q).who} ELSE {})
<1> DEFINE t == Tail(q)
<1>1. /\ Len(q) \in Nat \ {0} /\ DOMAIN q = 1..Len(q) /\ DOMAIN t = 1..(Len(q) - 1)
      /\ \A i \in DOMAIN t : t[i] = q[i + 1]
      /\ Head(q) = q[1]
  OBVIOUS
<1> HIDE DEF t
<1>2. ASSUME NEW j \in DOMAIN q, q[j].kind = "response"
      PROVE  q[j].who \in Responders(t) \cup (IF Head(q).kind = "response" THEN {Head(q).who} ELSE {})
  <2>1. CASE j = 1
    BY <1>1, <1>2, <2>1
  <2>2. CASE j # 1
    <3>1. j - 1 \in DOMAIN t /\ (j - 1) + 1 = j
      BY <1>1, <2>2
    <3>2. t[j - 1] = q[j]
      BY <1>1, <3>1
    <3>3. t[j - 1].who \in Responders(t)
      BY <1>2, <3>1, <3>2 DEF Responders
    <3> QED BY <3>2, <3>3
  <2> QED BY <2>1, <2>2
<1> QED BY <1>2 DEF Responders, t

\* the head of a queue, if it is a log message, has its response behind it
LEMMA LeadsHead ==
  ASSUME NEW q \in Seq(Mail), q # <<>>, NEW B, Leads(q, B), Head(q).kind = "log"
  PROVE  Head(q).who \in B \cup Responders(Tail(q))
<1> DEFINE t == Tail(q)
<1>1. /\ Len(q) \in Nat \ {0} /\ DOMAIN q = 1..Len(q) /\ DOMAIN t = 1..(Len(q) - 1)
      /\ \A i \in DOMAIN t : t[i] = q[i + 1]
      /\ Head(q) = q[1] /\ 1 \in DOMAIN q
  OBVIOUS
<1> HIDE DEF t
<1>2. q[1].who \in B \/ \E j \in DOMAIN q : j > 1 /\ q[j].kind = "response" /\ q[j].who = q[1].who
  BY <1>1 DEF Leads
<1>3. CASE \E j \in DOMAIN q : j > 1 /\ q[j].kind = "response" /\ q[j].who = q[1].who
  <2>1. PICK j \in DOMAIN q : j > 1 /\ q[j].kind = "response" /\ q[j].who = q[1].who
    BY <1>3
  <2>2. j - 1 \in DOMAIN t /\ (j - 1) + 1 = j
    BY <1>1, <2>1
  <2>3. t[j - 1] = q[j]
    BY <1>1, <2>2
  <2>4. t[j - 1].who \in Responders(t)
    BY <2>1, <2>2, <2>3 DEF Responders
  <2> QED BY <1>1, <2>1, <2>3, <2>4 DEF t
<1> QED BY <1>1, <1>2, <1>3

\* run_stream awaits its start or reads its stream
Going == caller \in {"sending", "yielding"}

\* the places of the caller, and what it may hold
StreamTypes ==
    /\ result \in Seq(Speakers) /\ out \in Seq(Speakers \cup Signals) /\ began \in Nat
    /\ caller # "idle" => began <= Len(thread)
    /\ caller = "idle" => out = <<>>
    /\ cancelled => ~Going

\* a log message is followed by the response it announces, as long as nothing failed
LogsLead ==
    (rt = "up" /\ Going) => Leads(bus, Logged) /\ Leads(inbox[Manager], Responders(bus) \cup Logged)

\* its parts after a step, with the primes on the variables
LEMMA LeadNext ==
  /\ LogsLead' <=> ((rt' = "up" /\ caller' \in {"sending", "yielding"}) =>
        Leads(bus', Logged') /\ Leads(inbox'[Manager], Responders(bus') \cup Logged'))
  /\ Logged' = {p \in Members : work'[p] = "logged"}
BY DEF LogsLead, Leads, Responders, Going, Logged

\* a log is delivered before the response it announces
LEMMA DeliverLeads ==
  ASSUME ActiveInv, LogsLead, Deliver
  PROVE  LogsLead'
<1> DEFINE e == Head(bus)
           t == Tail(bus)
           q == inbox[Manager]
<1> USE Team
<1>1. /\ bus \in Seq(Mail) /\ q \in Seq(Mail) /\ bus # <<>> /\ e \in Mail /\ t \in Seq(Mail) /\ bus' = t
  BY OutTypes DEF Deliver
<1>2. /\ inbox'[Manager] = IF Manager \in Audience(e) THEN Append(q, e) ELSE q
      /\ UNCHANGED <<rt, caller, work>>
  BY DEF Deliver, memberVars, callerVars
<1>3. SUFFICES ASSUME rt = "up", Going
               PROVE  Leads(t, Logged) /\ Leads(inbox'[Manager], Responders(t) \cup Logged)
  BY <1>1, <1>2, LeadNext DEF Going, Logged
<1>4. Leads(bus, Logged) /\ Leads(q, Responders(bus) \cup Logged)
  BY <1>3 DEF LogsLead
<1>5. Leads(t, Logged)
  BY <1>1, <1>4, LeadsTail
<1>6. Responders(bus) \subseteq Responders(t) \cup (IF e.kind = "response" THEN {e.who} ELSE {})
  BY <1>1, RespondersTail
<1>7. e.kind = "log" => e.who \in Responders(t) \cup Logged
  BY <1>1, <1>4, LeadsHead
<1>8. e.kind = "response" => Manager \in Audience(e)
  BY <1>1, MailKinds DEF Audience
<1> HIDE DEF e, t, q
<1>9. CASE Manager \in Audience(e)
  <2>1. Responders(bus) \cup Logged \subseteq (Responders(t) \cup Logged) \cup (IF e.kind = "response" THEN {e.who} ELSE {})
    BY <1>6
  <2>2. Leads(Append(q, e), Responders(t) \cup Logged)
    BY <1>1, <1>4, <1>7, <2>1, LeadsAppend
  <2> QED BY <1>2, <1>5, <1>9, <2>2
<1>10. CASE Manager \notin Audience(e)
  <2>1. Responders(bus) \cup Logged \subseteq Responders(t) \cup Logged
    BY <1>6, <1>8, <1>10
  <2>2. Leads(q, Responders(t) \cup Logged)
    BY <1>4, <2>1, LeadsMore
  <2> QED BY <1>2, <1>5, <1>10, <2>2
<1> QED BY <1>9, <1>10

\* the manager takes a message or selects
LEMMA ManagerLeads ==
  ASSUME ActiveInv, LogsLead, ManagerStep
  PROVE  LogsLead'
<1>1. /\ bus \in Seq(Mail) /\ inbox[Manager] \in Seq(Mail) /\ inbox[Manager] # <<>>
      /\ UNCHANGED <<work, caller>> /\ rt' \in {rt, "failing", "leaked"}
  BY OutTypes, ManagerShape
<1>2. SUFFICES ASSUME rt = "up", Going
               PROVE  Leads(bus', Logged) /\ Leads(inbox'[Manager], Responders(bus') \cup Logged)
  BY <1>1, LeadNext DEF Going, Logged
<1>3. Leads(bus, Logged) /\ Leads(inbox[Manager], Responders(bus) \cup Logged)
  BY <1>2 DEF LogsLead
<1>4. Leads(bus', Logged) /\ Responders(bus) \subseteq Responders(bus')
  <2>1. CASE bus' = bus
    BY <1>3, <2>1
  <2>2. CASE bus' = Append(bus, Envelope("relay", User))
    <3> DEFINE e == Envelope("relay", User)
    <3>1. e \in Mail /\ e.kind = "relay"
      BY TeamAssumption DEF Envelope, Passing, Mail
    <3> HIDE DEF e
    <3>2. Leads(Append(bus, e), Logged)
      BY <1>1, <1>3, <3>1, LeadsAppend
    <3>3. Responders(bus) \subseteq Responders(Append(bus, e))
      BY <1>1, <3>1, RespondersAppend
    <3> QED BY <2>2, <3>2, <3>3 DEF e
  <2>3. ASSUME NEW s \in Seq(Members), bus' = bus \o Requests(s)
        PROVE  Leads(bus', Logged) /\ Responders(bus) \subseteq Responders(bus')
    <3>1. Leads(bus \o Requests(s), Logged) /\ Responders(bus) \subseteq Responders(bus \o Requests(s))
      BY ONLY <1>1, <1>3, LeadsRequests, s \in Seq(Members)
    <3> QED BY ONLY <2>3, <3>1
  <2> QED BY <2>1, <2>2, <2>3, ManagerShape
<1>5. inbox'[Manager] \in {inbox[Manager], Tail(inbox[Manager])}
  <2>1. inbox \in [Agents -> Seq(Mail)] /\ Manager \in Agents
    BY Team DEF ActiveInv, Shapes
  <2> QED BY <2>1, ManagerShape DEF Finished
<1>6. Leads(inbox'[Manager], Responders(bus) \cup Logged)
  BY <1>1, <1>3, <1>5, LeadsTail
<1>7. Responders(bus) \cup Logged \subseteq Responders(bus') \cup Logged
  BY <1>4
<1> QED BY <1>4, <1>6, <1>7, LeadsMore

\* a participant that logs is about to respond
LEMMA MemberLeads ==
  ASSUME ActiveInv, LogsLead, StreamTypes, NEW p \in Members, MemberStep(p)
  PROVE  LogsLead'
<1> USE Team
<1>1. /\ bus \in Seq(Mail) /\ inbox[Manager] \in Seq(Mail) /\ caller' = caller /\ work \in [Members -> {"idle", "thinking", "logged"}]
      /\ inbox'[Manager] = inbox[Manager]
  <2>1. inbox \in [Agents -> Seq(Mail)] /\ Manager \in Agents /\ p # Manager
    BY DEF ActiveInv, Shapes
  <2> QED BY <2>1, OutTypes, MemberShape DEF Finished, ActiveInv, Shapes
<1>2. SUFFICES ASSUME rt' = "up", Going
               PROVE  Leads(bus', Logged') /\ Leads(inbox[Manager], Responders(bus') \cup Logged')
  BY <1>1, LeadNext DEF Going
<1>3. rt = "up"
  BY <1>2, MemberShape
<1>4. Leads(bus, Logged) /\ Leads(inbox[Manager], Responders(bus) \cup Logged)
  BY <1>2, <1>3 DEF LogsLead
<1>5. ~cancelled
  BY <1>2 DEF StreamTypes
<1>6. CASE BufferMessage(p) \/ CallAgent(p)
  <2>1. bus' = bus /\ Logged' = Logged
    BY <1>1, <1>6 DEF BufferMessage, CallAgent, Logged
  <2> QED BY <1>4, <2>1
<1>7. CASE LogResponse(p)
  <2> DEFINE e == Envelope("log", p)
  <2>1. e \in Mail /\ e.kind = "log" /\ e.who = p
    BY TeamAssumption DEF Envelope, Passing, Mail
  <2>2. bus' = Append(bus, e) /\ Logged' = Logged \cup {p}
    BY <1>1, <1>7 DEF LogResponse, Logged
  <2> HIDE DEF e
  <2>3. Leads(Append(bus, e), Logged \cup {p})
    BY <1>1, <1>4, <2>1, LeadsAppend
  <2>4. Responders(bus) \cup Logged \subseteq Responders(Append(bus, e)) \cup (Logged \cup {p})
    BY <1>1, <2>1, RespondersAppend
  <2> QED BY <1>4, <2>2, <2>3, <2>4, LeadsMore
<1>8. ASSUME NEW target \in Targets, PublishResponse(p, target)
      PROVE  Leads(bus', Logged') /\ Leads(inbox[Manager], Responders(bus') \cup Logged')
  <2> DEFINE e == Passing("response", p, target)
  <2>1. e \in Mail /\ e.kind = "response" /\ e.who = p
    BY <1>8, TeamAssumption DEF Passing, Mail, Targets
  <2>2. bus' = Append(bus, e) /\ Logged' = Logged \ {p}
    BY <1>1, <1>8 DEF PublishResponse, Logged
  <2> HIDE DEF e
  <2>3. Leads(Append(bus, e), Logged \ {p})
    BY <1>1, <1>4, <2>1, LeadsAppend
  <2>4. Responders(bus) \cup Logged \subseteq Responders(Append(bus, e)) \cup (Logged \ {p})
    BY <1>1, <2>1, RespondersAppend
  <2> QED BY <1>4, <2>2, <2>3, <2>4, LeadsMore
<1>9. CASE AgentFails(p) \/ AgentCutOff(p)
  BY <1>2, <1>3, <1>5, <1>9 DEF AgentFails, AgentCutOff, LateOrSilent
<1> QED BY <1>6, <1>7, <1>8, <1>9 DEF MemberStep

\* every step keeps the logs ahead of their responses
LEMMA LeadsInvNext ==
  ASSUME ActiveInv, OffIsEmpty, StreamTypes, LogsLead, [Next]_vars
  PROVE  LogsLead'
<1> USE Team
<1>1. CASE RuntimeStep
  <2>1. CASE Deliver
    BY <2>1, DeliverLeads
  <2>2. CASE DeliverError \/ RaiseInLoop \/ StopWhenIdle
    <3>1. rt' # "up"
      BY <2>2 DEF DeliverError, RaiseInLoop, StopWhenIdle
    <3> QED BY <3>1, LeadNext
  <2> QED BY <1>1, <2>1, <2>2 DEF RuntimeStep
<1>2. CASE ManagerStep
  BY <1>2, ManagerLeads
<1>3. ASSUME NEW p \in Members, MemberStep(p) PROVE LogsLead'
  BY <1>3, MemberLeads
<1>4. ASSUME NEW task \in Tasks, RunStream(task) PROVE LogsLead'
  <2>1. /\ bus' = <<task>> /\ inbox'[Manager] = <<>> /\ task.kind = "start"
    BY <1>4 DEF RunStream, OffIsEmpty, Tasks, Envelope, Passing
  <2>2. Leads(<<task>>, Logged')
    <3>1. DOMAIN <<task>> = {1} /\ <<task>>[1] = task
      OBVIOUS
    <3> QED BY <2>1, <3>1 DEF Leads
  <2> QED BY <2>1, <2>2, LeadsEmpty, LeadNext
<1>5. CASE RunStreamDoomed
  <2>1. rt' # "up"
    BY <1>5 DEF RunStreamDoomed
  <2> QED BY <2>1, LeadNext
<1>6. CASE CallerStep \/ Cancel \/ Reset \/ SaveState \/ LoadState \/ UNCHANGED vars
  <2>1. /\ UNCHANGED <<bus, inbox, work, rt>>
        /\ caller' \in {"sending", "yielding"} => Going
    BY <1>6 DEF CallerStep, StartAnswered, YieldMessage, EndRun, Cancel, Reset, SaveState, LoadState, vars,
       memberVars, callerVars, Going
  <2>2. Logged' = Logged
    BY <2>1 DEF Logged
  <2> QED BY <2>1, <2>2, LeadNext DEF LogsLead
<1> QED BY <1>1, <1>2, <1>3, <1>4, <1>5, <1>6 DEF Next

\* the start of the run was handled
Started == ~selecting /\ NoStart(bus) /\ NoStart(inbox[Manager])

\* nobody will add to the thread in this run
Frozen == Started /\ NobodyIsOut

\* someone is expected who will not answer: the turn never ends
Doomed == Started /\ \E p \in Members : Outstanding(p) < active[p]

\* the turn never ends, or there is none
Stuck == Doomed \/ Frozen

\* the manager selects when nobody is out
SelectingAlone == selecting => NobodyIsOut

\* the places of a run after a step, with the primes on the variables
LEMMA PlaceNext ==
  /\ Started' <=> ~selecting' /\ NoStart(bus') /\ NoStart(inbox'[Manager])
  /\ Frozen' <=> Started' /\ \A p \in Members : Outstanding(p)' = 0
  /\ Doomed' <=> Started' /\ \E p \in Members : Outstanding(p)' < active'[p]
  /\ SelectingAlone' <=> (selecting' => \A p \in Members : Outstanding(p)' = 0)
BY DEF Started, NoStart, Frozen, Doomed, SelectingAlone, NobodyIsOut

\* a count of messages is zero when there are none
LEMMA NotPending ==
  ASSUME NEW q \in Seq(Mail), NEW k, NEW p
  PROVE  /\ Pending(q, k, p) = 0 <=> \A i \in DOMAIN q : ~IsHit(q[i], k, p)
         /\ Pending(q, k, p) \in Nat
<1>1. /\ Pending(q, k, p) = Cardinality(Hits(q, k, p)) /\ IsFiniteSet(Hits(q, k, p)) /\ Pending(q, k, p) \in Nat
  BY HitsFinite
<1>2. Cardinality(Hits(q, k, p)) = 0 <=> Hits(q, k, p) = {}
  BY <1>1, FS_EmptySet
<1>3. Hits(q, k, p) = {} <=> \A i \in DOMAIN q : ~IsHit(q[i], k, p)
  BY DEF Hits, IsHit
<1> QED BY <1>1, <1>2, <1>3

\* who is not out has nothing under way
LEMMA NotOut ==
  ASSUME ActiveInv, NEW p \in Members, Outstanding(p) = 0
  PROVE  /\ \A i \in DOMAIN bus : ~IsHit(bus[i], "response", p)
         /\ \A i \in DOMAIN Answered : ~IsHit(Answered[i], "response", p)
         /\ \A i \in DOMAIN inbox[p] : inbox[p][i].kind # "request"
         /\ work[p] = "idle"
<1>1. /\ bus \in Seq(Mail) /\ Answered \in Seq(Mail) /\ inbox[p] \in Seq(Mail)
      /\ work[p] \in {"idle", "thinking", "logged"}
  BY AnsweredTyped DEF ActiveInv, Shapes
<1>2. /\ Pending(bus, "response", p) \in Nat /\ Pending(bus, "request", p) \in Nat
      /\ Pending(Answered, "response", p) \in Nat /\ Pending(inbox[p], "request", p) \in Nat
  BY <1>1, NotPending
<1>3. Abroad(p) + Pending(inbox[p], "request", p) = 0
  BY OutstandingParts DEF ActiveInv
<1>4. /\ Pending(bus, "response", p) = 0 /\ Pending(Answered, "response", p) = 0
      /\ Pending(inbox[p], "request", p) = 0
  BY <1>2, <1>3 DEF Abroad
<1>5. /\ \A i \in DOMAIN bus : ~IsHit(bus[i], "response", p)
      /\ \A i \in DOMAIN Answered : ~IsHit(Answered[i], "response", p)
      /\ \A i \in DOMAIN inbox[p] : ~IsHit(inbox[p][i], "request", p)
  BY <1>1, <1>4, NotPending
<1>6. \A i \in DOMAIN inbox[p] : inbox[p][i].kind # "request"
  BY <1>5 DEF ActiveInv, RequestsAreOwn, IsHit
<1>7. work[p] = "idle"
  <2>1. inbox[p] # <<>> => 1 \in DOMAIN inbox[p] /\ Head(inbox[p]) = inbox[p][1]
    BY <1>1
  <2> QED BY <1>6, <2>1 DEF ActiveInv, WorkIsAsked
<1> QED BY <1>5, <1>6, <1>7

\* nor have all of them
LEMMA NobodyOut ==
  ASSUME ActiveInv, NobodyIsOut
  PROVE  /\ \A i \in DOMAIN bus : bus[i].kind # "response"
         /\ \A i \in DOMAIN Answered : Answered[i].kind # "response"
         /\ Logged = {} /\ \A p \in Members : work[p] = "idle"
<1>1. bus \in Seq(Mail) /\ Answered \in Seq(Mail)
  BY OutTypes
<1>2. ASSUME NEW q \in Seq(Mail), \A p \in Members : \A i \in DOMAIN q : ~IsHit(q[i], "response", p)
      PROVE  \A i \in DOMAIN q : q[i].kind # "response"
  BY <1>2, MailKinds DEF IsHit
<1>3. \A p \in Members : /\ \A i \in DOMAIN bus : ~IsHit(bus[i], "response", p)
                         /\ \A i \in DOMAIN Answered : ~IsHit(Answered[i], "response", p)
                         /\ work[p] = "idle"
  BY NotOut DEF NobodyIsOut
<1> QED BY <1>1, <1>2, <1>3 DEF Logged

\* the runtime, the manager and the participants send no start
LEMMA StartedStays ==
  ASSUME ActiveInv, caller # "idle", [Next]_vars, Started, ~selecting'
  PROVE  Started'
<1> USE Team
<1>1. /\ bus \in Seq(Mail) /\ inbox[Manager] \in Seq(Mail) /\ inbox \in [Agents -> Seq(Mail)] /\ NoStart(bus) /\ NoStart(inbox[Manager])
  BY OutTypes DEF ActiveInv, Shapes, Started
<1>2. SUFFICES NoStart(bus') /\ NoStart(inbox'[Manager])
  BY PlaceNext
<1>3. ASSUME NEW q \in Seq(Mail), NoStart(q), q # <<>> PROVE NoStart(Tail(q)) /\ Head(q).kind # "start" /\ Head(q) \in Mail
  <2>1. Head(q) = q[1] /\ 1 \in DOMAIN q /\ \A i \in DOMAIN Tail(q) : i + 1 \in DOMAIN q /\ Tail(q)[i] = q[i + 1]
    BY <1>3
  <2> QED BY <1>3, <2>1 DEF NoStart
<1>4. CASE Deliver
  <2>1. /\ bus # <<>> /\ bus' = Tail(bus)
        /\ inbox'[Manager] = IF Manager \in Audience(Head(bus)) THEN Append(inbox[Manager], Head(bus)) ELSE inbox[Manager]
    BY <1>4 DEF Deliver
  <2> QED BY <1>1, <1>3, <2>1, NoStartAppended
<1>5. CASE DeliverError \/ RaiseInLoop \/ StopWhenIdle
  <2>1. bus' \in {bus, <<>>} \/ (bus # <<>> /\ bus' = Tail(bus))
    BY <1>5 DEF DeliverError, RaiseInLoop, StopWhenIdle
  <2>2. inbox' = inbox /\ NoStart(<<>>)
    BY <1>5 DEF DeliverError, RaiseInLoop, StopWhenIdle, NoStart
  <2> QED BY <1>1, <1>3, <2>1, <2>2
<1>6. CASE ManagerStep
  <2>1. NoStart(bus')
    <3>1. CASE bus' = bus
      BY <1>1, <3>1
    <3>2. CASE bus' = Append(bus, Envelope("relay", User))
      <4>1. Envelope("relay", User) \in Mail /\ Envelope("relay", User).kind # "start"
        BY TeamAssumption DEF Envelope, Passing, Mail
      <4> QED BY <1>1, <3>2, <4>1, NoStartAppended
    <3>3. ASSUME NEW s \in Seq(Members), bus' = bus \o Requests(s) PROVE NoStart(bus')
      <4>1. NoStart(bus \o Requests(s))
        BY ONLY <1>1, NoStartInRequests, s \in Seq(Members)
      <4> QED BY ONLY <3>3, <4>1
    <3> QED BY <1>6, <3>1, <3>2, <3>3, ManagerShape
  <2>2. inbox[Manager] # <<>> /\ inbox'[Manager] \in {inbox[Manager], Tail(inbox[Manager])}
    BY <1>1, <1>6, ManagerShape DEF Finished
  <2> QED BY <1>1, <1>3, <2>1, <2>2
<1>7. ASSUME NEW p \in Members, MemberStep(p) PROVE NoStart(bus') /\ NoStart(inbox'[Manager])
  <2>1. inbox'[Manager] = inbox[Manager]
    BY <1>1, <1>7, MemberShape DEF Finished
  <2>2. bus' = bus \/ \E e \in Mail : e.kind \in {"log", "response", "error"} /\ bus' = Append(bus, e)
    BY <1>7, MemberShape
  <2> QED BY <1>1, <2>1, <2>2, NoStartAppended
<1>8. CASE CallerStep \/ Cancel \/ RunStreamDoomed \/ Reset \/ SaveState \/ LoadState \/ UNCHANGED vars
  <2>1. UNCHANGED <<bus, inbox>>
    BY <1>8 DEF CallerStep, StartAnswered, YieldMessage, EndRun, Cancel, RunStreamDoomed, Reset, SaveState, LoadState, vars
  <2> QED BY <1>1, <2>1
<1> QED BY <1>4, <1>5, <1>6, <1>7, <1>8 DEF Next, RuntimeStep, RunStream

\* no step but the manager's asks anyone
LEMMA OthersTally ==
  ASSUME ActiveInv, ActiveInv', HearInv, caller # "idle",
         RuntimeStep \/ (\E p \in Members : MemberStep(p)) \/ CallerStep \/ Cancel \/ UNCHANGED vars
  PROVE  /\ UNCHANGED <<active, thread, selecting, style, began>>
         /\ \A p \in Members : Outstanding(p)' <= Outstanding(p) /\ Outstanding(p)' \in Nat /\ Outstanding(p) \in Nat
<1>1. UNCHANGED <<active, thread, selecting, style, began>>
  BY DEF RuntimeStep, Deliver, DeliverError, RaiseInLoop, StopWhenIdle, MemberStep, BufferMessage, CallAgent, LogResponse,
     PublishResponse, AgentFails, AgentCutOff, CallerStep, StartAnswered, YieldMessage, EndRun, Cancel, RunStreamDoomed,
     vars, managerVars, recordVars, callerVars
<1>2. ASSUME NEW p \in Members PROVE Outstanding(p)' <= Outstanding(p) /\ Outstanding(p)' \in Nat /\ Outstanding(p) \in Nat
  <2>1. Outstanding(p)' \in Nat /\ Outstanding(p) \in Nat
    BY Tally
  <2>2. CASE RuntimeStep
    BY <2>1, <2>2, RuntimeTally
  <2>3. CASE \E n \in Members : MemberStep(n)
    BY <2>1, <2>3, MemberTally
  <2>4. CASE CallerStep \/ Cancel \/ UNCHANGED vars
    <3>1. UNCHANGED <<bus, inbox, selecting>>
      BY <2>4 DEF CallerStep, StartAnswered, YieldMessage, EndRun, Cancel, RunStreamDoomed, vars, managerVars
    <3>2. Outstanding(p)' = Outstanding(p)
      BY <3>1, SameTally
    <3> QED BY <2>1, <3>2
  <2> QED BY <2>2, <2>3, <2>4
<1> QED BY <1>1, <1>2

\* the agent that fails or is cut off is out no more
LEMMA FailTally ==
  ASSUME ActiveInv, ActiveInv', HearInv, NEW p \in Members, AgentFails(p) \/ AgentCutOff(p)
  PROVE  Outstanding(p)' < Outstanding(p)
<1> USE Team
<1>1. /\ inbox \in [Agents -> Seq(Mail)] /\ bus \in Seq(Mail) /\ inbox[p] \in Seq(Mail)
  BY DEF ActiveInv, Shapes
<1>2. MemberStep(p)
  BY DEF MemberStep
<1>3. Answered' = Answered /\ inbox[p] # <<>>
  BY <1>2, MemberAnswers, MemberShape
<1>4. Head(inbox[p]).kind = "request" /\ Head(inbox[p]).who = p
  BY DEF AgentFails, AgentCutOff, ActiveInv, WorkIsAsked
<1>5. inbox'[p] = Tail(inbox[p])
  BY <1>1 DEF AgentFails, AgentCutOff, Finished
<1>6. Pending(inbox[p], "request", p) = Pending(inbox'[p], "request", p) + 1
  <2>1. Pending(inbox[p], "request", p) = Pending(Tail(inbox[p]), "request", p) + IF IsHit(Head(inbox[p]), "request", p) THEN 1 ELSE 0
    BY <1>1, <1>3, PendingTail
  <2> QED BY <1>4, <1>5, <2>1 DEF IsHit
<1>7. Pending(bus', "request", p) = Pending(bus, "request", p) /\ Pending(bus', "response", p) = Pending(bus, "response", p)
  <2> DEFINE e == Envelope("error", p)
  <2>1. e \in Mail /\ ~IsHit(e, "request", p) /\ ~IsHit(e, "response", p)
    BY TeamAssumption DEF Envelope, Passing, Mail, IsHit
  <2>2. bus' = Append(bus, e) \/ bus' = bus
    BY DEF AgentFails, AgentCutOff
  <2> HIDE DEF e
  <2>3. CASE bus' = Append(bus, e)
    <3>1. /\ Pending(bus', "request", p) = Pending(bus, "request", p) + 0
          /\ Pending(bus', "response", p) = Pending(bus, "response", p) + 0
      BY <1>1, <2>1, <2>3, BusAppend
    <3> QED BY ONLY <3>1, Tally, ActiveInv, ActiveInv', p \in Members
  <2>4. CASE bus' = bus
    BY ONLY <2>4
  <2> QED BY <2>2, <2>3, <2>4
<1> QED BY ONLY <1>3, <1>6, <1>7, Tally, ActiveInv, ActiveInv', p \in Members

\* the handlers of the manager, by whether they go on to select
LEMMA ManagerHandles ==
  ASSUME ActiveInv, ActiveInv', StartIsAlone, ManagerStep, ~selecting
  PROVE  \/ Head(inbox[Manager]).kind = "start" /\ NobodyIsOut /\ UNCHANGED active
         \/ HandleLog /\ Head(inbox[Manager]).kind = "log"
         \/ \E o \in Conditions : HandleResponse(o) /\ Head(inbox[Manager]).kind = "response"
<1>1. inbox[Manager] # <<>>
  BY ManagerShape
<1>2. \/ HandleLog
      \/ \E o \in Conditions : HandleResponse(o)
      \/ Head(inbox[Manager]).kind = "start" /\ UNCHANGED active
  BY DEF ManagerStep, StartRefused, StartInvalid, HandleResume, HandleStart, Handling, SelectSpeakers, SelectionFails,
     SelectionCancelled, managerVars
<1>3. Head(inbox[Manager]).kind = "start" => NobodyIsOut
  BY <1>1, StartTally
<1> QED BY <1>2, <1>3 DEF HandleLog, HandleResponse, Handling

\* the manager settles at most the response at the head of its line
LEMMA ManagerTallies ==
  ASSUME ActiveInv, ActiveInv', ManagerStep, ~selecting, NEW p \in Members
  PROVE  /\ Outstanding(p) = Outstanding(p)' + IF IsHit(Head(inbox[Manager]), "response", p) THEN 1 ELSE 0
         /\ Outstanding(p) \in Nat /\ Outstanding(p)' \in Nat
<1>1. bus' = bus \/ bus' = Append(bus, Envelope("relay", User))
  BY DEF ManagerStep, StartRefused, StartInvalid, HandleResume, HandleStart, HandleLog, HandleResponse, SelectSpeakers,
     SelectionFails, SelectionCancelled
<1> QED BY <1>1, HandlerTally, Tally

\* the effect of a response on who is expected
LEMMA ResponseStrikes ==
  ASSUME ActiveInv, \E o \in Conditions : HandleResponse(o)
  PROVE  /\ Head(inbox[Manager]) \in Mail /\ Head(inbox[Manager]).who \in Members
         /\ Head(inbox[Manager]).kind = "response"
         /\ \A p \in Members : /\ active[p] \in Nat
                               /\ p = Head(inbox[Manager]).who => active[p] > 0 /\ active'[p] = active[p] - 1
                               /\ p # Head(inbox[Manager]).who => active'[p] = active[p]
<1> DEFINE m == Head(inbox[Manager])
<1>1. inbox[Manager] \in Seq(Mail) /\ inbox[Manager] # <<>> /\ active \in [Members -> Nat] /\ m.kind = "response"
  BY OutTypes DEF ActiveInv, Shapes, HandleResponse, Handling
<1>2. m \in Mail /\ m.who \in Members
  BY <1>1, MailKinds
<1>3. active[m.who] > 0 /\ active' = [active EXCEPT ![m.who] = @ - 1]
  BY DEF HandleResponse
<1> QED BY <1>1, <1>2, <1>3

\* the manager selects when nobody it asked is still to answer
LEMMA SelectingAloneNext ==
  ASSUME ActiveInv, ActiveInv', HearInv, SelectingAlone, [Next]_vars
  PROVE  SelectingAlone'
<1>1. SUFFICES ASSUME selecting', NEW p \in Members PROVE Outstanding(p)' = 0
  BY PlaceNext
<1>2. CASE caller = "idle"
  <2>1. inbox[Manager] = <<>> /\ bus = <<>> /\ \A n \in Members : inbox[n] = <<>>
    BY <1>2, Team DEF HearInv, OffIsEmpty
  <2>2. ~selecting
    BY <2>1 DEF ActiveInv, SelectingHolds
  <2>3. ~RuntimeStep /\ ~ManagerStep /\ \A n \in Members : ~MemberStep(n)
    BY <1>2, WorkNeedsRuntime DEF HearInv
  <2>4. selecting' = selecting
    BY <2>3 DEF Next, CallerStep, StartAnswered, YieldMessage, EndRun, RunStream, Cancel, RunStreamDoomed, Reset, SaveState, LoadState,
       vars, managerVars
  <2> QED BY <1>1, <2>2, <2>4
<1>3. CASE caller # "idle" /\ (RuntimeStep \/ (\E n \in Members : MemberStep(n)) \/ CallerStep \/ Cancel \/ UNCHANGED vars)
  <2>1. selecting' = selecting /\ Outstanding(p)' <= Outstanding(p) /\ Outstanding(p)' \in Nat
    BY <1>3, OthersTally
  <2>2. Outstanding(p) = 0
    BY <1>1, <2>1 DEF SelectingAlone, NobodyIsOut
  <2> QED BY <2>1, <2>2
<1>4. CASE ManagerStep
  <2>1. ~selecting
    BY <1>1, <1>4, ManagerShape
  <2>2. Outstanding(p) = Outstanding(p)' + (IF IsHit(Head(inbox[Manager]), "response", p) THEN 1 ELSE 0)
        /\ Outstanding(p) \in Nat /\ Outstanding(p)' \in Nat
    BY <1>4, <2>1, ManagerTallies
  <2>3. CASE NobodyIsOut
    BY <2>2, <2>3 DEF NobodyIsOut
  <2>4. CASE HandleLog
    BY <1>1, <2>1, <2>4 DEF HandleLog, managerVars
  <2>5. ASSUME NEW o, HandleResponse(o) PROVE Outstanding(p)' = 0
    <3>1. active' = Nobody
      BY <1>1, <2>1, <2>5 DEF HandleResponse
    <3>2. Outstanding(p)' <= active'[p]
      BY DEF ActiveInv, RespondersAreActive
    <3>3. active'[p] = 0
      BY <3>1 DEF Nobody
    <3> QED BY <2>2, <3>2, <3>3
  <2> QED BY <1>4, <2>1, <2>3, <2>4, <2>5, ManagerHandles DEF HearInv
<1> QED BY <1>2, <1>3, <1>4 DEF Next, RunStream, RunStreamDoomed, Reset, SaveState, LoadState

\* a thread nobody is to answer to does not grow before the run returns
LEMMA FrozenStays ==
  ASSUME ActiveInv, ActiveInv', HearInv, caller # "idle", [Next]_vars, Frozen
  PROVE  Frozen' /\ UNCHANGED <<thread, began, style>>
<1>1. ~selecting /\ NobodyIsOut /\ NoStart(inbox[Manager]) /\ Started
  BY DEF Frozen, Started
<1>2. CASE RuntimeStep \/ (\E n \in Members : MemberStep(n)) \/ CallerStep \/ Cancel \/ UNCHANGED vars
  <2>1. /\ UNCHANGED <<thread, began, style, selecting>>
        /\ \A p \in Members : Outstanding(p)' <= Outstanding(p) /\ Outstanding(p)' \in Nat
    BY <1>2, OthersTally
  <2>2. \A p \in Members : Outstanding(p)' = 0
    BY <1>1, <2>1 DEF NobodyIsOut
  <2> QED BY <1>1, <2>1, <2>2, StartedStays, PlaceNext
<1>3. CASE ManagerStep
  <2>1. inbox[Manager] \in Seq(Mail) /\ inbox[Manager] # <<>> /\ Answered = inbox[Manager]
    BY <1>1, <1>3, OutTypes, ManagerShape DEF Answered
  <2>2. 1 \in DOMAIN inbox[Manager] /\ Head(inbox[Manager]) = inbox[Manager][1]
    BY <2>1
  <2>3. Head(inbox[Manager]).kind \notin {"start", "response"}
    BY <1>1, <2>1, <2>2, NobodyOut DEF NoStart
  <2>4. HandleLog
    BY <1>1, <1>3, <2>3, ManagerHandles DEF HearInv
  <2>5. UNCHANGED <<thread, began, style, selecting>>
    BY <2>4 DEF HandleLog, managerVars, recordVars, callerVars
  <2>6. ASSUME NEW p \in Members PROVE Outstanding(p)' = 0
    <3>1. Outstanding(p) = Outstanding(p)' + 0 /\ Outstanding(p)' \in Nat
      BY <1>1, <1>3, <2>3, ManagerTallies DEF IsHit
    <3> QED BY <1>1, <3>1 DEF NobodyIsOut
  <2> QED BY <1>1, <2>5, <2>6, StartedStays, PlaceNext
<1> QED BY <1>2, <1>3 DEF Next, RunStream, RunStreamDoomed, Reset, SaveState, LoadState

\* an expected answer that never comes keeps the manager from going on
LEMMA DoomedManager ==
  ASSUME ActiveInv, ActiveInv', HearInv, ManagerStep, caller # "idle", Doomed
  PROVE  /\ Doomed' /\ rt' = rt
         /\ out' = out \/ \E x \in Speakers : out' = Append(out, x)
<1> DEFINE m == Head(inbox[Manager])
<1>1. PICK p \in Members : Outstanding(p) < active[p]
  BY DEF Doomed
<1>2. ~selecting /\ NoStart(inbox[Manager]) /\ Started
  BY DEF Doomed, Started
<1>3. inbox[Manager] \in Seq(Mail) /\ inbox[Manager] # <<>> /\ m \in Mail /\ m = inbox[Manager][1] /\ 1 \in DOMAIN inbox[Manager]
  BY OutTypes, ManagerShape
<1>4. m.kind # "start"
  BY <1>2, <1>3 DEF NoStart
<1>5. /\ Outstanding(p) = Outstanding(p)' + (IF IsHit(m, "response", p) THEN 1 ELSE 0)
      /\ Outstanding(p) \in Nat /\ Outstanding(p)' \in Nat /\ active[p] \in Nat
  BY <1>2, ManagerTallies DEF ActiveInv, Shapes
<1>6. [Next]_vars
  BY DEF Next
<1>7. CASE HandleLog /\ m.kind = "log"
  <2>1. UNCHANGED <<active, rt, selecting>> /\ out' = Append(out, m.who)
    BY <1>7 DEF HandleLog, managerVars
  <2>2. m.who \in Speakers
    BY <1>3, <1>7, MailKinds DEF Speakers
  <2>3. Outstanding(p)' < active'[p]
    BY <1>1, <1>5, <1>7, <2>1 DEF IsHit
  <2> QED BY <1>2, <1>6, <2>1, <2>2, <2>3, StartedStays, PlaceNext
<1>8. ASSUME NEW o \in Conditions, HandleResponse(o), m.kind = "response"
      PROVE  Doomed' /\ rt' = rt /\ out' = out
  <2>1. /\ m.who \in Members /\ active[p] \in Nat
        /\ p = m.who => active[p] > 0 /\ active'[p] = active[p] - 1
        /\ p # m.who => active'[p] = active[p]
    <3>1. \E c \in Conditions : HandleResponse(c)
      BY <1>8
    <3> QED BY <3>1, ResponseStrikes
  <2>2. Outstanding(p)' < active'[p]
    <3>1. CASE p = m.who
      BY <1>1, <1>5, <1>8, <2>1, <3>1 DEF IsHit
    <3>2. CASE p # m.who
      BY <1>1, <1>5, <2>1, <3>2 DEF IsHit
    <3> QED BY <3>1, <3>2
  <2>3. active' # Nobody
    BY <1>5, <2>2 DEF Nobody
  <2>4. UNCHANGED <<rt, selecting, out>>
    BY <1>8, <2>1, <2>3 DEF HandleResponse
  <2> QED BY <1>2, <1>6, <2>2, <2>4, StartedStays, PlaceNext
<1> QED BY <1>2, <1>4, <1>7, <1>8, ManagerHandles DEF HearInv

\* a participant that will never answer stays expected until the run returns
LEMMA DoomedStays ==
  ASSUME ActiveInv, ActiveInv', HearInv, caller # "idle", [Next]_vars, Doomed
  PROVE  Doomed'
<1>1. ~selecting /\ Started
  BY DEF Doomed, Started
<1>2. CASE RuntimeStep \/ (\E n \in Members : MemberStep(n)) \/ CallerStep \/ Cancel \/ UNCHANGED vars
  <2>1. /\ UNCHANGED <<active, selecting>>
        /\ \A p \in Members : Outstanding(p)' <= Outstanding(p) /\ Outstanding(p)' \in Nat /\ Outstanding(p) \in Nat
    BY <1>2, OthersTally
  <2>2. PICK p \in Members : Outstanding(p) < active[p]
    BY DEF Doomed
  <2>3. active[p] \in Nat
    BY DEF ActiveInv, Shapes
  <2>4. Outstanding(p)' < active'[p]
    BY <2>1, <2>2, <2>3
  <2> QED BY <1>1, <2>1, <2>4, StartedStays, PlaceNext
<1>3. CASE ManagerStep
  BY <1>3, DoomedManager
<1> QED BY <1>2, <1>3 DEF Next, RunStream, RunStreamDoomed, Reset, SaveState, LoadState

\* a turn that never ends, or none
LEMMA StuckStays ==
  ASSUME ActiveInv, ActiveInv', HearInv, caller # "idle", [Next]_vars, Stuck
  PROVE  Stuck'
<1>1. Doomed' \/ Frozen'
  BY DoomedStays, FrozenStays DEF Stuck
<1> QED BY <1>1 DEF Stuck

\* and all the manager does is pass on the messages that were logged
LEMMA StuckManager ==
  ASSUME ActiveInv, ActiveInv', HearInv, ManagerStep, caller # "idle", Stuck
  PROVE  /\ rt' = rt
         /\ out' = out \/ \E x \in Speakers : out' = Append(out, x)
<1>1. CASE Doomed
  BY <1>1, DoomedManager
<1>2. CASE Frozen
  <2>1. ~selecting /\ NobodyIsOut /\ NoStart(inbox[Manager])
    BY <1>2 DEF Frozen, Started
  <2>2. inbox[Manager] \in Seq(Mail) /\ inbox[Manager] # <<>> /\ Answered = inbox[Manager]
    BY <2>1, OutTypes, ManagerShape DEF Answered
  <2>3. 1 \in DOMAIN inbox[Manager] /\ Head(inbox[Manager]) = inbox[Manager][1]
    BY <2>2
  <2>4. Head(inbox[Manager]).kind \notin {"start", "response"}
    BY <2>1, <2>2, <2>3, NobodyOut DEF NoStart
  <2>5. HandleLog /\ Head(inbox[Manager]).kind = "log"
    BY <2>1, <2>4, ManagerHandles DEF HearInv
  <2>6. Head(inbox[Manager]).who \in Speakers
    BY <2>2, <2>3, <2>5, MailKinds DEF Speakers
  <2> QED BY <2>5, <2>6 DEF HandleLog
<1> QED BY <1>1, <1>2 DEF Stuck

\* what run_stream yielded and will yield, and what the run added and will add to
\* the thread
Yielding == Join(Join(result, out), LogsOut)
Adding == Join(Added, ResponsesOut)
InStep == Ahead(style, Yielding, Adding, Logged)

\* no end of the stream is in the output queue: it is in step with the thread, or
\* the runtime fails and no turn will end
StreamOpen == out \in Seq(Speakers) /\ (rt = "up" => InStep) /\ (rt # "up" => Stuck)

\* a list of one
One(x) == <<x>>

\* the stream has its end; if it is a termination, what comes before it is what
\* the run added
StreamClosed ==
    \E u \in Seq(Speakers), sig \in Signals, v \in Seq(Speakers \cup Signals) :
        /\ out = Join(u, Join(One(sig), v))
        /\ sig = "stop" => Frozen /\ Ahead(style, Join(result, u), Added, {})

\* the parts of the invariant after a step, with the primes on the variables
LEMMA StreamNext ==
  /\ InStep' <=> Ahead(style', Join(Join(result', out'), LogsOut'), Join(Added', ResponsesOut'), Logged')
  /\ StreamOpen' <=> out' \in Seq(Speakers) /\ (rt' = "up" => InStep') /\ (rt' # "up" => Stuck')
  /\ StreamClosed' <=> \E u \in Seq(Speakers), sig \in Signals, v \in Seq(Speakers \cup Signals) :
        /\ out' = Join(u, Join(One(sig), v))
        /\ sig = "stop" => Frozen' /\ Ahead(style', Join(result', u), Added', {})
<1>1. InStep' <=> Ahead(style', Join(Join(result', out'), LogsOut'), Join(Added', ResponsesOut'), Logged')
  BY DEF InStep, Yielding, Adding, Ahead, Times, Join
<1>2. StreamOpen' <=> out' \in Seq(Speakers) /\ (rt' = "up" => InStep') /\ (rt' # "up" => Stuck')
  BY DEF StreamOpen
<1>3. StreamClosed' <=> \E u \in Seq(Speakers), sig \in Signals, v \in Seq(Speakers \cup Signals) :
        /\ out' = Join(u, Join(One(sig), v))
        /\ sig = "stop" => Frozen' /\ Ahead(style', Join(result', u), Added', {})
  BY DEF StreamClosed, Ahead, Times, Join, One
<1> QED BY <1>1, <1>2, <1>3

\* no source is taken for the end of a stream
LEMMA SpeakersAreNoSignals == Speakers \cap Signals = {}
BY TeamAssumption DEF Speakers, Signals, Agents, User

\* a sequence over a set is one over a larger set
LEMMA WiderSeq == \A S, T : \A s \in Seq(S) : s \in Seq(S \cup T)
<1> TAKE S, T
<1> TAKE s \in Seq(S)
<1>1. Len(s) \in Nat /\ \A i \in 1..Len(s) : s[i] \in S \cup T
  OBVIOUS
<1> QED BY <1>1

\* an element at the end, at the head
LEMMA JoinEnds ==
  ASSUME NEW S, NEW s \in Seq(S), NEW x \in S
  PROVE  /\ Append(s, x) = Join(s, One(x)) /\ One(x) \in Seq(S)
         /\ Join(One(x), s) # <<>> /\ Head(Join(One(x), s)) = x /\ Tail(Join(One(x), s)) = s
<1>1. Append(s, x) = Join(s, One(x)) /\ One(x) \in Seq(S)
  BY DEF Join, One
<1>2. Join(One(x), s) # <<>> /\ Head(Join(One(x), s)) = x /\ Tail(Join(One(x), s)) = s
  BY DEF Join, One
<1> QED BY <1>1, <1>2

\* a sequence is its head and its tail
LEMMA JoinParts ==
  ASSUME NEW S, NEW s \in Seq(S), s # <<>>
  PROVE  s = Join(One(Head(s)), Tail(s)) /\ Head(s) \in S /\ Tail(s) \in Seq(S)
BY DEF Join, One

\* the message the caller takes from the queue goes to its result
LEMMA JoinShifts ==
  ASSUME NEW S, NEW r \in Seq(S), NEW s \in Seq(S), s # <<>>
  PROVE  Join(Append(r, Head(s)), Tail(s)) = Join(r, s)
<1> DEFINE h == Head(s)
           z == Tail(s)
<1>1. s = Join(One(h), z) /\ h \in S /\ z \in Seq(S)
  BY JoinParts
<1> HIDE DEF h, z
<1>2. One(h) \in Seq(S) /\ Append(r, h) = Join(r, One(h))
  BY <1>1, JoinEnds
<1>3. Join(Join(r, One(h)), z) = Join(r, Join(One(h), z))
  <2>1. z \in Seq(S) /\ One(h) \in Seq(S)
    BY <1>1, <1>2
  <2> QED BY ONLY <2>1, JoinRegroup, r \in Seq(S)
<1>4. Join(Append(r, h), z) = Join(r, s)
  BY ONLY <1>1, <1>2, <1>3
<1> QED BY <1>4 DEF h, z

\* the head and the tail of a sequence joined with another
LEMMA JoinHead ==
  ASSUME NEW S, NEW s \in Seq(S), s # <<>>, NEW t \in Seq(S)
  PROVE  Join(s, t) # <<>> /\ Head(Join(s, t)) = Head(s) /\ Tail(Join(s, t)) = Join(Tail(s), t)
<1> DEFINE h == Head(s)
           z == Tail(s)
           y == Join(z, t)
<1>1. s = Join(One(h), z) /\ h \in S /\ z \in Seq(S)
  BY JoinParts
<1> HIDE DEF h, z
<1>2. One(h) \in Seq(S) /\ y \in Seq(S)
  BY <1>1, JoinType, JoinEnds
<1>3. Join(Join(One(h), z), t) = Join(One(h), Join(z, t))
  <2>1. z \in Seq(S) /\ One(h) \in Seq(S)
    BY <1>1, <1>2
  <2> QED BY ONLY <2>1, JoinRegroup, t \in Seq(S)
<1>4. Join(s, t) = Join(One(h), y)
  BY ONLY <1>1, <1>3
<1> HIDE DEF y
<1>5. Join(One(h), y) # <<>> /\ Head(Join(One(h), y)) = h /\ Tail(Join(One(h), y)) = y
  BY <1>1, <1>2, JoinEnds
<1>6. Join(s, t) # <<>> /\ Head(Join(s, t)) = h /\ Tail(Join(s, t)) = y
  BY ONLY <1>4, <1>5
<1> QED BY <1>6 DEF h, z, y

\* the end is put into the queue
LEMMA Closes ==
  ASSUME NEW u \in Seq(Speakers), NEW sig \in Signals, out' = Append(u, sig),
         sig = "stop" => Frozen' /\ Ahead(style', Join(result', u), Added', {})
  PROVE  StreamClosed'
<1>1. u \in Seq(Speakers \cup Signals) /\ <<>> \in Seq(Speakers \cup Signals) /\ sig \in Speakers \cup Signals
  BY WiderSeq
<1>2. Append(u, sig) = Join(u, One(sig)) /\ Join(One(sig), <<>>) = One(sig)
  BY <1>1, JoinEnds, JoinEmpty
<1>3. out' = Join(u, Join(One(sig), <<>>))
  BY ONLY <1>2, out' = Append(u, sig)
<1> QED BY <1>1, <1>3, StreamNext

\* what stop_runtime puts into the queue
LEMMA StopAdds ==
  ASSUME NEW T, out \in Seq(T), StopWhenIdle
  PROVE  /\ rt = "up" => out' = Append(out, "stop")
         /\ rt # "up" => out' = out \/ out' = Append(out, "error")
<1>1. out' = out \o Signal
  BY DEF StopWhenIdle
<1>2. out \o <<"stop">> = Append(out, "stop") /\ out \o <<"error">> = Append(out, "error") /\ out \o <<>> = out
  OBVIOUS
<1>3. CASE rt = "up"
  <2>1. Signal = <<"stop">>
    BY <1>3 DEF Signal
  <2> QED BY ONLY <1>1, <1>2, <1>3, <2>1
<1>4. CASE rt # "up"
  <2>1. Signal = <<>> \/ Signal = <<"error">>
    BY <1>4 DEF Signal
  <2> QED BY ONLY <1>1, <1>2, <1>4, <2>1
<1> QED BY <1>3, <1>4

\* nobody but the caller takes from the queue
LEMMA OutGrows ==
  ASSUME ActiveInv, out \in Seq(Speakers \cup Signals),
         RuntimeStep \/ ManagerStep \/ \E p \in Members : MemberStep(p)
  PROVE  /\ UNCHANGED <<result, began, style, caller, cancelled>>
         /\ \E w \in Seq(Speakers \cup Signals) : out' = Join(out, w)
<1> DEFINE T == Speakers \cup Signals
<1>1. UNCHANGED <<result, began, style, caller, cancelled>>
  BY DEF RuntimeStep, Deliver, DeliverError, RaiseInLoop, StopWhenIdle, MemberStep, BufferMessage, CallAgent, LogResponse,
     PublishResponse, AgentFails, AgentCutOff, ManagerStep, StartRefused, StartInvalid, HandleResume, HandleStart, HandleLog,
     HandleResponse, SelectSpeakers, SelectionFails, SelectionCancelled, callerVars
<1>2. "stop" \in T /\ "error" \in T /\ User \in T
  BY DEF Signals, Speakers
<1>3. \/ out' = out \/ (\E x \in T : out' = Append(out, x))
      \/ out' = out \o <<User, "stop">>
  <2>1. CASE Deliver \/ DeliverError \/ RaiseInLoop \/ \E p \in Members : MemberStep(p)
    BY <1>2, <2>1 DEF Deliver, DeliverError, RaiseInLoop, MemberStep, BufferMessage, CallAgent, LogResponse,
     PublishResponse, AgentFails, AgentCutOff
  <2>2. CASE HandleLog
    <3>1. inbox[Manager] \in Seq(Mail) /\ inbox[Manager] # <<>> /\ Head(inbox[Manager]).kind = "log" /\ out' = Append(out, Head(inbox[Manager]).who)
      BY <2>2, OutTypes DEF HandleLog, Handling
    <3>2. Head(inbox[Manager]).who \in T
      BY <3>1, MailKinds DEF Speakers
    <3> QED BY <3>1, <3>2
  <2>3. CASE ManagerStep /\ ~HandleLog
    BY <1>2, <2>3 DEF ManagerStep, StartRefused, StartInvalid, HandleResume, HandleStart,
     HandleResponse, SelectSpeakers, SelectionFails, SelectionCancelled, StartFails, ResponseFails, ResponseCutOff
  <2>4. CASE StopWhenIdle
    <3>1. out' = out \/ out' = Append(out, "stop") \/ out' = Append(out, "error")
      BY <2>4, StopAdds
    <3> QED BY <1>2, <3>1
  <2> QED BY <2>1, <2>2, <2>3, <2>4 DEF RuntimeStep
<1> HIDE DEF T
<1>4. CASE out' = out
  <2>1. <<>> \in Seq(T) /\ Join(out, <<>>) = out
    BY JoinEmpty
  <2> QED BY <1>1, <1>4, <2>1 DEF T
<1>5. ASSUME NEW x \in T, out' = Append(out, x) PROVE \E w \in Seq(T) : out' = Join(out, w)
  BY <1>5, JoinEnds DEF T
<1>6. CASE out' = out \o <<User, "stop">>
  <2>1. <<User, "stop">> \in Seq(T)
    BY <1>2
  <2> QED BY <1>1, <1>6, <2>1 DEF Join, T
<1> QED BY <1>1, <1>3, <1>4, <1>5, <1>6 DEF T

\* a stream that has its end keeps it until run_stream reads it
LEMMA ClosedStays ==
  ASSUME ActiveInv, ActiveInv', HearInv, caller # "idle", out \in Seq(Speakers \cup Signals), StreamClosed,
         RuntimeStep \/ ManagerStep \/ \E p \in Members : MemberStep(p)
  PROVE  StreamClosed'
<1> DEFINE T == Speakers \cup Signals
<1>1. [Next]_vars
  BY DEF Next
<1>2. PICK u \in Seq(Speakers), sig \in Signals, v \in Seq(T) :
        /\ out = Join(u, Join(One(sig), v))
        /\ sig = "stop" => Frozen /\ Ahead(style, Join(result, u), Added, {})
  BY DEF StreamClosed
<1>3. PICK w \in Seq(T) : out' = Join(out, w)
  BY OutGrows
<1>4. UNCHANGED <<result, style, began>>
  BY OutGrows
<1>5. sig = "stop" => Frozen' /\ Ahead(style', Join(result', u), Added', {})
  <2>1. SUFFICES ASSUME sig = "stop" PROVE Frozen' /\ Ahead(style', Join(result', u), Added', {})
    OBVIOUS
  <2>2. Frozen' /\ thread' = thread
    BY <1>1, <1>2, <2>1, FrozenStays
  <2>3. Added' = Added
    BY <1>4, <2>2, OutNext DEF Added
  <2> QED BY <1>2, <1>4, <2>1, <2>2, <2>3
<1>6. u \in Seq(T) /\ One(sig) \in Seq(T)
  BY WiderSeq, JoinEnds
<1> HIDE DEF T
<1>7. Join(v, w) \in Seq(T) /\ Join(One(sig), v) \in Seq(T)
  BY <1>6, JoinType
<1>8. Join(Join(u, Join(One(sig), v)), w) = Join(u, Join(Join(One(sig), v), w))
  BY ONLY <1>6, <1>7, JoinRegroup, w \in Seq(T)
<1>9. Join(Join(One(sig), v), w) = Join(One(sig), Join(v, w))
  BY ONLY <1>6, <1>7, JoinRegroup, w \in Seq(T), v \in Seq(T)
<1>10. out' = Join(u, Join(One(sig), Join(v, w)))
  BY ONLY <1>2, <1>3, <1>8, <1>9
<1> QED BY <1>5, <1>7, <1>10, StreamNext DEF T

\* the sequences compared are sequences of sources
LEMMA StreamParts ==
  ASSUME ActiveInv, HearTypes, StreamTypes, caller # "idle", out \in Seq(Speakers)
  PROVE  /\ result \in Seq(Speakers) /\ thread \in Seq(Speakers) /\ began \in Nat /\ began <= Len(thread)
         /\ Join(result, out) \in Seq(Speakers) /\ LogsOut \in Seq(Speakers) /\ Yielding \in Seq(Speakers)
         /\ Added \in Seq(Speakers) /\ ResponsesOut \in Seq(Speakers) /\ Adding \in Seq(Speakers)
<1>1. result \in Seq(Speakers) /\ thread \in Seq(Speakers) /\ began \in Nat /\ began <= Len(thread)
  BY DEF StreamTypes, HearTypes
<1>2. Added \in Seq(Speakers)
  BY <1>1, AddedTypes DEF Added
<1>3. LogsOut \in Seq(Speakers) /\ ResponsesOut \in Seq(Speakers) /\ Join(result, out) \in Seq(Speakers)
  BY <1>1, OutTypes, JoinType
<1> QED BY <1>1, <1>2, <1>3, JoinType DEF Yielding, Adding

\* a step that neither yields nor adds keeps them in step
LEMMA InStepKept ==
  ASSUME InStep, UNCHANGED <<style, result, out, thread, began, work>>, LogsOut' = LogsOut, ResponsesOut' = ResponsesOut
  PROVE  InStep'
<1>1. Added' = Added /\ Logged' = Logged
  BY OutNext DEF Added, Logged
<1> QED BY <1>1, StreamNext DEF InStep, Yielding, Adding

\* NobodyOut after a step
LEMMA NobodyOutNext ==
  ASSUME ActiveInv, ActiveInv', \A p \in Members : Outstanding(p)' = 0
  PROVE  /\ \A i \in DOMAIN bus' : bus'[i].kind # "response"
         /\ \A i \in DOMAIN Answered' : Answered'[i].kind # "response"
         /\ Logged' = {} /\ bus' \in Seq(Mail) /\ Answered' \in Seq(Mail)
<1>1. bus' \in Seq(Mail) /\ inbox' \in [Agents -> Seq(Mail)] /\ SelectingHolds'
      /\ work' \in [Members -> {"idle", "thinking", "logged"}]
  BY DEF ActiveInv, Shapes
<1>2. Answered' \in Seq(Mail)
  <2>1. Manager \in Agents
    BY Team
  <2> QED BY <1>1, <2>1 DEF Answered, SelectingHolds
<1>3. ASSUME NEW p \in Members
      PROVE  /\ \A i \in DOMAIN bus' : ~IsHit(bus'[i], "response", p)
             /\ \A i \in DOMAIN Answered' : ~IsHit(Answered'[i], "response", p)
             /\ work'[p] # "logged"
  <2>1. inbox'[p] \in Seq(Mail)
    BY <1>1, Team
  <2>2. /\ Pending(bus', "response", p) = 0 /\ Pending(Answered', "response", p) = 0
        /\ Pending(inbox'[p], "request", p) = 0
    BY ONLY Tally, ActiveInv, ActiveInv', p \in Members, \A n \in Members : Outstanding(n)' = 0
  <2>3. /\ \A i \in DOMAIN bus' : ~IsHit(bus'[i], "response", p)
        /\ \A i \in DOMAIN Answered' : ~IsHit(Answered'[i], "response", p)
        /\ \A i \in DOMAIN inbox'[p] : ~IsHit(inbox'[p][i], "request", p)
    BY <1>1, <1>2, <2>1, <2>2, NotPending
  <2>4. ASSUME work'[p] = "logged" PROVE FALSE
    <3>1. inbox'[p] # <<>> /\ IsHit(Head(inbox'[p]), "request", p)
      BY <2>4 DEF ActiveInv, WorkIsAsked, IsHit
    <3>2. 1 \in DOMAIN inbox'[p] /\ Head(inbox'[p]) = inbox'[p][1]
      BY <2>1, <3>1
    <3> QED BY <2>3, <3>1, <3>2
  <2> QED BY <2>3, <2>4
<1>4. ASSUME NEW q \in Seq(Mail), \A p \in Members : \A i \in DOMAIN q : ~IsHit(q[i], "response", p)
      PROVE  \A i \in DOMAIN q : q[i].kind # "response"
  BY <1>4, MailKinds DEF IsHit
<1>5. Logged' = {}
  BY <1>3, LeadNext
<1> QED BY <1>1, <1>2, <1>3, <1>4, <1>5

\* what the manager finds when it handles the start, and leaves
LEMMA StartOut ==
  ASSUME ActiveInv, ActiveInv', StartIsAlone, ManagerStep, ~selecting, Head(inbox[Manager]).kind = "start"
  PROVE  /\ LogsOut = <<>> /\ ResponsesOut = <<>> /\ Logged = {}
         /\ LogsOut' = <<>> /\ ResponsesOut' = <<>> /\ Logged' = {}
         /\ ~selecting' => Frozen'
<1>1. inbox[Manager] \in Seq(Mail) /\ inbox[Manager] # <<>> /\ UNCHANGED work /\ bus \in Seq(Mail)
  BY OutTypes, ManagerShape
<1>2. 1 \in DOMAIN inbox[Manager] /\ inbox[Manager][1] = Head(inbox[Manager])
  BY <1>1
<1>3. Len(inbox[Manager]) = 1 /\ bus = <<>> /\ \A p \in Members : inbox[p] = <<>>
  BY <1>2 DEF StartIsAlone
<1>4. NobodyIsOut /\ Answered = inbox[Manager]
  BY <1>1, StartTally DEF Answered
<1>5. Logged = {} /\ Logged' = {}
  <2>1. Logged = {}
    BY <1>4, NobodyOut
  <2> QED BY <1>1, <2>1 DEF Logged
<1>6. LogsOut = <<>> /\ ResponsesOut = <<>>
  <2>1. \A i \in DOMAIN inbox[Manager] : inbox[Manager][i].kind = "start"
    BY <1>1, <1>2, <1>3
  <2>2. LogsIn(inbox[Manager]) = <<>> /\ ResponsesIn(inbox[Manager]) = <<>>
    BY <1>1, <2>1, LinesSilent
  <2>3. LogsIn(bus) = <<>> /\ ResponsesIn(bus) = <<>>
    <3>1. \A i \in DOMAIN bus : bus[i].kind # "log" /\ bus[i].kind # "response"
      BY <1>3
    <3> QED BY <1>1, <3>1, LinesSilent
  <2>4. Join(<<>>, <<>>) = <<>>
    BY JoinEmpty, <<>> \in Seq(Speakers)
  <2> QED BY <1>4, <2>2, <2>3, <2>4 DEF LogsOut, ResponsesOut
<1>7. LogsOut' = <<>> /\ ResponsesOut' = <<>>
  <2> DEFINE h == Head(inbox[Manager])
  <2>1. h \in Mail /\ LogOf(h) = <<>> /\ ResponseOf(h) = <<>>
    BY <1>1, WordOf
  <2> HIDE DEF h
  <2>2. LogsOut = Join(<<>>, LogsOut') /\ ResponsesOut = Join(<<>>, ResponsesOut')
        /\ LogsOut' \in Seq(Speakers) /\ ResponsesOut' \in Seq(Speakers)
    BY <2>1, OutHandled DEF h
  <2> QED BY <1>6, <2>2, JoinEmpty
<1>8. ASSUME ~selecting' PROVE Frozen'
  <2>1. inbox'[Manager] = <<>>
    <3>1. inbox'[Manager] = Tail(inbox[Manager])
      BY <1>8, ManagerShape, Team DEF Finished, ActiveInv, Shapes
    <3>2. Tail(inbox[Manager]) \in Seq(Mail) /\ Len(Tail(inbox[Manager])) = 0
      BY <1>1, <1>3
    <3>3. \A t \in Seq(Mail) : Len(t) = 0 => t = <<>>
      OBVIOUS
    <3> QED BY <3>1, <3>2, <3>3
  <2>2. NoStart(bus') /\ NoStart(inbox'[Manager])
    <3>1. NoStart(<<>>) /\ NoStart(bus)
      BY <1>3 DEF NoStart
    <3>2. bus' = bus \/ bus' = Append(bus, Envelope("relay", User))
      BY DEF ManagerStep, StartRefused, StartInvalid, HandleResume, HandleStart, HandleLog, HandleResponse, SelectSpeakers,
         SelectionFails, SelectionCancelled
    <3>3. Envelope("relay", User) \in Mail /\ Envelope("relay", User).kind # "start"
      BY TeamAssumption DEF Envelope, Passing, Mail
    <3> QED BY <1>1, <2>1, <3>1, <3>2, <3>3, NoStartAppended
  <2>3. ASSUME NEW p \in Members PROVE Outstanding(p)' = 0
    <3>1. Outstanding(p) = Outstanding(p)' + 0 /\ Outstanding(p)' \in Nat
      BY ManagerTallies DEF IsHit
    <3> QED BY <1>4, <3>1 DEF NobodyIsOut
  <2> QED BY <1>8, <2>2, <2>3, PlaceNext
<1> QED BY <1>5, <1>6, <1>7, <1>8

\* the stream after the start was handled
LEMMA StartStreams ==
  ASSUME ActiveInv, ActiveInv', HearInv, StreamTypes, Going, ManagerStep, ~selecting, rt = "up",
         Head(inbox[Manager]).kind = "start", StreamOpen
  PROVE  StreamOpen' \/ StreamClosed'
<1> DEFINE s == Join(result, out)
<1>1. /\ LogsOut = <<>> /\ ResponsesOut = <<>> /\ Logged = {}
      /\ LogsOut' = <<>> /\ ResponsesOut' = <<>> /\ Logged' = {}
      /\ ~selecting' => Frozen'
  BY StartOut DEF HearInv
<1>2. /\ out \in Seq(Speakers) /\ InStep /\ caller # "idle" /\ ~cancelled
  BY DEF StreamOpen, Going, StreamTypes
<1>3. /\ result \in Seq(Speakers) /\ thread \in Seq(Speakers) /\ began \in Nat /\ began <= Len(thread)
      /\ s \in Seq(Speakers) /\ Added \in Seq(Speakers)
  BY <1>2, StreamParts DEF HearInv
<1>4. User \in Speakers /\ "stop" \in Signals /\ "stop" # "error"
  BY DEF Speakers, Signals
<1>5. Ahead(style, s, Added, {})
  <2>1. Join(s, <<>>) = s /\ Join(Added, <<>>) = Added
    BY <1>3, JoinEmpty
  <2> QED BY <1>1, <1>2, <2>1 DEF InStep, Yielding, Adding
<1>6. UNCHANGED <<result, began, style>>
  BY <1>2, OutGrows DEF StreamTypes
<1>7. /\ InStep' <=> Ahead(style', Join(Join(result', out'), <<>>), Join(Added', <<>>), {})
      /\ Added' = AddedTo(thread', began')
  BY <1>1, StreamNext, OutNext
<1>8. ASSUME UNCHANGED <<thread, out, rt>> PROVE StreamOpen'
  <2>1. Added' = Added
    BY <1>6, <1>7, <1>8 DEF Added
  <2>2. Join(s, <<>>) = s /\ Join(Added, <<>>) = Added
    BY <1>3, JoinEmpty
  <2>3. InStep'
    BY <1>5, <1>6, <1>7, <1>8, <2>1, <2>2
  <2> QED BY <1>2, <1>8, <2>3, StreamNext
<1>9. CASE StartRefused
  <2>1. thread' = thread /\ selecting' = selecting /\ out' = Append(out, "stop")
    BY <1>9 DEF StartRefused, managerVars, recordVars
  <2>2. Added' = Added
    BY <1>6, <1>7, <2>1 DEF Added
  <2>3. Frozen' /\ Ahead(style', Join(result', out), Added', {})
    BY <1>1, <1>5, <1>6, <2>1, <2>2
  <2> QED BY <1>2, <1>4, <2>1, <2>3, Closes
<1>10. CASE StartInvalid \/ HandleResume
  BY <1>2, <1>8, <1>10 DEF StartInvalid, HandleResume, StartFails, managerVars, recordVars
<1>11. ASSUME NEW o \in Conditions, HandleStart(o) PROVE StreamOpen' \/ StreamClosed'
  <2> DEFINE u == Append(out, User)
  <2>1. thread' = Append(thread, User)
    BY <1>11 DEF HandleStart, Record
  <2>2. Added' = Append(Added, User)
    BY <1>3, <1>4, <1>6, <1>7, <2>1, AddedTypes DEF Added
  <2>3. Ahead(style, Append(s, User), Append(Added, User), {})
    BY <1>3, <1>4, <1>5, AheadBoth
  <2>4. u \in Seq(Speakers) /\ Append(s, User) = Join(result, u)
    <3>1. u \in Seq(Speakers)
      BY <1>2, <1>4
    <3>2. result \o Append(out, User) = Append(result \o out, User)
      BY ONLY <1>2, <1>3, <1>4, ConcatAppend
    <3> QED BY ONLY <3>1, <3>2 DEF Join, u, s
  <2>5. Append(s, User) \in Seq(Speakers) /\ Append(Added, User) \in Seq(Speakers)
    BY <1>3, <1>4
  <2> HIDE DEF u, s
  <2>6. CASE out' = u /\ rt' = rt
    <3>1. Join(Join(result, u), <<>>) = Join(result, u) /\ Join(Added', <<>>) = Added'
      BY <2>2, <2>4, <2>5, JoinEmpty
    <3>2. InStep'
      BY <1>6, <1>7, <2>2, <2>3, <2>4, <2>6, <3>1
    <3> QED BY <2>4, <2>6, <3>2, StreamNext
  <2>7. CASE out' = out \o <<User, "stop">> /\ ~selecting'
    <3>1. out' = Append(u, "stop")
      BY <1>2, <1>4, <2>7 DEF u
    <3>2. Frozen' /\ Ahead(style', Join(result', u), Added', {})
      BY <1>1, <1>6, <2>2, <2>3, <2>4, <2>7
    <3> QED BY <1>4, <2>4, <3>1, <3>2, Closes
  <2>8. \/ out' = u /\ rt' = rt
        \/ out' = out \o <<User, "stop">> /\ ~selecting'
    BY <1>2, <1>11 DEF HandleStart, StartFails, Terminate, u
  <2> QED BY <2>6, <2>7, <2>8
<1>12. ~HandleLog /\ \A o \in Conditions : ~HandleResponse(o)
  BY DEF HandleLog, HandleResponse, Handling
<1> QED BY <1>9, <1>10, <1>11, <1>12 DEF ManagerStep, SelectSpeakers, SelectionFails, SelectionCancelled

\* a log handled by the manager goes from its line to the stream
LEMMA LogStreams ==
  ASSUME ActiveInv, HearTypes, StreamTypes, Going, ManagerStep, HandleLog, rt = "up", StreamOpen, ~selecting
  PROVE  StreamOpen'
<1> DEFINE h == Head(inbox[Manager])
           x == h.who
           s == Join(result, out)
<1>1. /\ out \in Seq(Speakers) /\ InStep /\ caller # "idle"
  BY DEF StreamOpen, Going, StreamTypes
<1>2. s \in Seq(Speakers) /\ result \in Seq(Speakers)
  BY <1>1, StreamParts
<1>3. /\ inbox[Manager] \in Seq(Mail) /\ inbox[Manager] # <<>> /\ h.kind = "log"
  BY OutTypes DEF HandleLog, Handling
<1>4. h \in Mail /\ x \in Speakers /\ LogOf(h) = One(x) /\ ResponseOf(h) = <<>>
  BY <1>3, WordOf, MailKinds DEF Speakers, One
<1>5. /\ UNCHANGED <<style, result, thread, began, work, rt>> /\ out' = Append(out, x)
  BY DEF HandleLog, managerVars, recordVars, memberVars, callerVars
<1> HIDE DEF h, x, s
<1>6. LogsOut = Join(One(x), LogsOut') /\ ResponsesOut = Join(<<>>, ResponsesOut') /\ LogsOut' \in Seq(Speakers) /\ ResponsesOut' \in Seq(Speakers)
  BY <1>4, OutHandled DEF h
<1>7. ResponsesOut' = ResponsesOut /\ Added' = Added /\ Logged' = Logged
  BY <1>5, <1>6, JoinEmpty, OutNext DEF Added, Logged
<1>8. One(x) \in Seq(Speakers) /\ Append(out, x) = Join(out, One(x)) /\ Append(out, x) \in Seq(Speakers)
  <2>1. out \in Seq(Speakers) /\ x \in Speakers
    BY <1>1, <1>4
  <2>2. One(x) \in Seq(Speakers) /\ Append(out, x) = Join(out, One(x))
    BY ONLY <2>1, JoinEnds
  <2>3. Append(out, x) \in Seq(Speakers)
    BY ONLY <2>1
  <2> QED BY ONLY <2>2, <2>3
<1>9. Join(result, Join(out, One(x))) = Join(s, One(x))
  BY ONLY <1>1, <1>2, <1>8, JoinRegroup DEF s
<1>10. Join(Join(s, One(x)), LogsOut') = Join(s, Join(One(x), LogsOut'))
  <2>1. s \in Seq(Speakers) /\ One(x) \in Seq(Speakers) /\ LogsOut' \in Seq(Speakers)
    BY <1>2, <1>6, <1>8
  <2> QED BY ONLY <2>1, JoinRegroup
<1>11. Join(Join(result', out'), LogsOut') = Yielding
  BY ONLY <1>5, <1>6, <1>8, <1>9, <1>10 DEF Yielding, s
<1>12. InStep'
  BY <1>1, <1>5, <1>7, <1>11, StreamNext DEF InStep, Adding
<1> QED BY <1>5, <1>8, <1>12, StreamNext

\* the manager awaits select_speaker
LEMMA SelectStreams ==
  ASSUME ActiveInv, ActiveInv', HearInv, StreamTypes, SelectingAlone, Going, ManagerStep, selecting, rt = "up", StreamOpen
  PROVE  StreamOpen' \/ StreamClosed'
<1> DEFINE h == Head(inbox[Manager])
<1>1. /\ out \in Seq(Speakers) /\ InStep /\ caller # "idle" /\ ~cancelled
  BY DEF StreamOpen, Going, StreamTypes
<1>2. /\ inbox[Manager] \in Seq(Mail) /\ inbox[Manager] # <<>> /\ h.kind # "log"
      /\ h.kind = "start" => ~terminated
  BY OutTypes DEF ActiveInv, SelectingHolds
<1>3. LogOf(h) = <<>>
  BY <1>2, WordOf
<1>4. LogsOut' = LogsOut /\ ResponsesOut' = ResponsesOut
  <2>1. LogsOut = Join(<<>>, LogsOut') /\ ResponsesOut = Join(<<>>, ResponsesOut') /\ LogsOut' \in Seq(Speakers) /\ ResponsesOut' \in Seq(Speakers)
    BY <1>3, OutHandled
  <2> QED BY <2>1, JoinEmpty
<1>5. SelectionFails \/ SelectionCancelled \/ \E pick \in Selections : SelectSpeakers(pick)
  BY <1>1, <1>2 DEF ManagerStep, StartRefused, StartInvalid, HandleResume, HandleStart, HandleLog, HandleResponse,
     Handling
<1>6. UNCHANGED <<style, result, thread, began, work>>
  BY <1>5 DEF SelectionFails, SelectionCancelled, SelectSpeakers, recordVars, memberVars, callerVars
<1>7. \/ out' = out /\ rt' = rt
      \/ out' = Append(out, "error")
      \/ out' = out /\ rt' # "up" /\ bus' = bus /\ ~selecting' /\ Finished(Manager)
  BY <1>1, <1>5 DEF SelectionFails, SelectionCancelled, SelectSpeakers, StartFails, ResponseFails, ResponseCutOff
<1>8. CASE out' = out /\ rt' = rt
  <2>1. InStep'
    BY <1>1, <1>4, <1>6, <1>8, InStepKept
  <2> QED BY <1>1, <1>8, <2>1, StreamNext
<1>9. CASE out' = Append(out, "error")
  <2>1. "error" \in Signals /\ "error" # "stop"
    BY DEF Signals
  <2> QED BY <1>1, <1>9, <2>1, Closes
<1>10. CASE out' = out /\ rt' # "up" /\ bus' = bus /\ ~selecting' /\ Finished(Manager)
  <2>1. \A p \in Members : Outstanding(p)' = 0
    <3>1. ASSUME NEW p \in Members PROVE Outstanding(p) = Outstanding(p)' + 0 /\ Outstanding(p)' \in Nat
      BY <1>10, HandlerTally, Tally
    <3> QED BY <3>1 DEF SelectingAlone, NobodyIsOut
  <2>2. NoStart(bus')
    BY <1>2, <1>10, Team, NoStartInBus DEF HearInv
  <2>3. NoStart(inbox'[Manager])
    <3>1. inbox'[Manager] = Tail(inbox[Manager])
      BY <1>10, Team DEF Finished, ActiveInv, Shapes
    <3>2. ASSUME NEW i \in DOMAIN Tail(inbox[Manager])
          PROVE  i + 1 \in DOMAIN inbox[Manager] /\ i + 1 # 1 /\ Tail(inbox[Manager])[i] = inbox[Manager][i + 1]
      BY <1>2
    <3> QED BY <3>1, <3>2 DEF NoStart, HearInv, StartIsAlone
  <2>4. Frozen'
    BY <1>10, <2>1, <2>2, <2>3, PlaceNext
  <2> QED BY <1>1, <1>10, <2>4, StreamNext DEF Stuck
<1> QED BY <1>7, <1>8, <1>9, <1>10

\* the manager records a response
LEMMA ResponseStreams ==
  ASSUME ActiveInv, ActiveInv', HearInv, StreamTypes, LogsLead', Going, ManagerStep, NEW o \in Conditions, HandleResponse(o), rt = "up", StreamOpen
  PROVE  StreamOpen' \/ StreamClosed'
<1> DEFINE h == Head(inbox[Manager])
           x == h.who
           s == Join(result, out)
<1>1. /\ out \in Seq(Speakers) /\ InStep /\ caller # "idle" /\ ~selecting
  BY DEF StreamOpen, Going, StreamTypes, HandleResponse
<1>2. /\ s \in Seq(Speakers) /\ result \in Seq(Speakers) /\ Added \in Seq(Speakers) /\ thread \in Seq(Speakers) /\ began \in Nat
      /\ began <= Len(thread)
  BY <1>1, StreamParts DEF HearInv
<1>3. /\ inbox[Manager] \in Seq(Mail) /\ inbox[Manager] # <<>> /\ h.kind = "response"
  BY OutTypes DEF HandleResponse, Handling
<1>4. h \in Mail /\ x \in Speakers /\ ResponseOf(h) = One(x) /\ LogOf(h) = <<>>
  BY <1>3, WordOf, MailKinds DEF Speakers, One
<1>5. /\ UNCHANGED <<style, result, began, work, caller>> /\ thread' = Append(thread, x)
  BY DEF HandleResponse, Record, memberVars, callerVars
<1>6. \/ UNCHANGED <<out, rt>>
      \/ out' = Append(out, "error")
      \/ out' = Append(out, "stop") /\ rt' = rt /\ ~selecting' /\ active' = Nobody
      \/ out' = out /\ rt' # "up" /\ ~selecting' /\ active' = Nobody
  BY <1>1 DEF HandleResponse, ResponseFails, ResponseCutOff, Terminate, Raise
<1> HIDE DEF h, x, s
<1>7. LogsOut = Join(<<>>, LogsOut') /\ ResponsesOut = Join(One(x), ResponsesOut') /\ LogsOut' \in Seq(Speakers) /\ ResponsesOut' \in Seq(Speakers)
  BY <1>1, <1>4, OutHandled DEF h
<1>8. LogsOut' = LogsOut /\ Logged' = Logged
  BY <1>5, <1>7, JoinEmpty DEF Logged
<1>9. Added' = Append(Added, x) /\ Added' \in Seq(Speakers)
  <2>1. Added' = AddedTo(thread', began')
    BY OutNext
  <2>2. AddedTo(Append(thread, x), began) = Append(AddedTo(thread, began), x)
    BY <1>2, <1>4, AddedTypes
  <2>3. Added' = Append(Added, x)
    BY <1>5, <2>1, <2>2 DEF Added
  <2> QED BY <1>2, <1>4, <2>3
<1>10. One(x) \in Seq(Speakers) /\ Append(Added, x) = Join(Added, One(x))
  BY <1>2, <1>4, JoinEnds
<1>11. Join(Added', ResponsesOut') = Adding
  <2>1. Added \in Seq(Speakers) /\ One(x) \in Seq(Speakers) /\ ResponsesOut' \in Seq(Speakers)
    BY <1>2, <1>7, <1>10
  <2>2. Join(Join(Added, One(x)), ResponsesOut') = Join(Added, Join(One(x), ResponsesOut'))
    BY ONLY <2>1, JoinRegroup
  <2> QED BY ONLY <1>7, <1>9, <1>10, <2>2 DEF Adding
<1>12. Ahead(style, Join(s, LogsOut'), Join(Added', ResponsesOut'), Logged')
  BY <1>1, <1>8, <1>11 DEF InStep, Yielding, s
<1>13. CASE UNCHANGED <<out, rt>>
  <2>1. InStep'
    BY <1>5, <1>12, <1>13, StreamNext DEF s
  <2> QED BY <1>1, <1>13, <2>1, StreamNext
<1>14. CASE out' = Append(out, "error")
  <2>1. "error" \in Signals /\ "error" # "stop"
    BY DEF Signals
  <2> QED BY <1>1, <1>14, <2>1, Closes
<1>15. active' = Nobody => \A p \in Members : Outstanding(p)' = 0
  <2>1. ASSUME active' = Nobody, NEW p \in Members PROVE Outstanding(p)' = 0
    <3>1. Outstanding(p)' <= active'[p] /\ Outstanding(p)' \in Nat
      BY Tally DEF ActiveInv, RespondersAreActive
    <3>2. active'[p] = 0
      BY <2>1 DEF Nobody
    <3> QED BY <3>1, <3>2
  <2> QED BY <2>1
<1>16. active' = Nobody /\ ~selecting' => Frozen'
  <2>1. Started
    <3>1. 1 \in DOMAIN inbox[Manager] /\ h = inbox[Manager][1] /\ Manager \in Agents
      BY <1>3, Team DEF h
    <3>2. NoStart(bus)
      BY <1>3, <3>1, NoStartInBus DEF HearInv
    <3>3. NoStart(inbox[Manager])
      BY <1>3, <3>1 DEF HearInv, StartIsAlone, NoStart, h
    <3> QED BY <1>1, <3>2, <3>3 DEF Started
  <2>2. [Next]_vars
    BY DEF Next
  <2> QED BY <1>1, <1>15, <2>1, <2>2, StartedStays, PlaceNext
<1>17. CASE out' = out /\ rt' # "up" /\ ~selecting' /\ active' = Nobody
  BY <1>1, <1>16, <1>17, StreamNext DEF Stuck
<1>18. CASE out' = Append(out, "stop") /\ rt' = rt /\ ~selecting' /\ active' = Nobody
  <2>1. \A p \in Members : Outstanding(p)' = 0
    BY <1>15, <1>18
  <2>2. /\ \A i \in DOMAIN bus' : bus'[i].kind # "response"
        /\ \A i \in DOMAIN Answered' : Answered'[i].kind # "response"
        /\ Logged' = {} /\ bus' \in Seq(Mail) /\ Answered' \in Seq(Mail)
    BY <2>1, NobodyOutNext
  <2>3. Answered' = inbox'[Manager]
    BY <1>18 DEF Answered
  <2>4. Leads(bus', {}) /\ Leads(inbox'[Manager], {})
    <3>1. Leads(bus', Logged') /\ Leads(inbox'[Manager], Responders(bus') \cup Logged')
      BY <1>5, <1>18, LeadNext DEF Going
    <3>2. Responders(bus') = {}
      BY <2>2 DEF Responders
    <3> QED BY <2>2, <3>1, <3>2
  <2>5. /\ \A i \in DOMAIN bus' : bus'[i].kind # "log"
        /\ \A i \in DOMAIN inbox'[Manager] : inbox'[Manager][i].kind # "log"
    BY <2>2, <2>3, <2>4, LeadsNobody
  <2>6. LogsOut' = <<>> /\ ResponsesOut' = <<>>
    <3>1. /\ LogsIn(bus') = <<>> /\ LogsIn(inbox'[Manager]) = <<>>
          /\ ResponsesIn(bus') = <<>> /\ ResponsesIn(Answered') = <<>>
      BY <2>2, <2>3, <2>5, LinesSilent
    <3>2. Join(<<>>, <<>>) = <<>>
      BY JoinEmpty, <<>> \in Seq(Speakers)
    <3> QED BY <3>1, <3>2, OutNext
  <2>7. Ahead(style', Join(result', out), Added', {})
    <3>1. Join(s, <<>>) = s /\ Join(Added', <<>>) = Added'
      BY <1>2, <1>9, JoinEmpty
    <3> QED BY <1>5, <1>12, <2>2, <2>6, <3>1 DEF s
  <2>8. "stop" \in Signals
    BY DEF Signals
  <2> QED BY <1>1, <1>18, <1>16, <2>7, <2>8, Closes
<1> QED BY <1>6, <1>13, <1>14, <1>17, <1>18

\* a participant logs, publishes or fails
LEMMA MemberStreams ==
  ASSUME ActiveInv, ActiveInv', HearInv, StreamTypes, SelectingAlone, OneSpeaks, Going, rt = "up", StreamOpen,
         NEW p \in Members, MemberStep(p)
  PROVE  StreamOpen'
<1> USE Team
<1>1. /\ out \in Seq(Speakers) /\ InStep /\ caller # "idle" /\ ~cancelled
  BY DEF StreamOpen, Going, StreamTypes
<1>2. /\ Yielding \in Seq(Speakers) /\ Adding \in Seq(Speakers) /\ Added \in Seq(Speakers) /\ p \in Speakers
      /\ LogsOut \in Seq(Speakers) /\ ResponsesOut \in Seq(Speakers) /\ Join(result, out) \in Seq(Speakers)
  BY <1>1, StreamParts DEF HearInv, Speakers
<1>3. /\ inbox'[Manager] = inbox[Manager] /\ Answered' = Answered /\ bus \in Seq(Mail)
      /\ work \in [Members -> {"idle", "thinking", "logged"}]
  <2>1. inbox \in [Agents -> Seq(Mail)] /\ p # Manager
    BY DEF ActiveInv, Shapes
  <2> QED BY <2>1, MemberShape, MemberAnswers DEF Finished, ActiveInv, Shapes
<1>4. UNCHANGED <<style, result, out, thread, began>>
  BY DEF MemberStep, BufferMessage, CallAgent, LogResponse, PublishResponse, AgentFails, AgentCutOff, managerVars, recordVars, callerVars
<1>5. Added' = Added
  BY <1>4, OutNext DEF Added
<1>6. \A q \in Members : work[q] # "idle" => Outstanding(q) > 0
  <2>1. ASSUME NEW q \in Members, work[q] # "idle" PROVE Outstanding(q) > 0
    BY <2>1, NotOut, Tally
  <2> QED BY <2>1
<1>7. style # "parallel" => \A q \in Members : work[q] # "idle" /\ work[p] # "idle" => q = p
  BY <1>6 DEF OneSpeaks
<1>8. CASE BufferMessage(p) \/ CallAgent(p)
  <2>1. rt' = rt /\ bus' = bus /\ Logged' = Logged
    BY <1>3, <1>8 DEF BufferMessage, CallAgent, Logged
  <2>2. LogsOut' = LogsOut /\ ResponsesOut' = ResponsesOut
    BY <1>3, <2>1, OutNext DEF LogsOut, ResponsesOut
  <2>3. InStep'
    BY <1>1, <1>4, <1>5, <2>1, <2>2, StreamNext DEF InStep, Yielding, Adding
  <2> QED BY <1>1, <1>4, <2>1, <2>3, StreamNext
<1>9. CASE LogResponse(p)
  <2> DEFINE e == Envelope("log", p)
  <2>1. e \in Mail /\ e.kind = "log" /\ e.who = p
    BY TeamAssumption DEF Envelope, Passing, Mail
  <2>2. bus' = Append(bus, e) /\ Logged' = Logged \cup {p} /\ p \notin Logged /\ rt' = rt /\ work[p] = "thinking"
    BY <1>3, <1>9 DEF LogResponse, Logged
  <2> HIDE DEF e
  <2>3. LogOf(e) = One(p) /\ ResponseOf(e) = <<>>
    BY <2>1, WordOf DEF One
  <2>4. LogsOut' = Join(LogsOut, One(p)) /\ ResponsesOut' = Join(ResponsesOut, <<>>)
    BY <1>3, <2>1, <2>2, <2>3, OutPublished
  <2>5. ResponsesOut' = ResponsesOut
    BY <1>2, <2>4, JoinEmpty
  <2>6. style # "parallel" => Logged = {}
    BY <1>7, <2>2 DEF Logged
  <2>7. Ahead(style, Append(Yielding, p), Adding, Logged \cup {p})
    BY <1>1, <1>2, <2>2, <2>6, AheadLogs DEF InStep
  <2>8. Append(Yielding, p) = Join(Join(result, out), Join(LogsOut, One(p)))
    <3>1. Append(Yielding, p) = Join(Yielding, One(p)) /\ One(p) \in Seq(Speakers)
      BY ONLY <1>2, JoinEnds
    <3> QED BY ONLY <1>2, <3>1, JoinRegroup DEF Yielding
  <2>9. InStep'
    BY <1>4, <1>5, <2>2, <2>4, <2>5, <2>7, <2>8, StreamNext DEF Adding
  <2> QED BY <1>1, <1>4, <2>2, <2>9, StreamNext
<1>10. ASSUME NEW target \in Targets, PublishResponse(p, target) PROVE StreamOpen'
  <2> DEFINE e == Passing("response", p, target)
  <2>1. e \in Mail /\ e.kind = "response" /\ e.who = p
    BY <1>10, TeamAssumption DEF Passing, Mail, Targets
  <2>2. bus' = Append(bus, e) /\ Logged' = Logged \ {p} /\ p \in Logged /\ rt' = rt /\ work[p] = "logged"
    BY <1>3, <1>10 DEF PublishResponse, Logged
  <2> HIDE DEF e
  <2>3. ResponseOf(e) = One(p) /\ LogOf(e) = <<>>
    BY <2>1, WordOf DEF One
  <2>4. ResponsesOut' = Join(ResponsesOut, One(p)) /\ LogsOut' = Join(LogsOut, <<>>)
    BY <1>3, <2>1, <2>2, <2>3, OutPublished
  <2>5. LogsOut' = LogsOut
    BY <1>2, <2>4, JoinEmpty
  <2>6. style # "parallel" => Logged = {p}
    BY <1>7, <2>2 DEF Logged
  <2>7. Ahead(style, Yielding, Append(Adding, p), Logged \ {p})
    BY <1>1, <1>2, <2>2, <2>6, AheadPublishes DEF InStep
  <2>8. Append(Adding, p) = Join(Added, Join(ResponsesOut, One(p)))
    <3>1. Append(Adding, p) = Join(Adding, One(p)) /\ One(p) \in Seq(Speakers)
      BY ONLY <1>2, JoinEnds
    <3> QED BY ONLY <1>2, <3>1, JoinRegroup DEF Adding
  <2>9. InStep'
    BY <1>4, <1>5, <2>2, <2>4, <2>5, <2>7, <2>8, StreamNext DEF Yielding
  <2> QED BY <1>1, <1>4, <2>2, <2>9, StreamNext
<1>11. CASE AgentFails(p) \/ AgentCutOff(p)
  <2>1. rt' = "failing" /\ UNCHANGED <<active, selecting>> /\ work[p] # "idle" /\ inbox[p] # <<>>
    BY <1>11, MemberShape DEF AgentFails, AgentCutOff, LateOrSilent, managerVars
  <2>2. Outstanding(p)' < active'[p]
    <3>1. Outstanding(p)' < Outstanding(p) /\ Outstanding(p) <= active[p] /\ Outstanding(p)' \in Nat /\ Outstanding(p) \in Nat
          /\ active[p] \in Nat
      BY <1>11, FailTally, Tally DEF ActiveInv, RespondersAreActive, Shapes
    <3> QED BY <2>1, <3>1
  <2>3. ~selecting
    BY <1>6, <2>1 DEF SelectingAlone, NobodyIsOut
  <2>4. Started
    <3>1. NoStart(bus)
      BY <2>1, NoStartInBus DEF HearInv
    <3>2. NoStart(inbox[Manager])
      BY <2>1, <2>3 DEF HearInv, StartIsAlone, NoStart
    <3> QED BY <2>3, <3>1, <3>2 DEF Started
  <2>5. [Next]_vars
    BY DEF Next
  <2>6. Doomed'
    BY <1>1, <2>1, <2>2, <2>3, <2>4, <2>5, StartedStays, PlaceNext
  <2> QED BY <1>1, <1>4, <2>1, <2>6, StreamNext DEF Stuck
<1> QED BY <1>8, <1>9, <1>10, <1>11 DEF MemberStep

\* the runtime delivers, fails or stops
LEMMA RuntimeStreams ==
  ASSUME ActiveInv, ActiveInv', HearInv, StreamTypes, Going, rt = "up", StreamOpen, RuntimeStep
  PROVE  StreamOpen' \/ StreamClosed'
<1>1. /\ out \in Seq(Speakers) /\ InStep /\ caller # "idle"
  BY DEF StreamOpen, Going, StreamTypes
<1>2. "stop" \in Signals /\ "error" \in Signals /\ "error" # "stop"
  BY DEF Signals
<1>3. CASE Deliver
  <2>1. UNCHANGED <<style, result, out, thread, began, work, rt>>
    BY <1>3 DEF Deliver, managerVars, recordVars, memberVars, callerVars
  <2>2. InStep'
    BY <1>1, <1>3, <2>1, OutDelivered, InStepKept
  <2> QED BY <1>1, <2>1, <2>2, StreamNext
<1>4. CASE DeliverError
  <2>1. out' = Append(out, "error")
    BY <1>4 DEF DeliverError
  <2> QED BY <1>1, <1>2, <2>1, Closes
<1>5. ~RaiseInLoop
  BY DEF RaiseInLoop
<1>6. CASE StopWhenIdle
  <2>1. /\ bus = <<>> /\ \A a \in Agents : inbox[a] = <<>>
        /\ out' = Append(out, "stop") /\ UNCHANGED <<bus, inbox, selecting, style, result, thread, began>>
    BY <1>1, <1>6, StopAdds DEF StopWhenIdle, managerVars, recordVars, callerVars
  <2>2. inbox[Manager] = <<>> /\ ~selecting /\ Answered = <<>> /\ Answered' = <<>> /\ \A p \in Members : inbox[p] = <<>>
    BY <2>1, Team DEF ActiveInv, SelectingHolds, Answered
  <2>3. \A p \in Members : Outstanding(p) = 0 /\ Outstanding(p)' = 0
    BY <2>1, <2>2, EmptyTally
  <2>4. Frozen'
    <3>1. NoStart(<<>>)
      BY DEF NoStart
    <3> QED BY <2>1, <2>2, <2>3, <3>1, PlaceNext
  <2>5. Logged = {}
    BY <2>3, NobodyOut DEF NobodyIsOut
  <2>6. LogsOut = <<>> /\ ResponsesOut = <<>>
    <3>1. <<>> \in Seq(Mail) /\ (\A i \in DOMAIN <<>> : <<>>[i].kind # "log") /\ (\A i \in DOMAIN <<>> : <<>>[i].kind # "response")
      OBVIOUS
    <3>2. LogsIn(<<>>) = <<>> /\ ResponsesIn(<<>>) = <<>>
      BY <3>1, LinesSilent
    <3>3. Join(<<>>, <<>>) = <<>>
      BY JoinEmpty, <<>> \in Seq(Speakers)
    <3> QED BY <2>1, <2>2, <3>2, <3>3 DEF LogsOut, ResponsesOut
  <2>7. Ahead(style, Join(result, out), Added, {})
    <3>1. Join(result, out) \in Seq(Speakers) /\ Added \in Seq(Speakers)
      BY <1>1, StreamParts DEF HearInv
    <3>2. Join(Join(result, out), <<>>) = Join(result, out) /\ Join(Added, <<>>) = Added
      BY <3>1, JoinEmpty
    <3> QED BY <1>1, <2>5, <2>6, <3>2 DEF InStep, Yielding, Adding
  <2>8. Added' = Added
    BY <2>1, OutNext DEF Added
  <2> QED BY <1>1, <1>2, <2>1, <2>4, <2>7, <2>8, Closes
<1> QED BY <1>3, <1>4, <1>5, <1>6 DEF RuntimeStep

\* the stream of a runtime that fails
LEMMA StuckStreams ==
  ASSUME ActiveInv, ActiveInv', HearInv, StreamTypes, Going, rt # "up", StreamOpen,
         RuntimeStep \/ ManagerStep \/ \E p \in Members : MemberStep(p)
  PROVE  StreamOpen' \/ StreamClosed'
<1>1. /\ out \in Seq(Speakers) /\ Stuck /\ caller # "idle"
  BY DEF StreamOpen, Going, StreamTypes
<1>2. [Next]_vars
  BY DEF Next
<1>3. Stuck'
  BY <1>1, <1>2, StuckStays
<1>4. "error" \in Signals /\ "error" # "stop"
  BY DEF Signals
<1>5. CASE RuntimeStep
  <2>1. \/ out' = out /\ rt' # "up"
        \/ out' = Append(out, "error")
    <3>1. CASE Deliver \/ DeliverError \/ RaiseInLoop
      BY <3>1 DEF Deliver, DeliverError, RaiseInLoop
    <3>2. CASE StopWhenIdle
      <4>1. rt' # "up"
        BY <3>2 DEF StopWhenIdle
      <4> QED BY <1>1, <3>2, <4>1, StopAdds
    <3> QED BY <1>5, <3>1, <3>2 DEF RuntimeStep
  <2>2. CASE out' = out /\ rt' # "up"
    BY <1>1, <1>3, <2>2, StreamNext
  <2>3. CASE out' = Append(out, "error")
    BY <1>1, <1>4, <2>3, Closes
  <2> QED BY <2>1, <2>2, <2>3
<1>6. CASE ManagerStep
  <2>1. rt' = rt /\ (out' = out \/ \E x \in Speakers : out' = Append(out, x))
    BY <1>1, <1>6, StuckManager
  <2>2. out' \in Seq(Speakers)
    BY <1>1, <2>1
  <2> QED BY <1>3, <2>1, <2>2, StreamNext
<1>7. ASSUME NEW p \in Members, MemberStep(p) PROVE StreamOpen'
  <2>1. rt' \in {rt, "failing"}
    BY <1>7, MemberShape
  <2>2. out' = out
    BY <1>7 DEF MemberStep, BufferMessage, CallAgent, LogResponse, PublishResponse, AgentFails, AgentCutOff
  <2> QED BY <1>1, <1>3, <2>1, <2>2, StreamNext
<1> QED BY <1>5, <1>6, <1>7

\* while run_stream goes on, the stream is open or has its end
StreamHolds == Going => StreamOpen \/ StreamClosed

\* when it returns, the thread is what it yielded and stays so
Returns == caller = "returning" => Frozen /\ Ahead(style, result, Added, {})

\* the invariant of ResultIsThread
StreamInv == StreamTypes /\ SelectingAlone /\ LogsLead /\ StreamHolds /\ Returns

\* the conjuncts after a step, with the primes on the variables
LEMMA ReturnNext ==
  /\ StreamHolds' <=> (caller' \in {"sending", "yielding"} => StreamOpen' \/ StreamClosed')
  /\ Returns' <=> (caller' = "returning" => Frozen' /\ Ahead(style', result', Added', {}))
  /\ StreamTypes' <=> /\ result' \in Seq(Speakers) /\ out' \in Seq(Speakers \cup Signals) /\ began' \in Nat
                      /\ caller' # "idle" => began' <= Len(thread')
                      /\ caller' = "idle" => out' = <<>>
                      /\ cancelled' => caller' \notin {"sending", "yielding"}
BY DEF StreamHolds, Returns, StreamTypes, Going, Ahead, Times

\* the thread grows while the team runs
LEMMA ThreadGrows ==
  ASSUME HearTypes, HearTypes', caller # "idle", [Next]_vars
  PROVE  Len(thread) \in Nat /\ Len(thread') \in Nat /\ Len(thread) <= Len(thread')
<1>1. thread \in Seq(Speakers) /\ thread' \in Seq(Speakers)
  BY DEF HearTypes
<1>2. thread' = thread \/ \E x : thread' = Append(thread, x)
  BY DEF Next, RuntimeStep, Deliver, DeliverError, RaiseInLoop, StopWhenIdle, MemberStep, BufferMessage, CallAgent, LogResponse,
     PublishResponse, AgentFails, AgentCutOff, ManagerStep, StartRefused, StartInvalid, HandleResume, HandleStart, HandleLog,
     HandleResponse, Record, SelectSpeakers, SelectionFails, SelectionCancelled, CallerStep, StartAnswered, YieldMessage, EndRun,
     RunStream, Cancel, RunStreamDoomed, Reset, SaveState, LoadState, vars, managerVars, recordVars
<1>3. ASSUME NEW x, thread' = Append(thread, x) PROVE Len(thread') = Len(thread) + 1
  BY <1>1, <1>3
<1> QED BY <1>1, <1>2, <1>3

\* the caller reads its stream
LEMMA YieldStreams ==
  ASSUME ActiveInv, ActiveInv', HearInv, StreamTypes, StreamHolds, YieldMessage
  PROVE  /\ result' \in Seq(Speakers) /\ out' \in Seq(Speakers \cup Signals)
         /\ caller' \in {"yielding", "returning", "raising"}
         /\ caller' = "yielding" => StreamOpen' \/ StreamClosed'
         /\ caller' = "returning" => Frozen' /\ Ahead(style', result', Added', {})
<1> DEFINE T == Speakers \cup Signals
<1>1. /\ caller = "yielding" /\ out # <<>> /\ out' = Tail(out) /\ out \in Seq(T) /\ result \in Seq(Speakers)
      /\ UNCHANGED <<bus, inbox, rt, style, thread, began, work, selecting, active>>
  BY DEF YieldMessage, StreamTypes, managerVars, recordVars, memberVars
<1>2. Going /\ caller # "idle" /\ [Next]_vars
  BY <1>1 DEF Going, Next, CallerStep
<1>3. Head(out) \in T /\ Tail(out) \in Seq(T)
  BY <1>1
<1>4. /\ Head(out) = "stop" => caller' = "returning" /\ result' = result
      /\ Head(out) = "error" => caller' = "raising" /\ result' = result
      /\ Head(out) \notin Signals => caller' = caller /\ result' = Append(result, Head(out))
  BY DEF YieldMessage, Signals
<1>5. Head(out) \in Speakers => Head(out) \notin Signals
  BY SpeakersAreNoSignals
<1>6. /\ result' \in Seq(Speakers) /\ out' \in Seq(Speakers \cup Signals)
      /\ caller' \in {"yielding", "returning", "raising"}
  <2>1. out' \in Seq(Speakers \cup Signals)
    BY <1>1, <1>3
  <2>2. CASE Head(out) \in Signals
    BY <1>1, <1>4, <2>1, <2>2 DEF Signals
  <2>3. CASE Head(out) \notin Signals
    <3>1. Head(out) \in Speakers /\ result' = Append(result, Head(out)) /\ caller' = "yielding"
      BY <1>1, <1>3, <1>4, <2>3
    <3>2. Append(result, Head(out)) \in Seq(Speakers)
      BY ONLY <1>1, <3>1
    <3> QED BY <2>1, <3>1, <3>2
  <2> QED BY <2>2, <2>3
<1>7. LogsOut' = LogsOut /\ ResponsesOut' = ResponsesOut /\ Added' = Added /\ Logged' = Logged
  BY <1>1, OutNext DEF LogsOut, ResponsesOut, Added, Logged, Answered
<1>8. CASE StreamOpen
  <2>1. out \in Seq(Speakers)
    BY <1>8 DEF StreamOpen
  <2>2. Head(out) \in Speakers /\ Tail(out) \in Seq(Speakers)
    BY <1>1, <2>1
  <2>3. caller' = caller /\ result' = Append(result, Head(out))
    BY <1>4, <1>5, <2>2
  <2>4. Join(result', out') = Join(result, out)
    <3>1. Join(Append(result, Head(out)), Tail(out)) = Join(result, out)
      BY ONLY <1>1, <2>1, JoinShifts
    <3> QED BY ONLY <1>1, <2>3, <3>1
  <2>5. rt = "up" => InStep'
    BY <1>1, <1>7, <1>8, <2>4, StreamNext DEF StreamOpen, InStep, Yielding, Adding
  <2>6. rt # "up" => Stuck'
    BY <1>2, <1>8, StuckStays DEF StreamOpen
  <2>7. StreamOpen'
    BY <1>1, <2>2, <2>5, <2>6, StreamNext
  <2> QED BY <1>1, <1>6, <2>3, <2>7
<1>9. CASE StreamClosed
  <2>1. PICK u \in Seq(Speakers), sig \in Signals, v \in Seq(T) :
        /\ out = Join(u, Join(One(sig), v))
        /\ sig = "stop" => Frozen /\ Ahead(style, Join(result, u), Added, {})
    BY <1>9 DEF StreamClosed
  <2>2. sig = "stop" => Frozen'
    BY <1>2, <2>1, FrozenStays
  <2>3. u \in Seq(T) /\ sig \in T
    BY WiderSeq
  <2>4. One(sig) \in Seq(T)
    BY <2>3, JoinEnds
  <2>5. Join(One(sig), v) \in Seq(T)
    BY <2>4, JoinType
  <2>6. CASE u = <<>>
    <3>1. out = Join(One(sig), v) /\ Join(result, u) = result
      BY <1>1, <2>1, <2>5, <2>6, JoinEmpty
    <3>2. Head(out) = sig
      BY <2>3, <3>1, JoinEnds
    <3>3. caller' = (IF sig = "stop" THEN "returning" ELSE "raising") /\ result' = result
      BY <1>4, <3>2 DEF Signals
    <3>4. sig = "stop" => Frozen' /\ Ahead(style', result', Added', {})
      BY <1>1, <1>7, <2>1, <2>2, <3>1, <3>3
    <3> QED BY <1>6, <3>3, <3>4
  <2>7. CASE u # <<>>
    <3>1. Head(u) \in Speakers /\ Tail(u) \in Seq(Speakers)
      BY <2>7
    <3>2. Head(Join(u, Join(One(sig), v))) = Head(u) /\ Tail(Join(u, Join(One(sig), v))) = Join(Tail(u), Join(One(sig), v))
      BY ONLY <2>3, <2>5, <2>7, JoinHead
    <3>3. Head(out) = Head(u) /\ out' = Join(Tail(u), Join(One(sig), v))
      BY ONLY <1>1, <2>1, <3>2
    <3>4. caller' = caller /\ result' = Append(result, Head(u))
      BY <1>4, <1>5, <3>1, <3>3
    <3>5. Join(result', Tail(u)) = Join(result, u)
      <4>1. Join(Append(result, Head(u)), Tail(u)) = Join(result, u)
        BY ONLY <1>1, <2>7, JoinShifts, u \in Seq(Speakers)
      <4> QED BY ONLY <3>4, <4>1
    <3>6. sig = "stop" => Frozen' /\ Ahead(style', Join(result', Tail(u)), Added', {})
      BY <1>1, <1>7, <2>1, <2>2, <3>5
    <3>7. StreamClosed'
      BY <3>1, <3>3, <3>6, StreamNext
    <3> QED BY <1>1, <1>6, <3>4, <3>7
  <2> QED BY <2>6, <2>7
<1> QED BY <1>2, <1>8, <1>9 DEF StreamHolds

\* run_stream begins with an empty stream and nothing added
LEMMA RunStreams ==
  ASSUME ActiveInv, ActiveInv', HearInv, StreamTypes, NEW task \in Tasks, RunStream(task)
  PROVE  StreamOpen'
<1>1. /\ caller = "idle" /\ out = <<>> /\ result' = <<>> /\ began' = Len(thread) /\ rt' = "up" /\ bus' = <<task>>
      /\ UNCHANGED <<inbox, style, thread, work, selecting, out>> /\ thread \in Seq(Speakers)
  BY DEF RunStream, StreamTypes, managerVars, recordVars, memberVars, HearInv, HearTypes
<1>2. bus = <<>> /\ inbox[Manager] = <<>> /\ \A p \in Members : inbox[p] = <<>>
  BY <1>1, Team DEF HearInv, OffIsEmpty
<1>3. Logged' = {}
  BY <1>1, <1>2 DEF Logged, ActiveInv, WorkIsAsked
<1>4. Answered' = <<>> /\ inbox'[Manager] = <<>> /\ bus' \in Seq(Mail)
  BY <1>1, <1>2 DEF Answered, ActiveInv, SelectingHolds, Shapes
<1>5. \A i \in DOMAIN bus' : bus'[i].kind = "start"
  BY <1>1 DEF Tasks, Envelope, Passing
<1>6. <<>> \in Seq(Mail) /\ (\A i \in DOMAIN <<>> : <<>>[i].kind # "log") /\ (\A i \in DOMAIN <<>> : <<>>[i].kind # "response")
  OBVIOUS
<1>7. LogsIn(<<>>) = <<>> /\ ResponsesIn(<<>>) = <<>> /\ LogsIn(bus') = <<>> /\ ResponsesIn(bus') = <<>>
  BY <1>4, <1>5, <1>6, LinesSilent
<1>8. Join(<<>>, <<>>) = <<>>
  BY JoinEmpty, <<>> \in Seq(Speakers)
<1>9. LogsOut' = <<>> /\ ResponsesOut' = <<>>
  BY <1>4, <1>7, <1>8, OutNext
<1>10. Added' = <<>>
  BY <1>1, AddedNone, OutNext
<1>11. Ahead(style', <<>>, <<>>, {})
  <2>1. \A m \in Speakers : Times(<<>>, m) = Times(<<>>, m) + IF m \in {} THEN 1 ELSE 0
    <3>1. ASSUME NEW m \in Speakers PROVE Times(<<>>, m) \in Nat
      BY <3>1, TimesAppend, <<>> \in Seq(Speakers)
    <3> QED BY <3>1
  <2> QED BY <2>1 DEF Ahead
<1>12. InStep'
  BY <1>1, <1>3, <1>8, <1>9, <1>10, <1>11, StreamNext
<1> QED BY <1>1, <1>12, StreamNext

\* or without a start that anyone will handle
LEMMA DoomedStreams ==
  ASSUME ActiveInv, ActiveInv', HearInv, StreamTypes, RunStreamDoomed
  PROVE  StreamOpen'
<1>1. /\ caller = "idle" /\ out = <<>> /\ rt' = "shut" /\ UNCHANGED <<bus, inbox, selecting, out>>
  BY DEF RunStreamDoomed, StreamTypes, managerVars
<1>2. bus = <<>> /\ inbox[Manager] = <<>> /\ \A p \in Members : inbox[p] = <<>>
  BY <1>1, Team DEF HearInv, OffIsEmpty
<1>3. ~selecting' /\ Answered' = <<>>
  BY <1>1, <1>2 DEF Answered, ActiveInv, SelectingHolds
<1>4. \A p \in Members : Outstanding(p)' = 0
  BY <1>1, <1>2, <1>3, EmptyTally
<1>5. NoStart(<<>>)
  BY DEF NoStart
<1>6. Frozen'
  BY <1>1, <1>2, <1>3, <1>4, <1>5, PlaceNext
<1>7. out' \in Seq(Speakers)
  BY <1>1
<1> QED BY <1>1, <1>6, <1>7, StreamNext DEF Stuck

\* every step keeps the invariant
LEMMA StreamInvNext ==
  ASSUME ActiveInv, ActiveInv', HearInv, HearInv', TurnInv, StreamInv, [Next]_vars
  PROVE  StreamInv'
<1>1. StreamTypes /\ SelectingAlone /\ LogsLead /\ StreamHolds /\ Returns /\ HearTypes /\ HearTypes' /\ OffIsEmpty /\ OneSpeaks
  BY DEF StreamInv, HearInv, TurnInv
<1>2. SelectingAlone' /\ LogsLead'
  BY <1>1, SelectingAloneNext, LeadsInvNext
<1>3. SUFFICES StreamTypes' /\ StreamHolds' /\ Returns'
  BY <1>2 DEF StreamInv
<1>4. result \in Seq(Speakers) /\ out \in Seq(Speakers \cup Signals) /\ began \in Nat
  BY <1>1 DEF StreamTypes
<1>5. caller = "returning" => Frozen' /\ UNCHANGED <<thread, began, style>> /\ Added' = Added
  <2>1. caller = "returning" => Frozen' /\ UNCHANGED <<thread, began, style>>
    BY <1>1, FrozenStays DEF Returns
  <2> QED BY <2>1, OutNext DEF Added
<1>6. CASE RuntimeStep \/ ManagerStep \/ \E p \in Members : MemberStep(p)
  <2>1. /\ UNCHANGED <<result, began, style, caller, cancelled>> /\ caller # "idle"
        /\ out' \in Seq(Speakers \cup Signals)
    <3>1. PICK w \in Seq(Speakers \cup Signals) : out' = Join(out, w)
      BY <1>4, <1>6, OutGrows
    <3>2. out' \in Seq(Speakers \cup Signals)
      BY <1>4, <3>1, JoinType
    <3> QED BY <1>1, <1>4, <1>6, <3>2, OutGrows, WorkNeedsRuntime
  <2>2. StreamTypes'
    <3>1. began <= Len(thread')
      BY <1>1, <1>4, <2>1, ThreadGrows DEF StreamTypes
    <3> QED BY <1>1, <1>4, <2>1, <3>1, ReturnNext DEF StreamTypes, Going
  <2>3. Returns'
    BY <1>1, <1>5, <2>1, ReturnNext DEF Returns
  <2>4. ASSUME Going, StreamOpen PROVE StreamOpen' \/ StreamClosed'
    <3>1. CASE rt # "up"
      BY <1>1, <1>6, <2>4, <3>1, StuckStreams
    <3>2. CASE rt = "up" /\ RuntimeStep
      BY <1>1, <2>4, <3>2, RuntimeStreams
    <3>3. CASE rt = "up" /\ \E p \in Members : MemberStep(p)
      BY <1>1, <2>4, <3>3, MemberStreams
    <3>4. CASE rt = "up" /\ ManagerStep /\ selecting
      BY <1>1, <2>4, <3>4, SelectStreams
    <3>5. CASE rt = "up" /\ ManagerStep /\ ~selecting
      <4>1. CASE Head(inbox[Manager]).kind = "start"
        BY <1>1, <2>4, <3>5, <4>1, StartStreams
      <4>2. CASE HandleLog
        BY <1>1, <2>4, <3>5, <4>2, LogStreams
      <4>3. CASE \E o \in Conditions : HandleResponse(o)
        BY <1>1, <1>2, <2>4, <3>5, <4>3, ResponseStreams
      <4> QED BY <1>1, <3>5, <4>1, <4>2, <4>3, ManagerHandles DEF HearInv
    <3> QED BY <1>6, <3>1, <3>2, <3>3, <3>4, <3>5
  <2>5. StreamHolds'
    BY <1>1, <1>4, <1>6, <2>1, <2>4, ClosedStays, ReturnNext DEF StreamHolds, Going
  <2> QED BY <2>2, <2>3, <2>5
<1>7. CASE YieldMessage
  <2>1. /\ result' \in Seq(Speakers) /\ out' \in Seq(Speakers \cup Signals)
        /\ caller' \in {"yielding", "returning", "raising"}
        /\ caller' = "yielding" => StreamOpen' \/ StreamClosed'
        /\ caller' = "returning" => Frozen' /\ Ahead(style', result', Added', {})
    BY <1>1, <1>7, YieldStreams
  <2>2. UNCHANGED <<began, thread, cancelled>> /\ caller = "yielding"
    BY <1>7 DEF YieldMessage, managerVars, recordVars
  <2> QED BY <1>1, <1>4, <2>1, <2>2, ReturnNext DEF StreamTypes, Going
<1>8. ASSUME NEW task \in Tasks, RunStream(task) PROVE StreamTypes' /\ StreamHolds' /\ Returns'
  <2>1. StreamOpen'
    BY <1>1, <1>8, RunStreams
  <2>2. /\ caller' = "sending" /\ ~cancelled' /\ result' = <<>> /\ began' = Len(thread) /\ UNCHANGED <<out, thread>>
        /\ Len(thread) \in Nat
    BY <1>1, <1>8 DEF RunStream, managerVars, recordVars, HearTypes
  <2>3. StreamTypes'
    BY <1>4, <2>2, ReturnNext
  <2> QED BY <2>1, <2>2, <2>3, ReturnNext
<1>9. CASE StartAnswered \/ Cancel \/ EndRun \/ Reset \/ SaveState \/ LoadState \/ UNCHANGED vars
  <2>1. /\ UNCHANGED <<bus, inbox, rt, selecting, active, work, result, began, style>>
        /\ out' \in {out, <<>>} /\ (out' = out \/ caller' = "idle")
        /\ caller' \in {"sending", "yielding"} => Going /\ UNCHANGED <<thread, out>> /\ (cancelled' => cancelled)
        /\ caller' # "idle" => caller # "idle" /\ UNCHANGED thread
        /\ caller' = "returning" => caller = "returning"
        /\ caller' = "idle" => out' = <<>> \/ (out' = out /\ caller = "idle")
    BY <1>9 DEF StartAnswered, Cancel, EndRun, Reset, SaveState, LoadState, vars, managerVars, recordVars, memberVars,
       callerVars, Going
  <2>2. StreamTypes'
    <3>1. result' \in Seq(Speakers) /\ out' \in Seq(Speakers \cup Signals) /\ began' \in Nat
      <4>1. <<>> \in Seq(Speakers \cup Signals)
        OBVIOUS
      <4>2. out' \in Seq(Speakers \cup Signals)
        BY <1>4, <2>1, <4>1
      <4> QED BY <1>4, <2>1, <4>2
    <3>2. caller' # "idle" => began' <= Len(thread')
      BY <1>1, <2>1 DEF StreamTypes
    <3>3. caller' = "idle" => out' = <<>>
      BY <1>1, <2>1 DEF StreamTypes
    <3>4. cancelled' => caller' \notin {"sending", "yielding"}
      BY <1>1, <2>1 DEF StreamTypes
    <3> QED BY <3>1, <3>2, <3>3, <3>4, ReturnNext
  <2>3. Returns'
    BY <1>1, <1>5, <2>1, ReturnNext DEF Returns
  <2>4. ASSUME caller' \in {"sending", "yielding"} PROVE StreamOpen' \/ StreamClosed'
    <3>1. Going /\ UNCHANGED <<thread, out>> /\ caller # "idle"
      BY <2>1, <2>4 DEF Going
    <3>2. LogsOut' = LogsOut /\ ResponsesOut' = ResponsesOut /\ Added' = Added
      BY <2>1, <3>1, OutNext DEF LogsOut, ResponsesOut, Added, Answered
    <3>3. CASE StreamOpen
      <4>1. rt = "up" => InStep'
        BY <2>1, <3>1, <3>2, <3>3, InStepKept DEF StreamOpen
      <4>2. rt # "up" => Stuck'
        BY <3>1, <3>3, StuckStays DEF StreamOpen
      <4> QED BY <2>1, <3>1, <3>3, <4>1, <4>2, StreamNext DEF StreamOpen
    <3>4. CASE StreamClosed
      <4>1. Frozen => Frozen'
        BY <3>1, FrozenStays
      <4> QED BY <2>1, <3>1, <3>2, <3>4, <4>1, StreamNext DEF StreamClosed
    <3> QED BY <1>1, <3>1, <3>3, <3>4 DEF StreamHolds
  <2> QED BY <2>2, <2>3, <2>4, ReturnNext
<1>10. CASE RunStreamDoomed
  <2>1. StreamOpen'
    BY <1>1, <1>10, DoomedStreams
  <2>2. /\ caller' = "sending" /\ ~cancelled' /\ result' = <<>> /\ began' = Len(thread) /\ UNCHANGED <<out, thread>>
        /\ Len(thread) \in Nat
    BY <1>1, <1>10 DEF RunStreamDoomed, managerVars, recordVars, HearTypes
  <2>3. StreamTypes'
    BY <1>4, <2>2, ReturnNext
  <2> QED BY <2>1, <2>2, <2>3, ReturnNext
<1> QED BY <1>6, <1>7, <1>8, <1>9, <1>10 DEF Next, CallerStep

\* a run that returns has yielded what it added
LEMMA ReturnsThread ==
  ASSUME HearTypes, StreamTypes, Returns, caller = "returning"
  PROVE  LET added == SubSeq(thread, began + 1, Len(thread))
         IN  IF style = "parallel" THEN SameMessages(result, added) ELSE result = added
<1>1. Ahead(style, result, Added, {}) /\ result \in Seq(Speakers) /\ Added = SubSeq(thread, began + 1, Len(thread))
  BY DEF Returns, StreamTypes, Added, AddedTo
<1>2. Added \in Seq(Speakers)
  BY AddedTypes DEF Added, HearTypes, StreamTypes
<1>3. CASE style = "parallel"
  <2>1. ASSUME NEW m \in Speakers PROVE Times(result, m) = Times(Added, m)
    <3>1. Times(result, m) = Times(Added, m) + IF m \in {} THEN 1 ELSE 0
      BY <1>1, <1>3 DEF Ahead
    <3>2. Times(Added, m) \in Nat
      BY <1>2, TimesAppend
    <3> QED BY <3>1, <3>2
  <2>2. ToSet(result) \subseteq Speakers /\ ToSet(Added) \subseteq Speakers
    <3>1. ASSUME NEW s \in Seq(Speakers) PROVE ToSet(s) \subseteq Speakers
      BY DEF ToSet
    <3> QED BY <1>1, <1>2, <3>1
  <2> QED BY <1>1, <1>3, <2>1, <2>2 DEF SameMessages
<1>4. CASE style # "parallel"
  BY <1>1, <1>4 DEF Ahead
<1> QED BY <1>3, <1>4

\* nothing is yielded or added at first
LEMMA StreamInit == Init => StreamInv
<1> SUFFICES ASSUME Init PROVE StreamInv
  OBVIOUS
<1>1. /\ result = <<>> /\ out = <<>> /\ began = 0 /\ caller = "idle" /\ ~cancelled /\ ~selecting
  BY DEF Init
<1> QED BY <1>1 DEF StreamInv, StreamTypes, SelectingAlone, LogsLead, StreamHolds, Returns, Going

(* A run that returns has yielded every message it added to the thread,    *)
(* in its order unless several agents spoke at a time: the log messages    *)
(* reach the output queue before the termination they lead to, whatever    *)
(* failed, was cancelled, reset or loaded before.                          *)
THEOREM ResultsAreThreads == Spec => ResultIsThread
<1> DEFINE Kept == (caller = "returning" /\ caller' = "idle") =>
            LET added == SubSeq(thread, began + 1, Len(thread))
            IN  IF style = "parallel" THEN SameMessages(result, added) ELSE result = added
<1>1. HearInv /\ StreamInv /\ [Next]_vars => [Kept]_vars
  BY ReturnsThread DEF HearInv, StreamInv
<1>2. ActiveInv /\ ActiveInv' /\ HearInv /\ HearInv' /\ TurnInv /\ [Next]_vars => TurnInv'
  BY TurnInvNext
<1>3. ActiveInv /\ ActiveInv' /\ HearInv /\ HearInv' /\ TurnInv /\ StreamInv /\ [Next]_vars => StreamInv'
  BY StreamInvNext
<1> QED BY <1>1, <1>2, <1>3, ActiveInit, ActiveNext, HearInit, HearNextInv, TurnInit, StreamInit, PTL
       DEF Spec, ResultIsThread
=============================================================================
