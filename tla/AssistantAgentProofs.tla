------------------------ MODULE AssistantAgentProofs ------------------------
(***************************************************************************)
(* For any tools, answers, inputs and number of runs: what a model service *)
(* asks of a conversation holds of what the model is shown, also after a   *)
(* handoff, and what the tools stream is where it belongs.                 *)
(***************************************************************************)
EXTENDS AssistantAgent, SequenceTheorems, WellFoundedInduction, TLAPS

-----------------------------------------------------------------------------
(* The views of a model context.                                           *)

\* what Paired asks of message i
PairedAt(m, i) ==
    /\ m[i].kind = "calls" => i < Len(m) /\ m[i + 1] = ExecutionResults(m[i].ids)
    /\ m[i].kind = "results" => i > 1 /\ m[i - 1].kind = "calls"

\* the messages of m from a to b
IsWindow(w, m, a, b) ==
    /\ w \in Seq(Message) /\ a \in Nat \ {0} /\ b \in Nat /\ b <= Len(m)
    /\ Len(w) = IF a <= b THEN b - a + 1 ELSE 0
    /\ \A i \in 1..Len(w) : w[i] = m[a + i - 1]

\* A window is paired if it begins with no results and ends with no calls.
LEMMA WindowPaired ==
  ASSUME NEW m \in Seq(Message), Paired(m), NEW w, NEW a, NEW b, IsWindow(w, m, a, b),
         a <= b => m[a].kind # "results" /\ m[b].kind # "calls"
  PROVE  Paired(w)
<1>1. /\ Len(m) \in Nat /\ Len(w) \in Nat /\ a \in Nat \ {0} /\ b \in Nat /\ b <= Len(m)
      /\ Len(w) = IF a <= b THEN b - a + 1 ELSE 0
      /\ \A i \in 1..Len(w) : w[i] = m[a + i - 1]
  BY DEF IsWindow
<1> SUFFICES ASSUME NEW i \in 1..Len(w) PROVE PairedAt(w, i)
  BY DEF Paired, PairedAt
<1> DEFINE j == a + i - 1
<1>2. /\ a <= b /\ i \in Nat /\ i >= 1 /\ j \in 1..Len(m) /\ j <= b /\ w[i] = m[j] /\ j \in Nat
      /\ (i < Len(w) <=> j < b) /\ (i > 1 <=> j > a) /\ (i = 1 => j = a) /\ (j < b \/ j = b)
  BY <1>1
<1>3. i < Len(w) => w[i + 1] = m[j + 1]
  <2> SUFFICES ASSUME i < Len(w) PROVE w[i + 1] = m[j + 1]
    OBVIOUS
  <2>1. i + 1 \in 1..Len(w) /\ a + (i + 1) - 1 = j + 1
    BY <1>1, <1>2
  <2>2. w[i + 1] = m[a + (i + 1) - 1]
    BY ONLY <1>1, <2>1
  <2> QED BY ONLY <2>1, <2>2
<1>4. i > 1 => w[i - 1] = m[j - 1]
  <2> SUFFICES ASSUME i > 1 PROVE w[i - 1] = m[j - 1]
    OBVIOUS
  <2>1. i - 1 \in 1..Len(w) /\ a + (i - 1) - 1 = j - 1
    BY <1>1, <1>2
  <2>2. w[i - 1] = m[a + (i - 1) - 1]
    BY ONLY <1>1, <2>1
  <2> QED BY ONLY <2>1, <2>2
<1> HIDE DEF j
<1>5. /\ m[j].kind = "calls" => j < Len(m) /\ m[j + 1] = ExecutionResults(m[j].ids)
      /\ m[j].kind = "results" => j > 1 /\ m[j - 1].kind = "calls"
  BY <1>2 DEF Paired
<1>6. m[a].kind # "results" /\ m[b].kind # "calls"
  BY <1>2
<1>7. w[i].kind = "calls" => i < Len(w) /\ w[i + 1] = ExecutionResults(w[i].ids)
  BY ONLY <1>2, <1>3, <1>5, <1>6
<1>8. w[i].kind = "results" => i > 1 /\ w[i - 1].kind = "calls"
  BY ONLY <1>2, <1>4, <1>5, <1>6
<1> QED BY <1>7, <1>8 DEF PairedAt

\* BufferedChatCompletionContext, and the tail of HeadAndTail
LEMMA SuffixPaired ==
  ASSUME NEW m \in Seq(Message), Paired(m), NEW n \in Nat
  PROVE  /\ WithoutFirstResult(LastOf(m, n)) \in Seq(Message)
         /\ Paired(WithoutFirstResult(LastOf(m, n)))
<1> DEFINE a == IF Len(m) > n THEN Len(m) - n + 1 ELSE 1
           s == SubSeq(m, a, Len(m))
           b == Len(m)
<1>1. Len(m) \in Nat /\ a \in Nat \ {0} /\ a <= Len(m) + 1 /\ LastOf(m, n) = s
  BY DEF LastOf
<1>2. /\ s \in Seq(Message) /\ Len(s) = (IF a <= b THEN b - a + 1 ELSE 0)
      /\ \A i \in 1..Len(s) : s[i] = m[a + i - 1]
  BY <1>1, SubSeqProperties
<1>3. b > 0 => m[b].kind # "calls"
  BY <1>1 DEF Paired
<1> HIDE DEF a, s, b
<1>4. b = Len(m)
  BY DEF b
<1>5. CASE s # <<>> /\ Head(s).kind = "results"
  <2>1. WithoutFirstResult(s) = Tail(s)
    BY <1>5 DEF WithoutFirstResult
  <2>2. Len(s) \in Nat /\ Len(s) >= 1 /\ Head(s) = s[1]
    BY <1>2, <1>5
  <2>3. a <= b /\ a \in 1..Len(m) /\ m[a].kind = "results"
    BY <1>1, <1>2, <1>4, <1>5, <2>2
  <2>4. IsWindow(Tail(s), m, a + 1, b)
    <3>1. /\ Tail(s) \in Seq(Message) /\ Len(Tail(s)) = Len(s) - 1
          /\ \A i \in 1..(Len(s) - 1) : Tail(s)[i] = s[i + 1]
      BY <1>2, <1>5, HeadTailProperties
    <3>2. ASSUME NEW i \in 1..Len(Tail(s)) PROVE Tail(s)[i] = m[(a + 1) + i - 1]
      <4>1. i \in 1..(Len(s) - 1) /\ i + 1 \in 1..Len(s) /\ a + (i + 1) - 1 = (a + 1) + i - 1
        BY <1>1, <2>2, <3>1
      <4>2. Tail(s)[i] = s[i + 1] /\ s[i + 1] = m[a + (i + 1) - 1]
        BY ONLY <1>2, <3>1, <4>1
      <4> QED BY ONLY <4>1, <4>2
    <3>3. Len(Tail(s)) = IF a + 1 <= b THEN b - (a + 1) + 1 ELSE 0
      <4>1. a \in Nat /\ b \in Nat /\ a <= b /\ Len(s) = b - a + 1 /\ Len(Tail(s)) = Len(s) - 1
        BY <1>1, <1>2, <1>4, <2>3, <3>1
      <4> QED BY ONLY <4>1
    <3> QED BY <1>1, <1>4, <3>1, <3>2, <3>3 DEF IsWindow
  <2>5. a + 1 <= b => m[a + 1].kind # "results" /\ m[b].kind # "calls"
    <3> SUFFICES ASSUME a + 1 <= b PROVE m[a + 1].kind # "results" /\ m[b].kind # "calls"
      OBVIOUS
    <3>1. a + 1 \in 1..Len(m) /\ (a + 1) - 1 = a /\ b > 0
      BY <1>1, <1>4
    <3>2. m[a + 1].kind = "results" => m[(a + 1) - 1].kind = "calls"
      BY <3>1 DEF Paired
    <3> QED BY <1>3, <2>3, <3>1, <3>2
  <2>6. Paired(Tail(s))
    BY <2>4, <2>5, WindowPaired
  <2> QED BY <1>1, <1>2, <1>5, <2>1, <2>6
<1>6. CASE ~(s # <<>> /\ Head(s).kind = "results")
  <2>1. WithoutFirstResult(s) = s
    BY <1>6 DEF WithoutFirstResult
  <2>2. IsWindow(s, m, a, b)
    <3>1. b \in Nat /\ b <= Len(m)
      BY <1>1, <1>4
    <3> QED BY ONLY <1>1, <1>2, <3>1 DEF IsWindow
  <2>3. a <= b => m[a].kind # "results" /\ m[b].kind # "calls"
    <3> SUFFICES ASSUME a <= b PROVE m[a].kind # "results" /\ m[b].kind # "calls"
      OBVIOUS
    <3>1. Len(s) >= 1 /\ 1 \in 1..Len(s) /\ a + 1 - 1 = a /\ b > 0
      BY <1>1, <1>2, <1>4
    <3>2. s # <<>> /\ Head(s) = s[1] /\ s[1] = m[a]
      BY <1>2, <3>1
    <3> QED BY <1>3, <1>6, <3>1, <3>2
  <2>4. Paired(s)
    BY <2>2, <2>3, WindowPaired
  <2> QED BY <1>1, <1>2, <2>1, <2>4
<1> QED BY <1>5, <1>6

\* the head of HeadAndTail
LEMMA PrefixPaired ==
  ASSUME NEW m \in Seq(Message), Paired(m), NEW n \in Nat
  PROVE  /\ WithoutLastCall(FirstOf(m, n)) \in Seq(Message)
         /\ Paired(WithoutLastCall(FirstOf(m, n)))
<1> DEFINE b == IF Len(m) > n THEN n ELSE Len(m)
           s == SubSeq(m, 1, b)
<1>1. Len(m) \in Nat /\ b \in Nat /\ b <= Len(m) /\ FirstOf(m, n) = s
  BY DEF FirstOf
<1>2. /\ s \in Seq(Message) /\ Len(s) = b
      /\ \A i \in 1..b : s[i] = m[i]
  <2>1. /\ s \in Seq(Message) /\ Len(s) = (IF 1 <= b THEN b - 1 + 1 ELSE 0)
        /\ \A i \in 1..(b - 1 + 1) : s[i] = m[1 + i - 1]
    BY <1>1, SubSeqProperties
  <2> HIDE DEF b, s
  <2>2. Len(s) = b /\ b - 1 + 1 = b /\ \A i \in 1..b : 1 + i - 1 = i
    BY <1>1, <2>1
  <2>3. ASSUME NEW i \in 1..b PROVE s[i] = m[i]
    <3>1. s[i] = m[1 + i - 1] /\ 1 + i - 1 = i
      BY <2>1, <2>2
    <3> QED BY <3>1
  <2> QED BY <2>1, <2>2, <2>3
<1>3. Len(m) > 0 => m[1].kind # "results"
  BY <1>1 DEF Paired
<1> HIDE DEF s, b
<1>4. \A c \in Nat : c <= b => /\ SubSeq(s, 1, c) \in Seq(Message) /\ Len(SubSeq(s, 1, c)) = c
                               /\ IsWindow(SubSeq(s, 1, c), m, 1, c)
  <2> TAKE c \in Nat
  <2> HAVE c <= b
  <2> DEFINE t == SubSeq(s, 1, c)
  <2>1. /\ t \in Seq(Message) /\ Len(t) = (IF 1 <= c THEN c - 1 + 1 ELSE 0)
        /\ \A i \in 1..(c - 1 + 1) : t[i] = s[1 + i - 1]
    BY <1>1, <1>2, SubSeqProperties
  <2> HIDE DEF t
  <2>2. Len(t) = c /\ c - 1 + 1 = c /\ c <= Len(m) /\ Len(t) = IF 1 <= c THEN c - 1 + 1 ELSE 0
    BY <1>1, <2>1
  <2>3. ASSUME NEW i \in 1..c PROVE t[i] = m[1 + i - 1]
    <3>1. t[i] = s[1 + i - 1] /\ 1 + i - 1 = i /\ i \in 1..b
      BY <1>1, <2>1, <2>2
    <3> QED BY <1>2, <3>1
  <2>4. IsWindow(t, m, 1, c)
    BY <2>1, <2>2, <2>3 DEF IsWindow
  <2> QED BY <2>1, <2>2, <2>4 DEF t
<1>5. CASE s # <<>> /\ Last(s).kind = "calls"
  <2>1. WithoutLastCall(s) = SubSeq(s, 1, b - 1)
    BY <1>2, <1>5 DEF WithoutLastCall, Front
  <2>2. b >= 1 /\ b \in 1..Len(m) /\ m[b].kind = "calls" /\ b - 1 \in Nat /\ b - 1 <= b
    <3>1. b >= 1
      BY <1>1, <1>2, <1>5
    <3>2. b \in 1..b /\ Last(s) = s[b]
      BY <1>1, <1>2, <3>1 DEF Last
    <3> QED BY <1>1, <1>2, <1>5, <3>1, <3>2
  <2>3. IsWindow(SubSeq(s, 1, b - 1), m, 1, b - 1) /\ SubSeq(s, 1, b - 1) \in Seq(Message)
    BY <1>4, <2>2
  <2>4. 1 <= b - 1 => m[1].kind # "results" /\ m[b - 1].kind # "calls"
    <3> SUFFICES ASSUME 1 <= b - 1 PROVE m[1].kind # "results" /\ m[b - 1].kind # "calls"
      OBVIOUS
    <3>1. b - 1 \in 1..Len(m) /\ (b - 1) + 1 = b /\ Len(m) > 0
      BY <1>1, <2>2
    <3>2. m[b - 1].kind = "calls" => m[(b - 1) + 1] = ExecutionResults(m[b - 1].ids)
      BY <3>1 DEF Paired
    <3>3. \A x : ExecutionResults(x).kind = "results"
      BY DEF ExecutionResults
    <3> QED BY <1>3, <2>2, <3>1, <3>2, <3>3
  <2>5. Paired(SubSeq(s, 1, b - 1))
    BY <2>3, <2>4, WindowPaired
  <2> QED BY <1>1, <2>1, <2>3, <2>5
<1>6. CASE ~(s # <<>> /\ Last(s).kind = "calls")
  <2>1. WithoutLastCall(s) = s
    BY <1>6 DEF WithoutLastCall
  <2>2. IsWindow(s, m, 1, b)
    <3>1. \A i \in 1..b : i = 1 + i - 1
      BY <1>1
    <3>2. ASSUME NEW i \in 1..Len(s) PROVE s[i] = m[1 + i - 1]
      <4>1. s[i] = m[i] /\ i = 1 + i - 1
        BY <1>2, <3>1
      <4> QED BY <4>1
    <3>3. Len(s) = IF 1 <= b THEN b - 1 + 1 ELSE 0
      BY <1>1, <1>2
    <3> QED BY <1>1, <1>2, <3>2, <3>3 DEF IsWindow
  <2>3. 1 <= b => m[1].kind # "results" /\ m[b].kind # "calls"
    <3> SUFFICES ASSUME 1 <= b PROVE m[1].kind # "results" /\ m[b].kind # "calls"
      OBVIOUS
    <3>1. s # <<>> /\ b \in 1..b /\ Last(s) = s[b] /\ Len(m) > 0
      BY <1>1, <1>2 DEF Last
    <3> QED BY <1>2, <1>3, <1>6, <3>1
  <2>4. Paired(s)
    BY <2>2, <2>3, WindowPaired
  <2> QED BY <1>1, <1>2, <2>1, <2>4
<1> QED BY <1>5, <1>6

LEMMA ConcatPaired ==
  ASSUME NEW s \in Seq(Message), NEW t \in Seq(Message), Paired(s), Paired(t)
  PROVE  s \o t \in Seq(Message) /\ Paired(s \o t)
<1> DEFINE r == s \o t
<1>1. /\ r \in Seq(Message) /\ Len(r) = Len(s) + Len(t) /\ Len(s) \in Nat /\ Len(t) \in Nat
      /\ \A i \in 1..(Len(s) + Len(t)) : r[i] = IF i <= Len(s) THEN s[i] ELSE t[i - Len(s)]
  BY ConcatProperties
<1> HIDE DEF r
<1>2. ASSUME NEW i \in 1..Len(r) PROVE PairedAt(r, i)
  <2>1. CASE i <= Len(s)
    <3>1. i \in 1..Len(s) /\ r[i] = s[i]
      BY <1>1, <2>1
    <3>2. PairedAt(s, i)
      BY <3>1 DEF Paired, PairedAt
    <3>3. i < Len(s) => i < Len(r) /\ r[i + 1] = s[i + 1]
      BY <1>1, <3>1
    <3>4. i > 1 => r[i - 1] = s[i - 1]
      BY <1>1, <3>1
    <3> QED BY <3>1, <3>2, <3>3, <3>4 DEF PairedAt
  <2>2. CASE ~(i <= Len(s))
    <3> DEFINE j == i - Len(s)
    <3>1. j \in 1..Len(t) /\ r[i] = t[j] /\ (i < Len(r) <=> j < Len(t)) /\ (j > 1 => i > 1)
      BY <1>1, <2>2
    <3>2. j < Len(t) => r[i + 1] = t[j + 1]
      <4> SUFFICES ASSUME j < Len(t) PROVE r[i + 1] = t[j + 1]
        OBVIOUS
      <4>1. i + 1 \in 1..(Len(s) + Len(t)) /\ ~(i + 1 <= Len(s)) /\ (i + 1) - Len(s) = j + 1
        BY <1>1, <2>2
      <4>2. r[i + 1] = t[(i + 1) - Len(s)]
        BY ONLY <1>1, <4>1
      <4> QED BY ONLY <4>1, <4>2
    <3>3. j > 1 => r[i - 1] = t[j - 1]
      <4> SUFFICES ASSUME j > 1 PROVE r[i - 1] = t[j - 1]
        OBVIOUS
      <4>1. i - 1 \in 1..(Len(s) + Len(t)) /\ ~(i - 1 <= Len(s)) /\ (i - 1) - Len(s) = j - 1
        BY <1>1, <2>2
      <4>2. r[i - 1] = t[(i - 1) - Len(s)]
        BY ONLY <1>1, <4>1
      <4> QED BY ONLY <4>1, <4>2
    <3> HIDE DEF j
    <3>4. PairedAt(t, j)
      BY <3>1 DEF Paired, PairedAt
    <3> QED BY <3>1, <3>2, <3>3, <3>4 DEF PairedAt
  <2> QED BY <2>1, <2>2
<1>3. Paired(r)
  BY <1>2 DEF Paired, PairedAt
<1> QED BY <1>1, <1>3 DEF r

\* the contexts that keep a stretch of the conversation, or two; all but the
\* token-limited one, which takes messages out of the middle
Cuts == {[kind |-> "unbounded"]} \cup [kind : {"buffered"}, size : Nat \ {0}]
        \cup [kind : {"headandtail"}, head : Nat \ {0}, tail : Nat \ {0}]

LEMMA PlainPaired ==
  /\ User \in Message /\ Text \in Message
  /\ <<User>> \in Seq(Message) /\ Paired(<<User>>)
  /\ <<Text>> \in Seq(Message) /\ Paired(<<Text>>)
  /\ <<>> \in Seq(Message) /\ Paired(<<>>)
<1>1. <<>> \in Seq(Seq(Nat))
  OBVIOUS
<1>2. User \in Message /\ Text \in Message
  BY <1>1 DEF User, Text, Message
<1>3. <<User>> \in Seq(Message) /\ <<Text>> \in Seq(Message) /\ <<>> \in Seq(Message)
  BY <1>2
<1>4. ASSUME NEW x, x.kind \notin {"calls", "results"} PROVE Paired(<<x>>)
  <2>1. Len(<<x>>) = 1 /\ <<x>>[1] = x
    OBVIOUS
  <2>2. \A i \in 1..Len(<<x>>) : <<x>>[i].kind = x.kind
    BY <2>1
  <2> QED BY <1>4, <2>2 DEF Paired
<1>5. Paired(<<User>>) /\ Paired(<<Text>>)
  BY <1>4 DEF User, Text
<1>6. Paired(<<>>)
  BY DEF Paired
<1> QED BY <1>2, <1>3, <1>5, <1>6

\* What such a context shows of a paired conversation is paired.
LEMMA ViewPaired ==
  ASSUME NEW m \in Seq(Message), Paired(m), NEW c \in Cuts
  PROVE  Paired(View(c, m))
<1>1. CASE c = [kind |-> "unbounded"]
  BY <1>1 DEF View
<1>2. CASE c \in [kind : {"buffered"}, size : Nat \ {0}]
  <2>1. View(c, m) = WithoutFirstResult(LastOf(m, c.size)) /\ c.size \in Nat
    BY <1>2 DEF View, Buffered
  <2> QED BY <2>1, SuffixPaired
<1>3. CASE c \in [kind : {"headandtail"}, head : Nat \ {0}, tail : Nat \ {0}]
  <2> DEFINE s == WithoutLastCall(FirstOf(m, c.head))
             t == WithoutFirstResult(LastOf(m, c.tail))
  <2>1. /\ View(c, m) = IF Len(m) <= c.head + c.tail THEN m ELSE s \o <<User>> \o t
        /\ c.head \in Nat /\ c.tail \in Nat
    BY <1>3 DEF View, HeadAndTail
  <2>2. s \in Seq(Message) /\ Paired(s) /\ t \in Seq(Message) /\ Paired(t)
    BY <2>1, PrefixPaired, SuffixPaired
  <2> HIDE DEF s, t
  <2>3. s \o <<User>> \in Seq(Message) /\ Paired(s \o <<User>>)
    BY <2>2, PlainPaired, ConcatPaired
  <2>4. Paired((s \o <<User>>) \o t)
    BY <2>2, <2>3, ConcatPaired
  <2> QED BY <2>1, <2>4
<1> QED BY <1>1, <1>2, <1>3 DEF Cuts
-----------------------------------------------------------------------------
(* What a handoff takes along.                                             *)

(* A set of naturals that is not empty has a least element.                *)
LEMMA LeastOf ==
  ASSUME NEW S \in SUBSET Nat, S # {}
  PROVE  \E x \in S : \A y \in S : x <= y
<1> DEFINE R == {ss \in Nat \X Nat : ss[1] < ss[2]}
<1>1. IsWellFoundedOn(R, Nat)
  BY NatLessThanWellFounded DEF OpToRel
<1>2. \A x, y \in Nat : <<y, x>> \notin R => x <= y
  OBVIOUS
<1> HIDE DEF R
<1>3. \E x \in S : \A y \in S : ~ (<<y, x>> \in R)
  BY <1>1, WFMin
<1> QED BY <1>2, <1>3

\* the equation of the calls kept, up to call n of a batch
Kept(g, calls, names, n) ==
    g = [i \in 0..n |-> IF i = 0 THEN <<>>
                        ELSE IF calls[i].tool \in Handoffs THEN g[i - 1] ELSE Append(g[i - 1], names[i])]

\* the equation, call by call
LEMMA KeptUnfold ==
  ASSUME NEW n \in Nat, NEW g, NEW calls, NEW names, Kept(g, calls, names, n)
  PROVE  /\ g[0] = <<>>
         /\ \A i \in 1..n : g[i] = IF calls[i].tool \in Handoffs THEN g[i - 1] ELSE Append(g[i - 1], names[i])
<1>1. g = [i \in 0..n |-> IF i = 0 THEN <<>>
                          ELSE IF calls[i].tool \in Handoffs THEN g[i - 1] ELSE Append(g[i - 1], names[i])]
  BY DEF Kept
<1>2. \A i \in 0..n : g[i] = IF i = 0 THEN <<>>
                             ELSE IF calls[i].tool \in Handoffs THEN g[i - 1] ELSE Append(g[i - 1], names[i])
  BY <1>1
<1>3. 0 \in 0..n /\ \A i \in 1..n : i \in 0..n /\ i # 0
  OBVIOUS
<1> QED BY <1>2, <1>3

\* it has a solution: a least length without one would extend the one before
LEMMA KeptExists ==
  ASSUME NEW calls, NEW names, NEW n \in Nat
  PROVE  \E g : Kept(g, calls, names, n)
<1> DEFINE More(r, i) == IF calls[i].tool \in Handoffs THEN r ELSE Append(r, names[i])
           Bad == {k \in Nat : ~ \E g : Kept(g, calls, names, k)}
<1> SUFFICES ASSUME Bad # {} PROVE FALSE
  OBVIOUS
<1>1. PICK k \in Bad : \A j \in Bad : k <= j
  BY LeastOf
<1>2. CASE k = 0
  <2> DEFINE g == [i \in 0..0 |-> <<>>]
  <2>1. Kept(g, calls, names, 0)
    BY DEF Kept
  <2> QED BY <1>1, <1>2, <2>1
<1>3. CASE k # 0
  <2>1. k - 1 \in Nat /\ k \in Nat /\ ~(k <= k - 1)
    BY <1>1, <1>3
  <2>2. k - 1 \notin Bad
    BY <1>1, <2>1
  <2>3. PICK g : Kept(g, calls, names, k - 1)
    BY <2>1, <2>2
  <2> DEFINE h == [i \in 0..k |-> IF i = k THEN More(g[k - 1], k) ELSE g[i]]
  <2>4. g[0] = <<>> /\ \A i \in 1..(k - 1) : g[i] = More(g[i - 1], i)
    BY <2>1, <2>3, KeptUnfold
  <2> HIDE DEF More
  <2>5. \A i \in 0..k : h[i] = IF i = 0 THEN <<>> ELSE More(h[i - 1], i)
    <3> TAKE i \in 0..k
    <3>1. CASE i = 0
      BY <1>3, <2>1, <2>4, <3>1
    <3>2. CASE i = k
      <4>1. h[k] = More(g[k - 1], k) /\ h[k - 1] = g[k - 1]
        BY <2>1
      <4> HIDE DEF h
      <4> QED BY <1>3, <3>2, <4>1
    <3>3. CASE i # 0 /\ i # k
      <4>1. i \in 1..(k - 1) /\ i - 1 \in 0..k /\ i - 1 # k /\ i \in 0..k
        BY <2>1, <3>3
      <4>2. h[i] = g[i] /\ h[i - 1] = g[i - 1]
        BY <3>3, <4>1
      <4> HIDE DEF h
      <4> QED BY <2>4, <3>3, <4>1, <4>2
    <3> QED BY <3>1, <3>2, <3>3
  <2>6. Kept(h, calls, names, k)
    <3>1. h = [i \in 0..k |-> h[i]]
      OBVIOUS
    <3> HIDE DEF h
    <3>2. [i \in 0..k |-> h[i]] = [i \in 0..k |-> IF i = 0 THEN <<>> ELSE More(h[i - 1], i)]
      BY <2>5
    <3> QED BY <3>1, <3>2 DEF Kept, More
  <2> QED BY <1>1, <2>6
<1> QED BY <1>2, <1>3

\* what is kept are elements of the list
LEMMA KeptIsSeq ==
  ASSUME NEW calls, NEW names, NEW n \in Nat, NEW g, Kept(g, calls, names, n),
         NEW S, \A i \in 1..n : names[i] \in S
  PROVE  g[n] \in Seq(S)
<1> DEFINE Bad == {k \in 0..n : g[k] \notin Seq(S)}
<1>1. g[0] = <<>> /\ \A i \in 1..n : g[i] = IF calls[i].tool \in Handoffs THEN g[i - 1] ELSE Append(g[i - 1], names[i])
  BY KeptUnfold
<1>2. CASE Bad # {}
  <2>1. Bad \in SUBSET Nat
    OBVIOUS
  <2>2. PICK k \in Bad : \A j \in Bad : k <= j
    BY <1>2, <2>1, LeastOf
  <2>3. g[0] \in Seq(S)
    BY <1>1
  <2>4. k # 0 /\ k \in 1..n /\ k - 1 \in 0..n /\ ~(k <= k - 1)
    BY <2>2, <2>3
  <2>5. g[k - 1] \in Seq(S)
    BY <2>2, <2>4
  <2>6. names[k] \in S /\ g[k] = IF calls[k].tool \in Handoffs THEN g[k - 1] ELSE Append(g[k - 1], names[k])
    BY <1>1, <2>4
  <2>7. g[k] \in Seq(S)
    BY ONLY <2>5, <2>6
  <2> QED BY <2>2, <2>7
<1>3. CASE Bad = {}
  <2>1. n \in 0..n /\ n \notin Bad
    BY <1>3
  <2> QED BY <2>1
<1> QED BY <1>2, <1>3

LEMMA NoHandoffsIsSeq ==
  ASSUME NEW S, NEW list, Len(batch) \in Nat, \A i \in 1..Len(batch) : list[i] \in S
  PROVE  NoHandoffs(list) \in Seq(S)
<1> DEFINE n == Len(batch)
           kept == CHOOSE g : g = [i \in 0..n |->
                IF i = 0 THEN <<>>
                ELSE IF batch[i].tool \in Handoffs THEN g[i - 1] ELSE Append(g[i - 1], list[i])]
<1>1. NoHandoffs(list) = kept[n]
  BY DEF NoHandoffs
<1>2. \E g : g = [i \in 0..n |->
                IF i = 0 THEN <<>>
                ELSE IF batch[i].tool \in Handoffs THEN g[i - 1] ELSE Append(g[i - 1], list[i])]
  <2>1. n \in Nat
    OBVIOUS
  <2>2. \E g : Kept(g, batch, list, n)
    BY <2>1, KeptExists
  <2> QED BY <2>2 DEF Kept
<1>3. Kept(kept, batch, list, n)
  BY <1>2 DEF Kept
<1> HIDE DEF kept
<1>4. kept[n] \in Seq(S)
  BY <1>3, KeptIsSeq
<1> QED BY <1>1, <1>4

\* what is handed over with a batch: nothing, or calls and then their results
LEMMA HandoffTakes ==
  ASSUME Len(batch) \in Nat, ids \in Seq(Seq(Nat)), Len(ids) = Len(batch)
  PROVE  HandoffContext \in Seq(Message) /\ Paired(HandoffContext)
<1> DEFINE others == NoHandoffs(ids)
           h == <<FunctionCalls(others), ExecutionResults(others)>>
<1>1. others \in Seq(Seq(Nat))
  <2>1. \A i \in 1..Len(batch) : ids[i] \in Seq(Nat)
    OBVIOUS
  <2> QED BY <2>1, NoHandoffsIsSeq
<1>2. HandoffContext = IF others = <<>> THEN <<>> ELSE h
  BY DEF HandoffContext, Results
<1> HIDE DEF others
<1>3. h \in Seq(Message)
  <2>1. FunctionCalls(others) \in Message /\ ExecutionResults(others) \in Message
    BY <1>1 DEF FunctionCalls, ExecutionResults, Message
  <2> QED BY <2>1
<1>4. Paired(h)
  <2>1. /\ Len(h) = 2 /\ h[1].kind = "calls" /\ h[1].ids = others
        /\ h[2].kind = "results" /\ h[2] = ExecutionResults(others)
    BY DEF FunctionCalls, ExecutionResults
  <2> HIDE DEF h
  <2>2. ASSUME NEW i \in 1..Len(h) PROVE i = 1 \/ i = 2
    BY <2>1
  <2> QED BY <2>1, <2>2 DEF Paired
<1> HIDE DEF h
<1> QED BY <1>2, <1>3, <1>4, PlainPaired
-----------------------------------------------------------------------------
(* The conversation the agent keeps.                                       *)

\* the conversation is paired but for the calls at its end
Awaits(m, asked) ==
    /\ m # <<>> /\ m[Len(m)] = FunctionCalls(asked)
    /\ \A i \in 1..(Len(m) - 1) : PairedAt(m, i)

\* ModelSeesPairs speaks of two phases and of the context alone: a run comes
\* to them through the phase in which the calls await their results, a loaded
\* state brings a conversation kept earlier, and a handoff one of its own.
ContextInv ==
    /\ context \in Seq(Message) /\ saved.messages \in Seq(Message) /\ ids \in Seq(Seq(Nat))
    /\ Len(batch) = Len(ids)
    /\ response.context \in Seq(Message) /\ Paired(response.context)
    /\ ~saved.broken => Paired(saved.messages)
    /\ ~broken => IF phase = "tools" THEN Awaits(context, ids) ELSE Paired(context)

LEMMA CallsAppended ==
  ASSUME NEW m \in Seq(Message), Paired(m), NEW asked \in Seq(Seq(Nat))
  PROVE  Awaits(Append(m, FunctionCalls(asked)), asked)
<1> DEFINE r == Append(m, FunctionCalls(asked))
<1>1. FunctionCalls(asked) \in Message
  BY DEF FunctionCalls, Message
<1>2. /\ Len(m) \in Nat /\ r \in Seq(Message) /\ Len(r) = Len(m) + 1 /\ r[Len(m) + 1] = FunctionCalls(asked)
      /\ \A i \in 1..Len(m) : r[i] = m[i]
  BY <1>1, AppendProperties
<1> HIDE DEF r
<1>3. ASSUME NEW i \in 1..Len(m) PROVE PairedAt(r, i)
  <2>1. PairedAt(m, i) /\ i < Len(r)
    BY <1>2 DEF Paired, PairedAt
  <2>2. i < Len(m) => r[i + 1] = m[i + 1]
    <3>1. i < Len(m) => i + 1 \in 1..Len(m)
      BY ONLY <1>2, i \in 1..Len(m)
    <3> QED BY ONLY <1>2, <3>1
  <2>3. i > 1 => r[i - 1] = m[i - 1]
    BY <1>2
  <2> QED BY <1>2, <2>1, <2>2, <2>3 DEF PairedAt
<1>4. r # <<>> /\ Len(r) - 1 = Len(m)
  BY <1>2
<1>5. Awaits(r, asked)
  BY <1>2, <1>3, <1>4 DEF Awaits
<1> QED BY <1>5 DEF r

LEMMA ResultsAppended ==
  ASSUME NEW m \in Seq(Message), NEW asked \in Seq(Seq(Nat)), Awaits(m, asked)
  PROVE  Paired(Append(m, ExecutionResults(asked)))
<1> DEFINE r == Append(m, ExecutionResults(asked))
           n == Len(m)
<1>1. ExecutionResults(asked) \in Message
  BY DEF ExecutionResults, Message
<1>2. /\ n \in Nat /\ r \in Seq(Message) /\ Len(r) = n + 1 /\ r[n + 1] = ExecutionResults(asked)
      /\ \A i \in 1..n : r[i] = m[i]
  BY <1>1, AppendProperties
<1>3. n >= 1 /\ m[n] = FunctionCalls(asked) /\ \A i \in 1..(n - 1) : PairedAt(m, i)
  BY <1>2 DEF Awaits
<1>4. /\ FunctionCalls(asked).kind = "calls" /\ FunctionCalls(asked).ids = asked
      /\ ExecutionResults(asked).kind = "results"
  BY DEF FunctionCalls, ExecutionResults
<1>5. Len(m) = n
  OBVIOUS
<1> HIDE DEF r, n
<1>6. ASSUME NEW i \in 1..Len(r) PROVE PairedAt(r, i)
  <2>1. CASE i = n + 1
    <3>1. i - 1 = n /\ i > 1 /\ n \in 1..n
      BY <1>2, <1>3, <2>1
    <3>2. r[i].kind = "results" /\ r[i - 1].kind = "calls"
      BY <1>2, <1>3, <1>4, <2>1, <3>1
    <3> QED BY <3>1, <3>2 DEF PairedAt
  <2>2. CASE i = n
    <3>1. r[i] = FunctionCalls(asked) /\ i < Len(r) /\ r[i + 1] = ExecutionResults(asked)
      BY <1>2, <1>3, <2>2
    <3> QED BY <1>4, <3>1 DEF PairedAt
  <2>3. CASE i \in 1..(n - 1)
    <3>1. PairedAt(m, i) /\ r[i] = m[i] /\ i < Len(r) /\ r[i + 1] = m[i + 1]
      <4>1. i \in 1..n /\ i + 1 \in 1..n /\ i < Len(r)
        BY ONLY <1>2, <2>3
      <4> QED BY ONLY <1>2, <1>3, <2>3, <4>1
    <3>2. i > 1 => r[i - 1] = m[i - 1]
      BY <1>2, <2>3
    <3> QED BY <1>5, <3>1, <3>2 DEF PairedAt
  <2> QED BY <1>2, <2>1, <2>2, <2>3
<1>7. Paired(r)
  BY <1>6 DEF Paired, PairedAt
<1> QED BY <1>7 DEF r

LEMMA TextAppended ==
  ASSUME NEW m \in Seq(Message), Paired(m)
  PROVE  Append(m, Text) \in Seq(Message) /\ Paired(Append(m, Text))
<1>1. Append(m, Text) = m \o <<Text>>
  BY PlainPaired, AppendIsConcat
<1> QED BY <1>1, PlainPaired, ConcatPaired

\* The conversation and what decides about it are left alone.
LEMMA ContextKept ==
  ASSUME ContextInv, UNCHANGED <<context, saved, broken, ids, batch, response>>,
         (phase = "tools") <=> (phase = "tools")'
  PROVE  ContextInv'
BY DEF ContextInv

LEMMA ContextInit == Init => ContextInv
<1> SUFFICES ASSUME Init PROVE ContextInv
  OBVIOUS
<1>1. context = <<>> /\ saved.messages = <<>> /\ ids = <<>> /\ phase # "tools"
      /\ batch = <<>> /\ response.context = <<>>
  BY DEF Init, NoResponse
<1>2. <<>> \in Seq(Seq(Nat))
  OBVIOUS
<1> QED BY <1>1, <1>2, PlainPaired DEF ContextInv

LEMMA ContextNext == ContextInv /\ [Next]_vars => ContextInv'
<1> SUFFICES ASSUME ContextInv, [Next]_vars PROVE ContextInv'
  OBVIOUS
<1> USE DEF agentVars
<1>1. /\ context \in Seq(Message) /\ saved.messages \in Seq(Message) /\ ids \in Seq(Seq(Nat))
      /\ Len(batch) = Len(ids) /\ Len(batch) \in Nat
      /\ response.context \in Seq(Message) /\ Paired(response.context)
      /\ ~saved.broken => Paired(saved.messages)
      /\ ~broken => IF phase = "tools" THEN Awaits(context, ids) ELSE Paired(context)
  BY DEF ContextInv
<1>2. CASE \E input \in Inputs \cup Handed : Run(input)
  <2>1. PICK input \in Inputs \cup Handed : Run(input)
    BY <1>2
  <2>2. /\ phase # "tools" /\ phase' # "tools" /\ context' = context \o input
        /\ response'.context = <<>> /\ UNCHANGED <<ids, batch, saved, broken>>
    BY <2>1 DEF Run, NoResponse
  <2>3. input \in Seq(Message) /\ Paired(input)
    <3>1. CASE input \in Inputs
      BY <3>1, AgentAssumption
    <3>2. CASE input \in Handed
      <4>1. input = response.context \o <<User>>
        BY <3>2 DEF Handed
      <4> QED BY <1>1, <4>1, PlainPaired, ConcatPaired
    <3> QED BY <3>1, <3>2
  <2>4. context' \in Seq(Message)
    BY <1>1, <2>2, <2>3
  <2>5. ~broken => Paired(context')
    BY <1>1, <2>2, <2>3, ConcatPaired
  <2> QED BY <1>1, <2>2, <2>4, <2>5, PlainPaired DEF ContextInv
<1>3. CASE ModelSays \/ Reflection
  <2>1. /\ phase # "tools" /\ phase' # "tools" /\ context' = Append(context, Text)
        /\ response'.context = <<>> /\ UNCHANGED <<ids, batch, saved, broken>>
    BY <1>3 DEF ModelSays, Reflection
  <2>2. context' \in Seq(Message)
    BY <1>1, <2>1, PlainPaired
  <2>3. ~broken => Paired(context')
    BY <1>1, <2>1, TextAppended
  <2> QED BY <1>1, <2>1, <2>2, <2>3, PlainPaired DEF ContextInv
<1>4. CASE \E answer \in Answers : ModelCalls(answer)
  <2>1. PICK answer \in Answers : ModelCalls(answer)
    BY <1>4
  <2>2. /\ phase # "tools" /\ phase' = "tools" /\ context' = Append(context, FunctionCalls(ids'))
        /\ ids' = [i \in DOMAIN answer |-> <<Len(context) + 1, i>>]
        /\ batch' = answer /\ UNCHANGED <<saved, broken, response>>
    BY <2>1 DEF ModelCalls
  <2>3. Len(answer) \in Nat /\ DOMAIN answer = 1..Len(answer)
    BY AgentAssumption
  <2>4. \A i \in 1..Len(answer) : <<Len(context) + 1, i>> \in Seq(Nat)
    <3>1. Len(context) + 1 \in Nat
      BY <1>1
    <3>2. \A x, y \in Nat : <<x, y>> \in Seq(Nat)
      OBVIOUS
    <3> QED BY <2>3, <3>1, <3>2
  <2>5. ids' \in Seq(Seq(Nat))
    BY <2>2, <2>3, <2>4
  <2>6. context' \in Seq(Message)
    <3>1. FunctionCalls(ids') \in Message
      BY <2>5 DEF FunctionCalls, Message
    <3> QED BY <1>1, <2>2, <3>1
  <2>7. ~broken => Awaits(context', ids')
    <3> DEFINE asked == ids'
    <3>1. asked \in Seq(Seq(Nat)) /\ context' = Append(context, FunctionCalls(asked))
      BY <2>2, <2>5
    <3> HIDE DEF asked
    <3>2. ~broken => Awaits(Append(context, FunctionCalls(asked)), asked)
      BY <1>1, <2>2, <3>1, CallsAppended
    <3> QED BY <3>1, <3>2 DEF asked
  <2>8. Len(batch') = Len(ids')
    <3>1. DOMAIN ids' = 1..Len(answer) /\ DOMAIN ids' = 1..Len(ids') /\ Len(ids') \in Nat
      BY <2>2, <2>3, <2>5
    <3>2. Len(ids') = Len(answer)
      BY ONLY <2>3, <3>1
    <3> QED BY <2>2, <3>2
  <2> QED BY <1>1, <2>2, <2>5, <2>6, <2>7, <2>8 DEF ContextInv
<1>5. CASE CollectResults
  <2>1. /\ phase = "tools" /\ phase' # "tools" /\ context' = Append(context, ExecutionResults(ids))
        /\ UNCHANGED <<ids, batch, saved, broken>>
    BY <1>5 DEF CollectResults, Ask, Results
  <2>2. context' \in Seq(Message)
    <3>1. ExecutionResults(ids) \in Message
      BY <1>1 DEF ExecutionResults, Message
    <3> QED BY <1>1, <2>1, <3>1
  <2>3. ~broken => Paired(context')
    BY <1>1, <2>1, ResultsAppended
  <2>4. response'.context \in Seq(Message) /\ Paired(response'.context)
    <3>1. \/ response' = [kind |-> "handoff", context |-> HandoffContext]
          \/ response' = [kind |-> "summary", context |-> <<>>]
          \/ response' = response
      BY <1>5 DEF CollectResults
    <3>2. HandoffContext \in Seq(Message) /\ Paired(HandoffContext)
      BY <1>1, HandoffTakes
    <3>3. response'.context \in {HandoffContext, <<>>, response.context}
      BY <3>1
    <3> QED BY <1>1, <3>2, <3>3, PlainPaired
  <2> QED BY <1>1, <2>1, <2>2, <2>3, <2>4 DEF ContextInv
<1>6. CASE CancelRun
  <2>1. UNCHANGED <<context, ids, batch, response, saved>> /\ phase' = "idle" /\ broken' = (broken \/ phase = "tools")
    BY <1>6 DEF CancelRun
  <2> QED BY <1>1, <2>1 DEF ContextInv
<1>7. CASE OnReset
  <2>1. /\ UNCHANGED <<phase, ids, batch, response, saved>> /\ phase = "idle" /\ context' = <<>>
    BY <1>7 DEF OnReset
  <2> QED BY <1>1, <2>1, PlainPaired DEF ContextInv
<1>8. CASE SaveState
  <2>1. /\ UNCHANGED <<context, phase, ids, batch, response, broken>>
        /\ saved' = [messages |-> context, broken |-> broken \/ phase = "tools"]
    BY <1>8 DEF SaveState
  <2>2. saved'.messages = context /\ saved'.broken = (broken \/ phase = "tools")
    BY <2>1
  <2> QED BY <1>1, <2>1, <2>2 DEF ContextInv
<1>9. CASE LoadState
  <2>1. /\ UNCHANGED <<phase, ids, batch, response, saved>> /\ phase = "idle"
        /\ context' = saved.messages /\ broken' = saved.broken
    BY <1>9 DEF LoadState
  <2> QED BY <1>1, <2>1 DEF ContextInv
<1>10. CASE ModelFails \/ CancelToken \/ Listed
  <2>1. UNCHANGED <<context, saved, broken, ids, batch, response>> /\ ((phase = "tools") <=> (phase = "tools")')
    BY <1>10 DEF ModelFails, CancelToken, Listed, Ask
  <2> QED BY <2>1, ContextKept
<1>11. CASE GatherEnds \/ ReadEvent \/ Session \/ SessionFault \/ StopWorkbench \/ UNCHANGED vars
  <2>1. UNCHANGED <<context, saved, broken, ids, batch, response, phase>>
    BY <1>11 DEF GatherEnds, ReadEvent, Session, SessionFault, StopWorkbench, vars
  <2> QED BY <2>1, ContextKept
<1>12. CASE \/ \E i \in Slots : CallStep(i) \/ StreamEvent(i)
            \/ \E c \in Clients : Await(c)
  <2>1. UNCHANGED <<context, saved, broken, ids, batch, response, phase>>
    BY <1>12 DEF CallStep, BeginCall, EndCall, ListedForCall, RemoteCall, StreamEvent, Await, restOfCall
  <2> QED BY <2>1, ContextKept
<1> QED BY <1>2, <1>3, <1>4, <1>5, <1>6, <1>7, <1>8, <1>9, <1>10, <1>11, <1>12
        DEF Next, ModelAnswers, AgentStep

(* Under the unbounded, the buffered and the head-and-tail context, of any *)
(* size, the model is shown only conversations in which every list of      *)
(* calls is followed by the results of these calls: whatever the answers,  *)
(* the inputs and the number of runs, across failed models and sessions,   *)
(* cancelled tokens, resets, loaded states and handoffs with any number of *)
(* other calls, unless a run was cancelled, or the state saved, between    *)
(* calls and their results.                                                *)
THEOREM ModelIsShownPairs ==
  ASSUME Contexts \subseteq Cuts
  PROVE  Spec => []ModelSeesPairs
<1>1. ContextInv => ModelSeesPairs
  <2> SUFFICES ASSUME ContextInv, phase \in {"model", "reflect"}, ~broken, NEW window \in Contexts
               PROVE  Paired(View(window, context))
    BY DEF ModelSeesPairs
  <2>1. context \in Seq(Message) /\ Paired(context) /\ window \in Cuts
    BY DEF ContextInv
  <2> QED BY <2>1, ViewPaired
<1> QED BY <1>1, ContextInit, ContextNext, PTL DEF Spec
-----------------------------------------------------------------------------
(* What the tools stream.                                                  *)

\* message e of s comes after a request with no execution event in between
InBatch(s, e) == \E r \in 1..(e - 1) : s[r] = "request" /\ \A m \in r..e : s[m] # "execution"

\* The task of the executions outlives a cancelled run, so that EventsInPlace
\* rests on what ties it to the stream: it ends the stream after the last of
\* the executions, and nobody begins a stream before they have ended.
StreamInv ==
    /\ inner \in Seq({"request", "event", "execution"}) /\ stream \in Seq({"event", "end"})
    /\ call \in [Slots -> {"none", "ready", "running", "listing", "calling", "done", "raised"}]
    \* a slot is used by a call of the batch only
    /\ \A i \in Slots \ DOMAIN batch : call[i] = "none"
    \* the stream has its end when all have returned, and nothing behind it
    /\ gather = "ended" => \A i \in Slots : call[i] \in {"none", "done"}
    /\ \A i \in DOMAIN stream : stream[i] = "end" => gather = "ended" /\ i = Len(stream)
    \* while it is read the request of its batch is the last of its kind
    /\ phase = "tools" => InBatch(Append(inner, "event"), Len(inner) + 1)
    \* once the execution event is there, nothing is left that could stream
    /\ inner # <<>> /\ inner[Len(inner)] = "execution" =>
            stream = <<>> /\ gather = "none" /\ \A i \in Slots : call[i] = "none"
    /\ \A e \in DOMAIN inner : inner[e] = "event" => InBatch(inner, e)

\* A message that follows keeps every event in its batch.
LEMMA InnerAppended ==
  ASSUME NEW s \in Seq({"request", "event", "execution"}), NEW x \in {"request", "event", "execution"},
         \A e \in DOMAIN s : s[e] = "event" => InBatch(s, e),
         x = "event" => InBatch(Append(s, x), Len(s) + 1)
  PROVE  /\ Append(s, x) \in Seq({"request", "event", "execution"})
         /\ Len(Append(s, x)) = Len(s) + 1 /\ Append(s, x)[Len(s) + 1] = x /\ Append(s, x) # <<>>
         /\ \A e \in DOMAIN Append(s, x) : Append(s, x)[e] = "event" => InBatch(Append(s, x), e)
<1> DEFINE r == Append(s, x)
<1>1. /\ r \in Seq({"request", "event", "execution"}) /\ Len(r) = Len(s) + 1 /\ Len(s) \in Nat
      /\ r[Len(s) + 1] = x /\ r # <<>> /\ \A i \in 1..Len(s) : r[i] = s[i]
      /\ DOMAIN r = 1..(Len(s) + 1) /\ DOMAIN s = 1..Len(s)
  OBVIOUS
<1>2. x = "event" => InBatch(r, Len(s) + 1)
  OBVIOUS
<1> HIDE DEF r
<1>3. ASSUME NEW e \in DOMAIN r, r[e] = "event" PROVE InBatch(r, e)
  <2>1. CASE e = Len(s) + 1
    BY <1>1, <1>2, <1>3, <2>1
  <2>2. CASE e # Len(s) + 1
    <3>1. e \in 1..Len(s) /\ s[e] = "event"
      BY <1>1, <1>3, <2>2
    <3>2. InBatch(s, e)
      BY <1>1, <3>1
    <3>3. PICK q \in 1..(e - 1) : s[q] = "request" /\ \A m \in q..e : s[m] # "execution"
      BY <3>2 DEF InBatch
    <3>4. q \in 1..Len(s) /\ \A m \in q..e : m \in 1..Len(s)
      BY <1>1, <3>1
    <3>5. r[q] = "request" /\ \A m \in q..e : r[m] # "execution"
      BY <1>1, <3>3, <3>4
    <3> QED BY <3>5 DEF InBatch
  <2> QED BY <2>1, <2>2
<1> QED BY <1>1, <1>3 DEF r

\* an event that follows an event of the batch, or its request, is in the batch
LEMMA BatchGoesOn ==
  ASSUME NEW s \in Seq({"request", "event", "execution"}), NEW x \in {"request", "event"},
         x = "event" => InBatch(Append(s, "event"), Len(s) + 1)
  PROVE  InBatch(Append(Append(s, x), "event"), Len(s) + 2)
<1> DEFINE r == Append(s, x)
           t == Append(r, "event")
           n == Len(s)
<1>1. /\ n \in Nat /\ r \in Seq({"request", "event", "execution"}) /\ Len(r) = n + 1 /\ r[n + 1] = x
      /\ \A i \in 1..n : r[i] = s[i]
  OBVIOUS
<1>2. /\ t \in Seq({"request", "event", "execution"}) /\ Len(t) = n + 2 /\ t[n + 2] = "event"
      /\ \A i \in 1..(n + 1) : t[i] = r[i]
  BY <1>1
<1>3. t[n + 1] = x /\ \A i \in 1..n : t[i] = s[i]
  BY <1>1, <1>2
<1>4. CASE x = "request"
  <2>1. n + 1 \in 1..((n + 2) - 1) /\ \A m \in (n + 1)..(n + 2) : m = n + 1 \/ m = n + 2
    BY <1>1
  <2>2. t[n + 1] = "request" /\ \A m \in (n + 1)..(n + 2) : t[m] # "execution"
    BY <1>2, <1>3, <1>4, <2>1
  <2> QED BY <2>1, <2>2 DEF InBatch
<1>5. CASE x = "event"
  <2>1. PICK q \in 1..((n + 1) - 1) : /\ Append(s, "event")[q] = "request"
                                      /\ \A m \in q..(n + 1) : Append(s, "event")[m] # "execution"
    BY <1>5 DEF InBatch
  <2>2. q \in 1..n /\ q \in 1..((n + 2) - 1) /\ \A m \in q..(n + 2) : m \in q..(n + 1) \/ m = n + 2
    BY <1>1
  <2>3. \A m \in q..(n + 1) : t[m] = Append(s, "event")[m]
    BY <1>1, <1>2, <1>3, <1>5, <2>2
  <2>4. q \in q..(n + 1)
    BY <1>1, <2>2
  <2>5. t[q] = "request" /\ \A m \in q..(n + 2) : t[m] # "execution"
    BY <1>2, <2>1, <2>2, <2>3, <2>4
  <2> QED BY <2>2, <2>5 DEF InBatch
<1> QED BY <1>4, <1>5

LEMMA StreamKept ==
  ASSUME StreamInv, UNCHANGED <<inner, stream, call, batch, gather>>, phase' = "tools" => phase = "tools"
  PROVE  StreamInv'
BY DEF StreamInv

LEMMA StreamInit == Init => StreamInv
<1> SUFFICES ASSUME Init PROVE StreamInv
  OBVIOUS
<1>1. <<>> \in Seq({"request", "event", "execution"}) /\ <<>> \in Seq({"event", "end"}) /\ DOMAIN <<>> = {}
  OBVIOUS
<1>2. /\ inner = <<>> /\ stream = <<>> /\ call = [i \in Slots |-> "none"] /\ gather = "none" /\ phase = "idle"
  BY DEF Init
<1> QED BY <1>1, <1>2 DEF StreamInv

\* An execution goes on, returns or raises.
LEMMA CallsGoOn ==
  ASSUME StreamInv, UNCHANGED <<inner, stream, batch, gather, phase>>,
         call' \in [Slots -> {"none", "ready", "running", "listing", "calling", "done", "raised"}],
         \A i \in Slots : call[i] \in {"none", "done"} => call'[i] = call[i]
  PROVE  StreamInv'
<1>1. \A i \in Slots \ DOMAIN batch : call'[i] = "none"
  BY DEF StreamInv
<1>2. gather = "ended" => \A i \in Slots : call'[i] \in {"none", "done"}
  BY DEF StreamInv
<1>3. inner # <<>> /\ inner[Len(inner)] = "execution" => \A i \in Slots : call'[i] = "none"
  BY DEF StreamInv
<1> QED BY <1>1, <1>2, <1>3 DEF StreamInv

LEMMA StreamNext == StreamInv /\ [Next]_vars => StreamInv'
<1> SUFFICES ASSUME StreamInv, [Next]_vars PROVE StreamInv'
  OBVIOUS
<1> USE DEF agentVars
<1> DEFINE Notes == {"request", "event", "execution"}
           States == {"none", "ready", "running", "listing", "calling", "done", "raised"}
<1>1. /\ inner \in Seq(Notes) /\ stream \in Seq({"event", "end"}) /\ call \in [Slots -> States]
      /\ \A i \in Slots \ DOMAIN batch : call[i] = "none"
      /\ gather = "ended" => \A i \in Slots : call[i] \in {"none", "done"}
      /\ \A i \in DOMAIN stream : stream[i] = "end" => gather = "ended" /\ i = Len(stream)
      /\ phase = "tools" => InBatch(Append(inner, "event"), Len(inner) + 1)
      /\ inner # <<>> /\ inner[Len(inner)] = "execution" =>
            stream = <<>> /\ gather = "none" /\ \A i \in Slots : call[i] = "none"
      /\ \A e \in DOMAIN inner : inner[e] = "event" => InBatch(inner, e)
  BY DEF StreamInv
<1>2. CASE \E input \in Inputs \cup Handed : Run(input)
  <2>1. inner' = <<>> /\ phase' = "listing" /\ UNCHANGED <<stream, call, batch, gather>>
    BY <1>2 DEF Run
  <2>2. <<>> \in Seq(Notes) /\ DOMAIN <<>> = {}
    OBVIOUS
  <2> QED BY <1>1, <2>1, <2>2 DEF StreamInv
<1>3. CASE \E answer \in Answers : ModelCalls(answer)
  <2>1. PICK answer \in Answers : ModelCalls(answer)
    BY <1>3
  <2>2. /\ batch' = answer /\ inner' = Append(inner, "request") /\ gather' = "running" /\ stream' = <<>>
        /\ call' = [i \in Slots |-> IF i \in DOMAIN answer THEN "ready" ELSE "none"] /\ phase' = "tools"
    BY <2>1 DEF ModelCalls
  <2>3. /\ inner' \in Seq(Notes) /\ Len(inner') = Len(inner) + 1 /\ inner'[Len(inner) + 1] = "request"
        /\ \A e \in DOMAIN inner' : inner'[e] = "event" => InBatch(inner', e)
    BY <1>1, <2>2, InnerAppended
  <2>4. InBatch(Append(inner', "event"), Len(inner') + 1)
    <3>1. InBatch(Append(Append(inner, "request"), "event"), Len(inner) + 2)
      BY <1>1, BatchGoesOn
    <3>2. Len(inner') + 1 = Len(inner) + 2
      <4>1. Len(inner) \in Nat
        BY <1>1
      <4> QED BY <2>3, <4>1
    <3> QED BY <2>2, <3>1, <3>2
  <2>5. <<>> \in Seq({"event", "end"}) /\ DOMAIN <<>> = {}
    OBVIOUS
  <2>6. call' \in [Slots -> States] /\ \A i \in Slots \ DOMAIN batch' : call'[i] = "none"
    BY <2>2
  <2>7. inner'[Len(inner')] # "execution"
    BY <2>3
  <2> QED BY <2>2, <2>3, <2>4, <2>5, <2>6, <2>7 DEF StreamInv
<1>4. CASE \E i \in Slots : CallStep(i)
  <2>1. PICK i \in Slots : CallStep(i)
    BY <1>4
  <2>2. UNCHANGED <<inner, stream, batch, gather, phase>>
    BY <2>1 DEF CallStep, BeginCall, EndCall, ListedForCall, RemoteCall, restOfCall
  <2>3. call[i] \notin {"none", "done"} /\ \E x \in States : call' = [call EXCEPT ![i] = x]
    BY <2>1 DEF CallStep, BeginCall, EndCall, ListedForCall, RemoteCall, CallIs
  <2>4. call' \in [Slots -> States] /\ \A j \in Slots : call[j] \in {"none", "done"} => call'[j] = call[j]
    BY <1>1, <2>3
  <2> QED BY <2>2, <2>4, CallsGoOn
<1>5. CASE CancelToken
  <2>1. UNCHANGED <<inner, stream, batch, gather>> /\ (phase' = "tools" => phase = "tools")
        /\ (phase' = phase \/ phase' = "idle")
    BY <1>5 DEF CancelToken
  <2>2. PICK hit \in SUBSET {i \in Slots : call[i] = "running"} :
             call' = [i \in Slots |-> IF i \in hit THEN "raised" ELSE call[i]]
    BY <1>5 DEF CancelToken
  <2>3. /\ call' \in [Slots -> States]
        /\ \A j \in Slots : call[j] \in {"none", "done"} => call'[j] = call[j]
    BY <1>1, <2>2
  <2>4. /\ \A i \in Slots \ DOMAIN batch : call'[i] = "none"
        /\ gather = "ended" => \A i \in Slots : call'[i] \in {"none", "done"}
        /\ inner # <<>> /\ inner[Len(inner)] = "execution" => \A i \in Slots : call'[i] = "none"
    BY <1>1, <2>3
  <2> QED BY <1>1, <2>1, <2>3, <2>4 DEF StreamInv
<1>6. CASE \E i \in Slots : StreamEvent(i)
  <2>1. PICK i \in Slots : StreamEvent(i)
    BY <1>6
  <2>2. /\ call[i] = "running" /\ stream' = Append(stream, "event")
        /\ UNCHANGED <<inner, call, batch, gather, phase>>
    BY <2>1 DEF StreamEvent, restOfCall
  <2>3. /\ stream' \in Seq({"event", "end"}) /\ DOMAIN stream' = 1..(Len(stream) + 1)
        /\ DOMAIN stream = 1..Len(stream) /\ Len(stream) \in Nat
        /\ stream'[Len(stream) + 1] = "event" /\ \A j \in 1..Len(stream) : stream'[j] = stream[j]
    BY <1>1, <2>2
  <2>4. gather # "ended" /\ ~(inner # <<>> /\ inner[Len(inner)] = "execution")
    BY <1>1, <2>2
  <2>5. \A j \in DOMAIN stream' : stream'[j] # "end"
    BY <1>1, <2>3, <2>4
  <2> QED BY <1>1, <2>2, <2>3, <2>4, <2>5 DEF StreamInv
<1>7. CASE GatherEnds
  <2>1. gather = "running" /\ UNCHANGED <<inner, call, batch, phase>>
    BY <1>7 DEF GatherEnds
  <2>2. ~(inner # <<>> /\ inner[Len(inner)] = "execution") /\ \A j \in DOMAIN stream : stream[j] # "end"
    BY <1>1, <2>1
  <2>3. CASE gather' = "raised" /\ UNCHANGED stream
    BY <1>1, <2>1, <2>2, <2>3 DEF StreamInv
  <2>4. CASE /\ \A i \in DOMAIN batch : call[i] = "done"
             /\ gather' = "ended" /\ stream' = Append(stream, "end")
    <3>1. /\ stream' \in Seq({"event", "end"}) /\ DOMAIN stream' = 1..(Len(stream) + 1)
          /\ DOMAIN stream = 1..Len(stream) /\ Len(stream) \in Nat /\ Len(stream') = Len(stream) + 1
          /\ \A j \in 1..Len(stream) : stream'[j] = stream[j]
      BY <1>1, <2>4
    <3>2. \A j \in DOMAIN stream' : stream'[j] = "end" => j = Len(stream')
      BY <2>2, <3>1
    <3>3. \A i \in Slots : call'[i] \in {"none", "done"}
      BY <1>1, <2>1, <2>4
    <3> QED BY <1>1, <2>1, <2>2, <2>4, <3>1, <3>2, <3>3 DEF StreamInv
  <2> QED BY <1>7, <2>3, <2>4 DEF GatherEnds
<1>8. CASE ReadEvent
  <2>1. /\ phase = "tools" /\ stream # <<>> /\ Head(stream) = "event" /\ stream' = Tail(stream)
        /\ inner' = Append(inner, "event") /\ UNCHANGED <<phase, batch, call, gather>>
    BY <1>8 DEF ReadEvent
  <2>2. /\ inner' \in Seq(Notes) /\ Len(inner') = Len(inner) + 1 /\ inner'[Len(inner) + 1] = "event"
        /\ \A e \in DOMAIN inner' : inner'[e] = "event" => InBatch(inner', e)
    BY <1>1, <2>1, InnerAppended
  <2>3. InBatch(Append(inner', "event"), Len(inner') + 1)
    <3>1. InBatch(Append(Append(inner, "event"), "event"), Len(inner) + 2)
      BY <1>1, <2>1, BatchGoesOn
    <3>2. Len(inner') + 1 = Len(inner) + 2
      <4>1. Len(inner) \in Nat
        BY <1>1
      <4> QED BY <2>2, <4>1
    <3> QED BY <2>1, <3>1, <3>2
  <2>4. /\ stream' \in Seq({"event", "end"}) /\ Len(stream') = Len(stream) - 1
        /\ DOMAIN stream' = 1..(Len(stream) - 1) /\ DOMAIN stream = 1..Len(stream) /\ Len(stream) \in Nat
        /\ \A j \in 1..(Len(stream) - 1) : stream'[j] = stream[j + 1]
    BY <1>1, <2>1
  <2>5. ASSUME NEW j \in DOMAIN stream', stream'[j] = "end" PROVE gather' = "ended" /\ j = Len(stream')
    <3>1. j + 1 \in DOMAIN stream /\ stream[j + 1] = "end"
      BY <2>4, <2>5
    <3>2. gather = "ended" /\ j + 1 = Len(stream)
      BY <1>1, <3>1
    <3> QED BY <2>1, <2>4, <3>2
  <2>6. inner'[Len(inner')] # "execution"
    BY <2>2
  <2> QED BY <1>1, <2>1, <2>2, <2>3, <2>4, <2>5, <2>6 DEF StreamInv
<1>9. CASE CollectResults
  <2>1. /\ phase = "tools" /\ stream # <<>> /\ Head(stream) = "end" /\ stream' = Tail(stream)
        /\ inner' = Append(inner, "execution") /\ gather' = "none" /\ call' = [i \in Slots |-> "none"]
        /\ phase' # "tools"
    BY <1>9 DEF CollectResults, Ask
  <2>2. /\ inner' \in Seq(Notes) /\ \A e \in DOMAIN inner' : inner'[e] = "event" => InBatch(inner', e)
    BY <1>1, <2>1, InnerAppended
  <2>3. stream' = <<>>
    <3>1. 1 \in DOMAIN stream /\ stream[1] = "end"
      BY <1>1, <2>1
    <3>2. Len(stream) = 1
      BY <1>1, <3>1
    <3> QED BY <1>1, <2>1, <3>2
  <2>4. <<>> \in Seq({"event", "end"}) /\ DOMAIN <<>> = {}
    OBVIOUS
  <2> QED BY <2>1, <2>2, <2>3, <2>4 DEF StreamInv
<1>10. CASE \/ Listed \/ ModelSays \/ Reflection \/ ModelFails \/ CancelRun \/ OnReset \/ SaveState \/ LoadState
            \/ Session \/ SessionFault \/ StopWorkbench \/ (\E c \in Clients : Await(c)) \/ UNCHANGED vars
  <2>1. UNCHANGED <<inner, stream, call, batch, gather>> /\ (phase' = "tools" => phase = "tools")
    BY <1>10 DEF Listed, ModelSays, Reflection, ModelFails, CancelRun, OnReset, SaveState, LoadState,
                 Session, SessionFault, StopWorkbench, Await, Ask, vars
  <2> QED BY <2>1, StreamKept
<1> QED BY <1>2, <1>3, <1>4, <1>5, <1>6, <1>7, <1>8, <1>9, <1>10 DEF Next, ModelAnswers, AgentStep

(* For any tools, number of concurrent calls and of events: what a tool    *)
(* streams is between the request of its batch and the execution event,    *)
(* and that event comes when nothing is left in the stream, also after     *)
(* runs that were cancelled while their executions went on.                *)
THEOREM EventsAreInPlace == Spec => []EventsInPlace
<1>1. StreamInv => EventsInPlace
  BY DEF StreamInv, EventsInPlace, InBatch
<1> QED BY <1>1, StreamInit, StreamNext, PTL DEF Spec
=============================================================================
