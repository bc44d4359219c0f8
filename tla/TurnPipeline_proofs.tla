--------------------------- MODULE TurnPipeline_proofs ---------------------------
(***************************************************************************)
(* Proofs about TurnPipeline, for any length of the tool loop, any number  *)
(* of sentences and frames, and any cap of the history.                    *)
(***************************************************************************)
EXTENDS TurnPipeline, TLAPS, FiniteSetTheorems, SequenceTheorems, WellFoundedInduction

-----------------------------------------------------------------------------
(***************************************************************************)
(* The message list.                                                       *)
(***************************************************************************)
LEMMA LeastOf == ASSUME NEW T \in SUBSET Nat, T # {} PROVE \E x \in T : \A y \in T : x <= y
<1> DEFINE F == {1 .. n : n \in T}
<1>1. IsWellFoundedOn(StrictSubsetOrdering(Nat), FiniteSubsetsOf(Nat))
  BY FS_StrictSubsetOrderingWellFounded
<1>2. \A n \in T : 1 .. n \in FiniteSubsetsOf(Nat)
  BY FS_Interval DEF FiniteSubsetsOf
<1>3. F \subseteq FiniteSubsetsOf(Nat) /\ F # {} BY <1>2
<1>4. PICK s \in F : \A t \in F : ~(<<t, s>> \in StrictSubsetOrdering(Nat))
  <2> HIDE DEF F
  <2> QED BY <1>1, <1>3, WFMin
<1>5. PICK x \in T : s = 1 .. x OBVIOUS
<1>6. ASSUME NEW y \in T, y < x PROVE FALSE
  <2>1. 1 .. y \subseteq 1 .. x /\ x \in 1 .. x /\ x \notin 1 .. y BY <1>5, <1>6
  <2>2. 1 .. y \subseteq Nat /\ 1 .. x \subseteq Nat OBVIOUS
  <2>3. <<1 .. y, 1 .. x>> \in StrictSubsetOrdering(Nat)
    BY <2>1, <2>2 DEF StrictSubsetOrdering
  <2> QED BY <1>4, <1>5, <2>3
<1> QED BY <1>6

(* What the end of a sequence is.                                          *)
LEMMA SuffixOf ==
  ASSUME NEW S, NEW h \in Seq(S), NEW f \in 1 .. Len(h)
  PROVE  /\ SubSeq(h, f, Len(h)) \in Seq(S)
         /\ Len(SubSeq(h, f, Len(h))) = Len(h) - f + 1
         /\ \A j \in 1 .. Len(h) - f + 1 : SubSeq(h, f, Len(h))[j] = h[f + j - 1]
<1>1. Len(h) \in Nat /\ \A j \in 1 .. Len(h) : h[j] \in S BY LenProperties, ElementOfSeq
<1>2. \A j \in f .. Len(h) : h[j] \in S BY <1>1
<1> QED BY <1>1, <1>2, SubSeqProperties

(* Only messages of the list h, and its last one if it is no tool result. *)
Shortened(g, h) ==
  /\ \A j \in 1 .. Len(g) : \E k \in 1 .. Len(h) : g[j] = h[k]
  /\ h[Len(h)].role # "tool" => \E j \in 1 .. Len(g) : g[j] = h[Len(h)]

(* The history after a cut keeps messages of the history.                  *)
LEMMA LastMessagesAre ==
  ASSUME NEW S, NEW h \in Seq(S), h # << >>
  PROVE  LastMessages(h) \in Seq(S) /\ Shortened(LastMessages(h), h)
         /\ LastMessages(h) # << >>
         /\ LastMessages(h)[Len(LastMessages(h))] = h[Len(h)]
<1>1. Len(h) \in Nat /\ Len(h) > 0 BY EmptySeq
<1>2. CASE Len(h) <= MaxHistory BY <1>1, <1>2, MaxHistoryAssumption DEF LastMessages, Shortened
<1>3. CASE Len(h) > MaxHistory
  <2>0. Len(h) - MaxHistory + 1 \in 1 .. Len(h) BY <1>1, <1>3, MaxHistoryAssumption
  <2>1. PICK f \in 1 .. Len(h) : LastMessages(h) = SubSeq(h, f, Len(h))
    BY <1>3, <2>0 DEF LastMessages
  <2> DEFINE g == SubSeq(h, f, Len(h))
  <2>2. /\ g \in Seq(S) /\ Len(g) = Len(h) - f + 1
        /\ \A j \in 1 .. Len(h) - f + 1 : g[j] = h[f + j - 1]
    BY SuffixOf
  <2> HIDE DEF g
  <2>3. Len(g) \in 1 .. Len(g) /\ g[Len(g)] = h[Len(h)] BY <1>1, <2>2
  <2>4. \A j \in 1 .. Len(g) : f + j - 1 \in 1 .. Len(h) BY <1>1, <2>2
  <2>5. Shortened(g, h) BY <2>2, <2>3, <2>4 DEF Shortened
  <2>6. g # << >> BY <2>3, EmptySeq
  <2> QED BY <2>1, <2>2, <2>3, <2>5, <2>6 DEF g
<1> QED BY <1>1, <1>2, <1>3, MaxHistoryAssumption

LEMMA DropLeadingToolsIs ==
  ASSUME NEW S, NEW h \in Seq(S), h # << >>
  PROVE  DropLeadingTools(h) \in Seq(S) /\ Shortened(DropLeadingTools(h), h)
<1>1. Len(h) \in Nat /\ Len(h) > 0 BY EmptySeq
<1>2. CASE NonTool(h) = {}
  <2>1. << >> \in Seq(S) /\ Len(<< >>) = 0 BY EmptySeq
  <2>2. DropLeadingTools(h) = << >> BY <1>2 DEF DropLeadingTools
  <2>3. h[Len(h)].role = "tool" BY <1>1, <1>2 DEF NonTool
  <2> QED BY <2>1, <2>2, <2>3 DEF Shortened
<1>3. CASE NonTool(h) # {}
  <2> DEFINE f == CHOOSE i \in NonTool(h) : \A j \in NonTool(h) : i <= j
             g == SubSeq(h, f, Len(h))
  <2>1. NonTool(h) \in SUBSET Nat BY <1>1 DEF NonTool
  <2>2. f \in NonTool(h) /\ \A j \in NonTool(h) : f <= j BY <1>3, <2>1, LeastOf
  <2>3. DropLeadingTools(h) = g BY <1>3 DEF DropLeadingTools
  <2>4. f \in 1 .. Len(h) BY <2>2 DEF NonTool
  <2> HIDE DEF f
  <2>5. /\ g \in Seq(S) /\ Len(g) = Len(h) - f + 1
        /\ \A j \in 1 .. Len(h) - f + 1 : g[j] = h[f + j - 1]
    BY <2>4, SuffixOf
  <2> HIDE DEF g
  <2>6. Len(g) \in 1 .. Len(g) /\ g[Len(g)] = h[Len(h)] BY <1>1, <2>4, <2>5
  <2>7. \A j \in 1 .. Len(g) : f + j - 1 \in 1 .. Len(h) BY <1>1, <2>4, <2>5
  <2>8. Shortened(g, h) BY <2>5, <2>6, <2>7 DEF Shortened
  <2> QED BY <2>3, <2>5, <2>8
<1> QED BY <1>2, <1>3

(* add_message loses old messages, never the one it adds.                  *)
LEMMA AddMessageIs ==
  ASSUME NEW S, NEW h \in Seq(S), NEW m \in S
  PROVE  /\ AddMessage(h, m) \in Seq(S)
         /\ \A j \in 1 .. Len(AddMessage(h, m)) :
              AddMessage(h, m)[j] = m \/ \E k \in 1 .. Len(h) : AddMessage(h, m)[j] = h[k]
         /\ m.role # "tool" => \E j \in 1 .. Len(AddMessage(h, m)) : AddMessage(h, m)[j] = m
<1> DEFINE g == Append(h, m)
           a == AddMessage(h, m)
<1>1. Len(h) \in Nat BY LenProperties
<1>2. /\ g \in Seq(S) /\ g # << >> /\ Len(g) = Len(h) + 1
      /\ \A k \in 1 .. Len(h) : g[k] = h[k]
      /\ g[Len(g)] = m
  BY AppendProperties
<1>3. a = IF Len(g) > MaxHistory THEN DropLeadingTools(LastMessages(g)) ELSE g
  BY DEF AddMessage, SafeTruncate
<1> HIDE DEF g, a
<1>4. a \in Seq(S) /\ Shortened(a, g)
  <2>1. CASE Len(g) > MaxHistory
    <3> DEFINE l == LastMessages(g)
    <3>1. /\ l \in Seq(S) /\ Shortened(l, g) /\ l # << >> /\ l[Len(l)] = g[Len(g)]
      BY <1>2, LastMessagesAre
    <3> HIDE DEF l
    <3>2. DropLeadingTools(l) \in Seq(S) /\ Shortened(DropLeadingTools(l), l)
      BY <3>1, DropLeadingToolsIs
    <3>3. Shortened(DropLeadingTools(l), g)
      BY <3>1, <3>2 DEF Shortened
    <3> QED BY <1>3, <2>1, <3>2, <3>3 DEF l
  <2>2. CASE ~(Len(g) > MaxHistory)
    <3>1. Len(g) \in 1 .. Len(g) BY <1>1, <1>2
    <3> QED BY <1>2, <1>3, <2>2, <3>1 DEF Shortened
  <2> QED BY <2>1, <2>2
<1>5. \A k \in 1 .. Len(g) : g[k] = m \/ \E i \in 1 .. Len(h) : g[k] = h[i]
  <2>1. \A k \in 1 .. Len(g) : k \in 1 .. Len(h) \/ k = Len(g) BY <1>1, <1>2
  <2> QED BY <1>2, <2>1
<1> QED BY <1>2, <1>4, <1>5 DEF Shortened, a

-----------------------------------------------------------------------------
(***************************************************************************)
(* The messages on the wire and the events in the queue.                   *)
(***************************************************************************)
EventKinds == {"tts_start", "sentence", "frame", "none"}
Events == [kind : EventKinds, n : Nat, i : Nat]
Sendable == [kind : {"stt", "start", "thinking", "sentence", "frame", "stop", "fail"},
             n : Nat, i : Nat]

LEMMA SameCardinality == \A S : Contract!Cardinality(S) = Cardinality(S)
BY DEF Contract!Cardinality, Cardinality

(* The messages of a kind can be counted.                                  *)
LEMMA NumberIs ==
  ASSUME NEW w \in Seq(Sendable), NEW kind
  PROVE  IsFiniteSet({j \in DOMAIN w : w[j].kind = kind}) /\ Contract!Number(w, kind) \in Nat
<1>1. Len(w) \in Nat /\ DOMAIN w = 1 .. Len(w) BY LenProperties
<1>2. IsFiniteSet(1 .. Len(w)) BY <1>1, FS_Interval
<1>3. {j \in DOMAIN w : w[j].kind = kind} \in SUBSET (1 .. Len(w)) BY <1>1
<1>4. IsFiniteSet({j \in DOMAIN w : w[j].kind = kind}) BY <1>2, <1>3, FS_Subset
<1> QED BY <1>4, FS_CardinalityType, SameCardinality DEF Contract!Number

(* An empty wire.                                                          *)
LEMMA NothingSent ==
  ASSUME NEW w, w = << >>
  PROVE  Contract!Kinds(w) = {} /\ \A kind : Contract!Number(w, kind) = 0
<1>1. DOMAIN w = {} OBVIOUS
<1>2. Contract!Kinds(w) = {} BY <1>1 DEF Contract!Kinds
<1>3. ASSUME NEW kind PROVE Contract!Number(w, kind) = 0
  <2>1. {j \in DOMAIN w : w[j].kind = kind} = {} BY <1>1
  <2> QED BY <2>1, FS_EmptySet, SameCardinality DEF Contract!Number
<1> QED BY <1>2, <1>3

(* One more message on the wire: its kind, and one more of its number.     *)
LEMMA OneMoreSent ==
  ASSUME NEW w \in Seq(Sendable), NEW m \in Sendable
  PROVE  LET v == Append(w, m)
         IN  /\ v \in Seq(Sendable) /\ v # << >> /\ v[Len(v)] = m
             /\ Contract!Kinds(v) = Contract!Kinds(w) \cup {m.kind}
             /\ \A kind : Contract!Number(v, kind)
                            = Contract!Number(w, kind) + (IF kind = m.kind THEN 1 ELSE 0)
             /\ \A kind : {v[j].n : j \in {k \in DOMAIN v : v[k].kind = kind}}
                  = {w[j].n : j \in {k \in DOMAIN w : w[k].kind = kind}}
                      \cup (IF kind = m.kind THEN {m.n} ELSE {})
<1> DEFINE v == Append(w, m)
           l == Len(w) + 1
<1>1. Len(w) \in Nat /\ DOMAIN w = 1 .. Len(w) BY LenProperties
<1>2. /\ v \in Seq(Sendable) /\ v # << >> /\ Len(v) = l
      /\ \A j \in 1 .. Len(w) : v[j] = w[j]
      /\ v[l] = m
  BY AppendProperties
<1>3. DOMAIN v = DOMAIN w \cup {l} /\ l \notin DOMAIN w
  <2>1. DOMAIN v = 1 .. l BY <1>2, LenProperties
  <2> QED BY <1>1, <2>1
<1> HIDE DEF v, l
<1>4. \A j \in DOMAIN w : v[j] = w[j] BY <1>1, <1>2
<1>5. Contract!Kinds(v) = Contract!Kinds(w) \cup {m.kind}
  BY <1>2, <1>3, <1>4 DEF Contract!Kinds
<1>6. ASSUME NEW kind
      PROVE  Contract!Number(v, kind)
               = Contract!Number(w, kind) + (IF kind = m.kind THEN 1 ELSE 0)
  <2> DEFINE old == {j \in DOMAIN w : w[j].kind = kind}
             new == {j \in DOMAIN v : v[j].kind = kind}
  <2>1. IsFiniteSet(old) BY NumberIs
  <2>2. l \notin old BY <1>3
  <2>3. CASE kind = m.kind
    <3>1. new = old \cup {l} BY <1>2, <1>3, <1>4, <2>3
    <3> QED BY <2>1, <2>2, <2>3, <3>1, FS_AddElement, SameCardinality DEF Contract!Number
  <2>4. CASE kind # m.kind
    <3>1. new = old BY <1>2, <1>3, <1>4, <2>4
    <3>2. Contract!Number(w, kind) \in Nat BY NumberIs
    <3>3. Contract!Number(v, kind) = Contract!Number(w, kind) BY <3>1 DEF Contract!Number
    <3> QED BY <2>4, <3>2, <3>3
  <2> QED BY <2>3, <2>4
<1>7. ASSUME NEW kind
      PROVE  {v[j].n : j \in {k \in DOMAIN v : v[k].kind = kind}}
                  = {w[j].n : j \in {k \in DOMAIN w : w[k].kind = kind}}
                      \cup (IF kind = m.kind THEN {m.n} ELSE {})
  BY <1>2, <1>3, <1>4
<1> QED BY <1>2, <1>5, <1>6, <1>7 DEF v, l

(***************************************************************************)
(* The numbering of the events in q: after its event j, sc[j] sentences of *)
(* the turn have been announced and fc[j] frames sent.                     *)
(***************************************************************************)
Follows(e, s0, f0, s1, f1) ==
  /\ e.kind = "sentence" => s1 = s0 + 1 /\ f1 = f0 /\ e.n = s1
  /\ e.kind = "frame" => s1 = s0 /\ f1 = f0 + 1 /\ e.n = s0 /\ e.n > 0 /\ e.i = f0
  /\ e.kind \in {"tts_start", "none"} => s1 = s0 /\ f1 = f0

Numbering(q, s, f, cut, next, sc, fc) ==
  /\ sc[0] = s /\ fc[0] = f /\ sc[Len(q)] = cut /\ fc[Len(q)] = next
  /\ \A j \in 0 .. Len(q) : sc[j] <= cut
  /\ \A j \in 1 .. Len(q) : Follows(q[j], sc[j - 1], fc[j - 1], sc[j], fc[j])

InOrder(q, s, f, cut, next) ==
  \E sc, fc \in [0 .. Len(q) -> Nat] : Numbering(q, s, f, cut, next, sc, fc)

(* A queue with nothing in it.                                             *)
LEMMA EmptyInOrder ==
  ASSUME NEW s \in Nat, NEW f \in Nat, NEW cut, NEW next
  PROVE  InOrder(<< >>, s, f, cut, next) <=> cut = s /\ next = f
<1>1. Len(<< >>) = 0 OBVIOUS
<1>2. ASSUME InOrder(<< >>, s, f, cut, next) PROVE cut = s /\ next = f
  BY <1>1, <1>2 DEF InOrder, Numbering
<1>3. InOrder(<< >>, s, f, s, f)
  <2> DEFINE sc == [j \in 0 .. 0 |-> s]
             fc == [j \in 0 .. 0 |-> f]
  <2>1. sc \in [0 .. 0 -> Nat] /\ fc \in [0 .. 0 -> Nat] OBVIOUS
  <2>2. Numbering(<< >>, s, f, s, f, sc, fc) BY <1>1 DEF Numbering
  <2> QED BY <1>1, <2>1, <2>2 DEF InOrder
<1> QED BY <1>2, <1>3

(* Numbered entries, one more at the end.                                  *)
LEMMA AppendInOrder ==
  ASSUME NEW q \in Seq(Events), NEW e \in Events, NEW s, NEW f,
         NEW cut, NEW next, NEW cut2 \in Nat, NEW next2 \in Nat,
         InOrder(q, s, f, cut, next), Follows(e, cut, next, cut2, next2)
  PROVE  InOrder(Append(q, e), s, f, cut2, next2)
<1> DEFINE n == Len(q)
           p == Append(q, e)
<1>1. PICK sc \in [0 .. n -> Nat], fc \in [0 .. n -> Nat] :
        Numbering(q, s, f, cut, next, sc, fc)
  BY DEF InOrder
<1> DEFINE sd == [j \in 0 .. n + 1 |-> IF j = n + 1 THEN cut2 ELSE sc[j]]
           fd == [j \in 0 .. n + 1 |-> IF j = n + 1 THEN next2 ELSE fc[j]]
<1>2. n \in Nat /\ Len(p) = n + 1 /\ p[n + 1] = e /\ \A j \in 1 .. n : p[j] = q[j]
  BY AppendProperties, LenProperties
<1>3. /\ sd \in [0 .. n + 1 -> Nat] /\ sd[n + 1] = cut2 /\ \A j \in 0 .. n : sd[j] = sc[j]
      /\ fd \in [0 .. n + 1 -> Nat] /\ fd[n + 1] = next2 /\ \A j \in 0 .. n : fd[j] = fc[j]
  BY <1>2
<1>4. /\ sc[0] = s /\ fc[0] = f /\ sc[n] = cut /\ fc[n] = next
      /\ \A j \in 0 .. n : sc[j] <= cut
      /\ \A j \in 1 .. n : Follows(q[j], sc[j - 1], fc[j - 1], sc[j], fc[j])
  BY <1>1 DEF Numbering
<1> HIDE DEF n, p, sd, fd
<1>8. \A j \in 0 .. n + 1 : sd[j] <= cut2
  <2>1. cut \in Nat /\ cut <= cut2
    <3>1. cut \in Nat BY <1>2, <1>4
    <3>2. cut2 = cut \/ cut2 = cut + 1 BY DEF Follows, Events, EventKinds
    <3> QED BY <3>1, <3>2
  <2>2. ASSUME NEW j \in 0 .. n PROVE sd[j] <= cut2
    <3>1. sc[j] \in Nat /\ sc[j] <= cut /\ sd[j] = sc[j] BY <1>3, <1>4
    <3> QED BY <2>1, <3>1
  <2> QED BY <1>2, <1>3, <2>2
<1>5. sd[0] = s /\ fd[0] = f BY <1>2, <1>3, <1>4
<1>6. ASSUME NEW j \in 1 .. n + 1 PROVE Follows(p[j], sd[j - 1], fd[j - 1], sd[j], fd[j])
  <2>1. CASE j \in 1 .. n
    <3>1. j \in 0 .. n /\ j - 1 \in 0 .. n BY <1>2, <2>1
    <3> QED BY <1>2, <1>3, <1>4, <2>1, <3>1
  <2>2. CASE j = n + 1
    <3>1. j - 1 = n /\ n \in 0 .. n BY <1>2, <2>2
    <3> QED BY <1>2, <1>3, <1>4, <2>2, <3>1
  <2> QED BY <1>2, <2>1, <2>2
<1>7. Numbering(p, s, f, cut2, next2, sd, fd) BY <1>2, <1>3, <1>5, <1>6, <1>8 DEF Numbering
<1> QED BY <1>2, <1>3, <1>7 DEF InOrder, p

(* Numbered entries, the first one taken.                                  *)
LEMMA TailInOrder ==
  ASSUME NEW q \in Seq(Events), q # << >>, NEW s, NEW f, NEW cut, NEW next,
         InOrder(q, s, f, cut, next)
  PROVE  \E s1, f1 \in Nat : /\ Follows(Head(q), s, f, s1, f1) /\ s1 <= cut
                             /\ InOrder(Tail(q), s1, f1, cut, next)
<1> DEFINE n == Len(q)
           t == Tail(q)
<1>1. PICK sc \in [0 .. n -> Nat], fc \in [0 .. n -> Nat] :
        Numbering(q, s, f, cut, next, sc, fc)
  BY DEF InOrder
<1> DEFINE sd == [j \in 0 .. n - 1 |-> sc[j + 1]]
           fd == [j \in 0 .. n - 1 |-> fc[j + 1]]
<1>2. n \in Nat /\ n >= 1 /\ Len(t) = n - 1 /\ \A j \in 1 .. n - 1 : t[j] = q[j + 1]
  BY HeadTailProperties, EmptySeq
<1>3. Head(q) = q[1] OBVIOUS
<1>4. /\ sd \in [0 .. n - 1 -> Nat] /\ \A j \in 0 .. n - 1 : sd[j] = sc[j + 1]
      /\ fd \in [0 .. n - 1 -> Nat] /\ \A j \in 0 .. n - 1 : fd[j] = fc[j + 1]
  BY <1>2
<1>5. /\ sc[0] = s /\ fc[0] = f /\ sc[n] = cut /\ fc[n] = next
      /\ \A j \in 0 .. n : sc[j] <= cut
      /\ \A j \in 1 .. n : Follows(q[j], sc[j - 1], fc[j - 1], sc[j], fc[j])
  BY <1>1 DEF Numbering
<1> HIDE DEF n, t, sd, fd
<1>6. Follows(Head(q), s, f, sd[0], fd[0]) /\ sd[0] \in Nat /\ fd[0] \in Nat
  <2>1. 1 \in 1 .. n /\ 1 - 1 = 0 /\ 0 \in 0 .. n - 1 /\ 0 + 1 = 1 BY <1>2
  <2> QED BY <1>3, <1>4, <1>5, <2>1
<1>7. sd[n - 1] = cut /\ fd[n - 1] = next
  <2>1. n - 1 \in 0 .. n - 1 /\ (n - 1) + 1 = n BY <1>2
  <2> QED BY <1>4, <1>5, <2>1
<1>8. ASSUME NEW j \in 1 .. n - 1 PROVE Follows(t[j], sd[j - 1], fd[j - 1], sd[j], fd[j])
  <2>1. j \in 0 .. n - 1 /\ j - 1 \in 0 .. n - 1 /\ (j - 1) + 1 = j BY <1>2
  <2>2. j + 1 \in 1 .. n /\ (j + 1) - 1 = j BY <1>2
  <2>3. Follows(q[j + 1], sc[j], fc[j], sc[j + 1], fc[j + 1]) BY <1>5, <2>2
  <2>4. sd[j - 1] = sc[j] /\ fd[j - 1] = fc[j] /\ sd[j] = sc[j + 1] /\ fd[j] = fc[j + 1]
    BY <1>4, <2>1
  <2> QED BY <1>2, <2>3, <2>4
<1>11. \A j \in 0 .. n - 1 : sd[j] <= cut
  <2>1. \A j \in 0 .. n - 1 : j + 1 \in 0 .. n BY <1>2
  <2> QED BY <1>4, <1>5, <2>1
<1>9. Numbering(t, sd[0], fd[0], cut, next, sd, fd) BY <1>2, <1>7, <1>8, <1>11 DEF Numbering
<1>10. InOrder(t, sd[0], fd[0], cut, next) BY <1>2, <1>4, <1>9 DEF InOrder
<1>12. sd[0] <= cut
  <2>1. 0 \in 0 .. n - 1 BY <1>2
  <2> QED BY <1>11, <2>1
<1> QED BY <1>6, <1>10, <1>12 DEF t

-----------------------------------------------------------------------------
(***************************************************************************)
(* The inductive invariant: where the coroutines stand with each other.    *)
(***************************************************************************)
Turns == [role : {"user", "calls", "tool", "assistant"}]

Typed ==
  /\ main \in {"transcribe", "sendStt", "sendStart", "hop", "consume", "gather", "thinking",
               "tools", "capSay", "capConsume", "remember", "stop", "finish", "error",
               "recover", "ended"}
  /\ iteration \in 0 .. MaxIterations
  /\ llm \in [st : {"idle", "streaming", "done", "failed", "cancelled"}, text : BOOLEAN,
              tools : BOOLEAN, residual : BOOLEAN, queued : 0 .. MaxSentences]
  /\ tts \in [st : {"idle", "waiting", "speaking", "done", "failed", "cancelled"},
              s : 0 .. MaxSentences, attempt : 0 .. 2, frames : 0 .. MaxFrames]
  /\ sentenceQ \in Seq(0 .. MaxSentences) /\ eventsQ \in Seq(Events) /\ frameIndex \in Nat
  /\ history \in Seq(Turns) /\ saved \in Seq(Turns) /\ wire \in Seq(Sendable)
  /\ connected \in BOOLEAN /\ abandoned \in BOOLEAN

Announced == Contract!Number(wire, "sentence")
Framed == Contract!Number(wire, "frame")

(* A hop has said something if it has cut a sentence or begun one.         *)
LlmFits ==
  /\ llm.queued + (IF llm.residual THEN 1 ELSE 0) <= MaxSentences
  /\ llm.text <=> llm.queued > 0 \/ llm.residual
  /\ llm.st = "done" => ~llm.residual

(* What the main coroutine knows of the tasks where it stands.             *)
Silent == main \in {"transcribe", "sendStt", "sendStart", "hop", "thinking", "tools"}
Hopping == main \in {"consume", "gather"}
Capped == main \in {"capSay", "capConsume"}
Replying == main \in {"remember", "stop", "finish"}

PlaceFits ==
  /\ Hopping \/ main \in {"thinking", "tools"} => ~AtCap
  /\ main \in {"transcribe", "sendStt", "sendStart"} => llm.st = "idle" /\ iteration = 0
  /\ Silent => ~llm.text /\ tts.st \in {"idle", "done"}
  /\ main = "hop" => llm.st \in {"idle", "done"} /\ (iteration > 0 => llm.st = "done")
  /\ main \in {"thinking", "tools"} => llm.st = "done"
  /\ Capped => /\ AtCap /\ llm.st = "done" /\ llm.queued = 1 /\ tts.s = 1
               /\ tts.st \in {"speaking", "done", "failed"}
  /\ Hopping => /\ llm.st \in {"streaming", "done", "failed"}
                /\ tts.st \in {"waiting", "speaking", "done", "failed"}
  /\ main = "gather" => tts.st \in {"done", "failed"} /\ eventsQ = << >>
  /\ Replying => llm.st = "done" /\ tts.st = "done" /\ llm.text
  /\ abandoned => main \in {"recover", "ended"}

(* sentence_q holds what has been cut and not been taken, in order, and    *)
(* the sentinel once the stream is over.                                   *)
SentencesFit ==
  Hopping =>
    /\ \A k \in 1 .. Len(sentenceQ) :
         IF k = Len(sentenceQ) /\ llm.st # "streaming" THEN sentenceQ[k] = 0
         ELSE sentenceQ[k] = tts.s + k
    /\ llm.st = "streaming" => Len(sentenceQ) = llm.queued - tts.s /\ tts.st # "done"
    /\ llm.st # "streaming" /\ tts.st # "done" => Len(sentenceQ) = llm.queued - tts.s + 1
    /\ tts.st = "done" => sentenceQ = << >> /\ tts.s = llm.queued
    /\ tts.st \in {"speaking", "failed"} => tts.s > 0
    /\ tts.s = 0 => frameIndex = 0

(* events_q holds what has been taken and not been sent, in order, and the *)
(* sentinel once the TTS task is over.                                     *)
NoneIsLast ==
  /\ main = "consume" \/ Capped =>
       \A j \in 1 .. Len(eventsQ) : eventsQ[j].kind = "none" =>
         j = Len(eventsQ) /\ tts.st \in (IF AtCap THEN {"done"} ELSE {"done", "failed"})
  /\ Capped => \A j \in 1 .. Len(eventsQ) : eventsQ[j].kind # "tts_start"

EventsFit ==
  /\ (Hopping \/ main = "capConsume") /\ connected =>
       InOrder(eventsQ, Announced, Framed, tts.s, frameIndex)
  /\ main = "capSay" => InOrder(eventsQ, 1, 0, 1, frameIndex)
  /\ main = "capConsume" /\ connected => Announced = 1

(* A reply is remembered once, and only after all of it has been sent.     *)
RepliesFit ==
  /\ Replying /\ connected => Announced = llm.queued
  /\ Replied(history) =>
       /\ main \in {"stop", "finish", "error", "recover", "ended"}
       /\ llm.st = "done" /\ tts.st = "done"
       /\ connected => Announced = llm.queued
  /\ main \in {"stop", "finish"} => Replied(history) /\ Replied(saved)

(* What the device has been sent where the main coroutine stands.          *)
WireFits ==
  /\ Sent("sentence") = 1 .. Announced
  /\ main \in {"transcribe", "sendStt"} => wire = << >>
  /\ connected =>
       /\ main = "sendStart" => wire # << >> /\ wire[Len(wire)].kind = "stt"
       /\ main \in {"sendStart", "hop", "thinking", "tools", "capSay"} =>
            Announced = 0 /\ Framed = 0
       /\ main = "hop" \/ Hopping \/ Capped \/
            main \in {"thinking", "tools", "remember", "stop", "finish"} =>
            "start" \in Contract!Kinds(wire)
       /\ main = "error" => wire = << >> \/ "start" \in Contract!Kinds(wire)
  /\ Contract!Kinds(wire) \cap {"stop", "fail"} # {} =>
       main \in {"finish", "error", "recover", "ended"}
  /\ "fail" \in Contract!Kinds(wire) => main \in {"recover", "ended"}
  /\ "stop" \in Contract!Kinds(wire) => Replied(history) /\ Replied(saved)

Inv ==
  /\ Typed /\ LlmFits /\ PlaceFits /\ SentencesFit /\ NoneIsLast /\ EventsFit
  /\ RepliesFit /\ WireFits

LEMMA TypedIsTypeOK == Typed => TypeOK
<1> SUFFICES ASSUME Typed PROVE TypeOK OBVIOUS
<1>1. \A j \in DOMAIN eventsQ : eventsQ[j].kind \in {"tts_start", "sentence", "frame", "none"}
  <2>1. \A j \in DOMAIN eventsQ : eventsQ[j] \in Events
    BY LenProperties, ElementOfSeq DEF Typed
  <2> QED BY <2>1 DEF Events, EventKinds
<1>2. \A h \in {history, saved} : \A j \in DOMAIN h :
        h[j].role \in {"user", "calls", "tool", "assistant"}
  <2>1. ASSUME NEW h \in {history, saved}, NEW j \in DOMAIN h PROVE h[j] \in Turns
    <3>1. h \in Seq(Turns) BY DEF Typed
    <3> QED BY <3>1, LenProperties, ElementOfSeq
  <2> QED BY <2>1 DEF Turns
<1> QED BY <1>1, <1>2 DEF Typed, TypeOK

LEMMA InitInv == Init => Inv
<1> SUFFICES ASSUME Init PROVE Inv OBVIOUS
<1>1. Len(<< >>) = 0 /\ DOMAIN << >> = {} OBVIOUS
<1>2. Typed
  <2>1. << >> \in Seq(0 .. MaxSentences) /\ << >> \in Seq(Events) /\ << >> \in Seq(Turns)
        /\ << >> \in Seq(Sendable)
    BY EmptySeq
  <2>2. /\ sentenceQ \in Seq(0 .. MaxSentences) /\ eventsQ \in Seq(Events)
        /\ history \in Seq(Turns) /\ saved \in Seq(Turns) /\ wire \in Seq(Sendable)
    BY <2>1 DEF Init
  <2>3. /\ iteration \in 0 .. MaxIterations
        /\ llm \in [st : {"idle", "streaming", "done", "failed", "cancelled"}, text : BOOLEAN,
                    tools : BOOLEAN, residual : BOOLEAN, queued : 0 .. MaxSentences]
        /\ tts \in [st : {"idle", "waiting", "speaking", "done", "failed", "cancelled"},
                    s : 0 .. MaxSentences, attempt : 0 .. 2, frames : 0 .. MaxFrames]
    BY PipelineAssumption DEF Init
  <2> QED BY <2>2, <2>3 DEF Init, Typed
<1>3. LlmFits BY PipelineAssumption DEF Init, LlmFits
<1>4. PlaceFits BY DEF Init, PlaceFits, Hopping, Silent, Capped, Replying
<1>5. SentencesFit /\ NoneIsLast /\ EventsFit
  BY <1>1 DEF Init, SentencesFit, NoneIsLast, EventsFit, Hopping, Capped
<1>6. ~Replied(history) /\ RepliesFit BY <1>1 DEF Init, RepliesFit, Replied, Replying
<1>7. Contract!Kinds(wire) = {} /\ Announced = 0 /\ Sent("sentence") = {}
  BY <1>1, NothingSent DEF Init, Announced, Sent
<1>8. WireFits BY <1>7 DEF Init, WireFits, Hopping, Capped, Replying
<1> QED BY <1>2, <1>3, <1>4, <1>5, <1>6, <1>8 DEF Inv

-----------------------------------------------------------------------------
(***************************************************************************)
(* The steps of the two tasks.  They leave the main coroutine, what the    *)
(* device has been sent and the history alone.                             *)
(***************************************************************************)
MainRests == UNCHANGED <<main, iteration, history, saved, wire, connected, abandoned>>

LEMMA TasksKeepTheWire == ASSUME Inv, MainRests PROVE WireFits'
<1>1. Announced' = Announced /\ Framed' = Framed /\ Sent("sentence")' = Sent("sentence")
  BY DEF MainRests, Announced, Framed, Sent
<1>2. Replied(history)' = Replied(history) /\ Replied(saved)' = Replied(saved)
  BY DEF MainRests, Replied
<1> QED BY <1>1, <1>2 DEF MainRests, Inv, WireFits, Hopping, Capped, Replying

(* Once the reply is remembered neither task has anything left to do.      *)
LEMMA TasksKeepTheReply ==
  ASSUME Inv, MainRests,
         llm' = llm \/ llm.st # "done", tts' = tts \/ tts.st # "done"
  PROVE  RepliesFit'
<1>1. Announced' = Announced BY DEF MainRests, Announced
<1>2. Replied(history)' = Replied(history) /\ Replied(saved)' = Replied(saved)
  BY DEF MainRests, Replied
<1>3. Replying => llm' = llm /\ tts' = tts BY DEF Inv, PlaceFits
<1>4. Replied(history) => llm' = llm /\ tts' = tts BY DEF Inv, RepliesFit
<1> QED BY <1>1, <1>2, <1>3, <1>4 DEF MainRests, Inv, RepliesFit, Replying

(* Three sequences in a row.                                               *)
LEMMA Joined ==
  ASSUME NEW S, NEW q \in Seq(S), NEW r \in Seq(S), NEW t \in Seq(S)
  PROVE  /\ (q \o r) \o t \in Seq(S)
         /\ Len((q \o r) \o t) = Len(q) + Len(r) + Len(t)
         /\ \A k \in 1 .. Len(q) : ((q \o r) \o t)[k] = q[k]
         /\ \A k \in 1 .. Len(r) : ((q \o r) \o t)[Len(q) + k] = r[k]
         /\ \A k \in 1 .. Len(t) : ((q \o r) \o t)[Len(q) + Len(r) + k] = t[k]
<1> DEFINE o == q \o r
           p == o \o t
<1>1. Len(q) \in Nat /\ Len(r) \in Nat /\ Len(t) \in Nat BY LenProperties
<1>2. /\ o \in Seq(S) /\ Len(o) = Len(q) + Len(r)
      /\ \A k \in 1 .. Len(q) + Len(r) : o[k] = IF k <= Len(q) THEN q[k] ELSE r[k - Len(q)]
  BY ONLY q \in Seq(S), r \in Seq(S), ConcatProperties
<1>a. o \in Seq(S) BY <1>2
<1> HIDE DEF o
<1>3. /\ p \in Seq(S) /\ Len(p) = Len(o) + Len(t)
      /\ \A k \in 1 .. Len(o) + Len(t) : p[k] = IF k <= Len(o) THEN o[k] ELSE t[k - Len(o)]
  BY ONLY <1>a, t \in Seq(S), ConcatProperties
<1> HIDE DEF p
<1>4. ASSUME NEW k \in 1 .. Len(q) PROVE p[k] = q[k]
  <2>1. /\ k \in 1 .. Len(q) + Len(r) /\ k \in 1 .. Len(o) + Len(t)
        /\ k <= Len(o) /\ k <= Len(q)
    BY <1>1, <1>2
  <2> QED BY <1>2, <1>3, <2>1
<1>5. ASSUME NEW k \in 1 .. Len(r) PROVE p[Len(q) + k] = r[k]
  <2>1. PICK j \in Nat : j = Len(q) + k BY <1>1
  <2>2. /\ j \in 1 .. Len(q) + Len(r) /\ j \in 1 .. Len(o) + Len(t)
        /\ j <= Len(o) /\ ~(j <= Len(q)) /\ j - Len(q) = k
    BY <1>1, <1>2, <2>1
  <2> QED BY <1>2, <1>3, <2>1, <2>2
<1>6. ASSUME NEW k \in 1 .. Len(t) PROVE p[Len(q) + Len(r) + k] = t[k]
  <2>1. PICK j \in Nat : j = Len(q) + Len(r) + k BY <1>1
  <2>2. j \in 1 .. Len(o) + Len(t) /\ ~(j <= Len(o)) /\ j - Len(o) = k BY <1>1, <1>2, <2>1
  <2> QED BY <1>3, <2>1, <2>2
<1> QED BY <1>2, <1>3, <1>4, <1>5, <1>6 DEF p, o

(* Enough about what the LLM task does: it cuts n more sentences and then, *)
(* if it is over, puts the sentinel.                                       *)
Tasks == [st : {"idle", "streaming", "done", "failed", "cancelled"}, text : BOOLEAN,
          tools : BOOLEAN, residual : BOOLEAN, queued : 0 .. MaxSentences]

LlmDoes(n, over, next) ==
  /\ Enqueue(n, IF over THEN <<0>> ELSE << >>)
  /\ llm.st = "streaming" /\ n \in Nat /\ llm.queued + n <= MaxSentences
  /\ llm' = next /\ next \in Tasks
  /\ next.queued = llm.queued + n
  /\ IF over THEN next.st \in {"done", "failed", "cancelled"} ELSE next.st = "streaming"
  /\ next.st = "cancelled" => abandoned
  /\ MainRests /\ UNCHANGED <<tts, frameIndex>>

(* What the task of the model does, if its own part of the invariant is kept. *)
LEMMA LlmDoing ==
  ASSUME Inv, NEW n \in Nat, NEW over \in BOOLEAN, NEW next, LlmDoes(n, over, next), LlmFits'
  PROVE  Inv'
<1> DEFINE sentinel == IF over THEN <<0>> ELSE << >>
<1>1. /\ llm.queued \in Nat /\ n \in Nat /\ tts.s \in Nat /\ frameIndex \in Nat
      /\ sentenceQ \in Seq(0 .. MaxSentences) /\ Len(sentenceQ) \in Nat
      /\ eventsQ \in Seq(Events) /\ Len(eventsQ) \in Nat
  BY LenProperties, PipelineAssumption DEF Inv, Typed, LlmDoes
<1>2. /\ sentenceQ' \in Seq(0 .. MaxSentences)
      /\ Len(sentenceQ') = Len(sentenceQ) + n + (IF over THEN 1 ELSE 0)
      /\ \A k \in 1 .. Len(sentenceQ) : sentenceQ'[k] = sentenceQ[k]
      /\ \A k \in Len(sentenceQ) + 1 .. Len(sentenceQ) + n :
           sentenceQ'[k] = llm.queued + (k - Len(sentenceQ))
      /\ over => sentenceQ'[Len(sentenceQ) + n + 1] = 0
  <2> DEFINE S == 0 .. MaxSentences
             more == [i \in 1 .. n |-> llm.queued + i]
  <2>1. sentenceQ' = sentenceQ \o more \o sentinel BY DEF LlmDoes, Enqueue
  <2>2. sentinel \in Seq(S) /\ Len(sentinel) = (IF over THEN 1 ELSE 0)
        /\ (over => sentinel[1] = 0)
    <3>1. << >> \in Seq(S) /\ Len(<< >>) = 0 BY EmptySeq
    <3>2. <<0>> \in Seq(S) /\ Len(<<0>>) = 1 /\ <<0>>[1] = 0 BY PipelineAssumption
    <3>3. CASE over BY <3>2, <3>3
    <3>4. CASE ~over BY <3>1, <3>4
    <3> QED BY <3>3, <3>4
  <2>3. more \in Seq(S) /\ Len(more) = n /\ \A i \in 1 .. n : more[i] = llm.queued + i
    <3>1. llm.queued + n <= MaxSentences BY DEF LlmDoes
    <3>2. \A i \in 1 .. n : llm.queued + i \in S BY <1>1, <3>1, PipelineAssumption
    <3>3. more \in [1 .. n -> S] BY <3>2
    <3>4. more \in Seq(S) BY ONLY <1>1, <3>3, SeqDef
    <3>5. Len(more) = n BY <1>1
    <3> QED BY <3>4, <3>5
  <2>4. sentenceQ \in Seq(S) /\ n \in Nat /\ llm.queued \in Nat BY <1>1
  <2> HIDE DEF S, more, sentinel
  <2> DEFINE p == sentenceQ'
  <2>5. p = (sentenceQ \o more) \o sentinel BY <2>1
  <2>6. sentenceQ \in Seq(S) /\ more \in Seq(S) /\ sentinel \in Seq(S) BY <2>2, <2>3, <2>4
  <2> HIDE DEF p
  <2>7. /\ p \in Seq(S) /\ Len(p) = Len(sentenceQ) + Len(more) + Len(sentinel)
        /\ \A k \in 1 .. Len(sentenceQ) : p[k] = sentenceQ[k]
        /\ \A k \in 1 .. Len(more) : p[Len(sentenceQ) + k] = more[k]
        /\ \A k \in 1 .. Len(sentinel) : p[Len(sentenceQ) + Len(more) + k] = sentinel[k]
    BY <2>5, <2>6, Joined
  <2>8. ASSUME NEW k \in Len(sentenceQ) + 1 .. Len(sentenceQ) + n
        PROVE  p[k] = llm.queued + (k - Len(sentenceQ))
    <3>1. PICK j \in 1 .. n : k = Len(sentenceQ) + j
      <4>1. k - Len(sentenceQ) \in 1 .. n /\ k = Len(sentenceQ) + (k - Len(sentenceQ)) BY <1>1
      <4> QED BY <4>1
    <3>2. p[k] = llm.queued + j BY <2>3, <2>7, <3>1
    <3> QED BY <1>1, <3>1, <3>2
  <2>9. over => p[Len(sentenceQ) + n + 1] = 0 BY <2>2, <2>3, <2>7
  <2> QED BY <1>1, <2>2, <2>3, <2>7, <2>8, <2>9 DEF S, p
<1>3. Signal("tts_start") \in Events /\ Signal("tts_start").kind = "tts_start"
  BY DEF Signal, Message, Events, EventKinds
<1>4. /\ eventsQ' \in Seq(Events)
      /\ \/ eventsQ' = eventsQ
         \/ n > 0 /\ llm.queued = 0 /\ eventsQ' = Append(eventsQ, Signal("tts_start"))
  <2>1. eventsQ' = IF n > 0 /\ llm.queued = 0
                   THEN Append(eventsQ, Signal("tts_start")) ELSE eventsQ
    BY DEF LlmDoes, Enqueue
  <2> QED BY <1>1, <1>3, <2>1, AppendProperties
<1>5. Typed' BY <1>2, <1>4 DEF Inv, Typed, LlmDoes, MainRests, Tasks
<1>6. /\ main' = main /\ iteration' = iteration /\ tts' = tts /\ frameIndex' = frameIndex
      /\ connected' = connected /\ wire' = wire /\ abandoned' = abandoned
      /\ llm'.queued = llm.queued + n /\ llm.st = "streaming"
      /\ llm'.st \in {"streaming", "done", "failed", "cancelled"}
      /\ llm'.st = "streaming" <=> ~over
      /\ llm'.st = "cancelled" => abandoned
  BY DEF LlmDoes, MainRests
<1>7. main \notin {"transcribe", "sendStt", "sendStart", "hop", "thinking", "tools"}
      /\ ~Capped /\ ~Replying
  BY <1>6 DEF Inv, PlaceFits
(* There is nothing after the sentinel of the TTS task.                     *)
<1>8. (n > 0 /\ llm.queued = 0) /\ Hopping => tts.st \in {"waiting", "speaking"}
  <2> SUFFICES ASSUME n > 0, llm.queued = 0, Hopping, tts.st \in {"done", "failed"} PROVE FALSE
    BY DEF Inv, PlaceFits
  <2> QED BY <1>1, <1>6 DEF Inv, SentencesFit
<1>9. PlaceFits'
  <2>1. main = "gather" => eventsQ' = << >> BY <1>4, <1>8 DEF Inv, PlaceFits, Hopping
  <2>2. abandoned => ~Hopping BY DEF Inv, PlaceFits, Hopping
  <2> QED
    BY <1>6, <1>7, <2>1, <2>2 DEF Inv, PlaceFits, Silent, Hopping, Capped, Replying, AtCap
<1>10. SentencesFit'
  <2> SUFFICES ASSUME Hopping
               PROVE  /\ \A k \in 1 .. Len(sentenceQ') :
                           IF k = Len(sentenceQ') /\ llm'.st # "streaming" THEN sentenceQ'[k] = 0
                           ELSE sentenceQ'[k] = tts.s + k
                      /\ ~over => Len(sentenceQ') = llm'.queued - tts.s /\ tts.st # "done"
                      /\ over /\ tts.st # "done" => Len(sentenceQ') = llm'.queued - tts.s + 1
                      /\ tts.st = "done" => sentenceQ' = << >> /\ tts.s = llm'.queued
                      /\ tts.st \in {"speaking", "failed"} => tts.s > 0
                      /\ tts.s = 0 => frameIndex = 0
    BY <1>6 DEF SentencesFit, Hopping
  <2>1. /\ \A k \in 1 .. Len(sentenceQ) : sentenceQ[k] = tts.s + k
        /\ Len(sentenceQ) = llm.queued - tts.s /\ tts.st # "done"
        /\ tts.st \in {"speaking", "failed"} => tts.s > 0
        /\ tts.s = 0 => frameIndex = 0
    BY <1>6 DEF Inv, SentencesFit
  <2>2. ASSUME NEW k \in 1 .. Len(sentenceQ')
        PROVE  IF k = Len(sentenceQ') /\ llm'.st # "streaming" THEN sentenceQ'[k] = 0
               ELSE sentenceQ'[k] = tts.s + k
    <3>1. k \in 1 .. Len(sentenceQ) \/ k \in Len(sentenceQ) + 1 .. Len(sentenceQ) + n
          \/ (over /\ k = Len(sentenceQ) + n + 1)
      BY <1>1, <1>2
    <3>2. CASE k \in 1 .. Len(sentenceQ)
      <4>1. sentenceQ'[k] = tts.s + k BY <1>2, <2>1, <3>2
      <4>2. over => k # Len(sentenceQ') BY <1>1, <1>2, <3>2
      <4> QED BY <1>6, <4>1, <4>2
    <3>3. CASE k \in Len(sentenceQ) + 1 .. Len(sentenceQ) + n
      <4>1. sentenceQ'[k] = llm.queued + (k - Len(sentenceQ)) BY <1>2, <3>3
      <4>2. sentenceQ'[k] = tts.s + k BY <1>1, <2>1, <3>3, <4>1
      <4>3. over => k # Len(sentenceQ') BY <1>1, <1>2, <3>3
      <4> QED BY <1>6, <4>2, <4>3
    <3>4. CASE over /\ k = Len(sentenceQ) + n + 1
      BY <1>1, <1>2, <1>6, <3>4
    <3> QED BY <3>1, <3>2, <3>3, <3>4
  <2> QED BY <1>1, <1>2, <1>6, <2>1, <2>2
<1>11. NoneIsLast'
  <2> SUFFICES ASSUME main = "consume", NEW j \in 1 .. Len(eventsQ'), eventsQ'[j].kind = "none"
               PROVE  j = Len(eventsQ') /\ tts.st \in (IF AtCap THEN {"done"} ELSE {"done", "failed"})
    BY <1>6, <1>7 DEF NoneIsLast, Capped, AtCap
  <2>1. CASE eventsQ' = eventsQ BY <2>1 DEF Inv, NoneIsLast
  <2>2. CASE n > 0 /\ llm.queued = 0 /\ eventsQ' = Append(eventsQ, Signal("tts_start"))
    <3>1. tts.st \in {"waiting", "speaking"} BY <1>8, <2>2 DEF Hopping
    <3>2. j \in 1 .. Len(eventsQ) /\ eventsQ[j].kind = "none"
      <4>1. /\ Len(eventsQ') = Len(eventsQ) + 1 /\ eventsQ'[Len(eventsQ) + 1].kind = "tts_start"
            /\ \A k \in 1 .. Len(eventsQ) : eventsQ'[k] = eventsQ[k]
        BY <1>1, <1>3, <2>2, AppendProperties
      <4> QED BY <1>1, <4>1
    <3> QED BY <3>1, <3>2 DEF Inv, NoneIsLast
  <2> QED BY <1>4, <2>1, <2>2
<1>12. EventsFit'
  <2>1. Announced' = Announced /\ Framed' = Framed BY <1>6 DEF Announced, Framed
  <2> SUFFICES ASSUME Hopping, connected
               PROVE  InOrder(eventsQ', Announced, Framed, tts.s, frameIndex)
    BY <1>6, <1>7, <2>1 DEF EventsFit, Hopping, Capped
  <2>2. InOrder(eventsQ, Announced, Framed, tts.s, frameIndex) BY DEF Inv, EventsFit
  <2>3. Follows(Signal("tts_start"), tts.s, frameIndex, tts.s, frameIndex)
    BY <1>3 DEF Follows
  <2>4. Announced \in Nat /\ Framed \in Nat BY NumberIs DEF Inv, Typed, Announced, Framed
  <2> QED BY <1>1, <1>3, <1>4, <2>2, <2>3, <2>4, AppendInOrder
<1>13. RepliesFit' BY <1>6, TasksKeepTheReply DEF LlmDoes
<1>14. WireFits' BY TasksKeepTheWire DEF LlmDoes
<1> QED BY <1>5, <1>9, <1>10, <1>11, <1>12, <1>13, <1>14 DEF Inv

LEMMA LlmContentKeepsInv == ASSUME Inv, LlmContent PROVE Inv'
<1>1. PICK n \in 0 .. MaxSentences, residue \in BOOLEAN :
        /\ n > 0 \/ residue
        /\ llm.queued + n + (IF residue THEN 1 ELSE 0) <= MaxSentences
        /\ Enqueue(n, << >>)
        /\ llm' = [llm EXCEPT !.text = TRUE, !.residual = residue, !.queued = @ + n]
  BY DEF LlmContent
<1>2. MaxSentences \in Nat /\ n \in Nat /\ llm.queued \in 0 .. MaxSentences
  BY PipelineAssumption DEF Inv, Typed
<1>3. llm' = [st |-> llm.st, text |-> TRUE, tools |-> llm.tools, residual |-> residue,
              queued |-> llm.queued + n]
  BY <1>1 DEF Inv, Typed
<1>4. llm.queued + n \in 0 .. MaxSentences BY <1>1, <1>2
<1>5. LlmFits' BY <1>1, <1>2, <1>3 DEF LlmFits, LlmContent
<1>6. LlmDoes(n, FALSE, llm')
  <2>1. llm' \in Tasks BY <1>1, <1>3, <1>4 DEF Tasks, Inv, Typed
  <2>2. llm.queued + n <= MaxSentences BY <1>4
  <2> QED BY <1>1, <1>2, <1>3, <2>1, <2>2 DEF LlmDoes, LlmContent, MainRests
<1> QED BY <1>2, <1>5, <1>6, LlmDoing

LEMMA LlmToolDeltaKeepsInv == ASSUME Inv, LlmToolDelta PROVE Inv'
<1>1. llm' = [st |-> llm.st, text |-> llm.text, tools |-> TRUE, residual |-> llm.residual,
              queued |-> llm.queued]
  BY DEF LlmToolDelta, Inv, Typed
<1>2. LlmFits' BY <1>1 DEF LlmFits, Inv
<1>3. Enqueue(0, << >>)
  <2>1. sentenceQ \in Seq(0 .. MaxSentences) BY DEF Inv, Typed
  <2>2. [i \in 1 .. 0 |-> llm.queued + i] = << >> OBVIOUS
  <2>3. (sentenceQ \o [i \in 1 .. 0 |-> llm.queued + i]) \o << >> = sentenceQ
    BY <2>1, <2>2, ConcatEmptySeq
  <2>4. sentenceQ' = (sentenceQ \o [i \in 1 .. 0 |-> llm.queued + i]) \o << >>
    BY <2>3 DEF LlmToolDelta
  <2>5. eventsQ' = IF 0 > 0 /\ llm.queued = 0
                   THEN Append(eventsQ, Signal("tts_start")) ELSE eventsQ
    BY DEF LlmToolDelta
  <2> QED BY ONLY <2>4, <2>5 DEF Enqueue
<1>4. LlmDoes(0, FALSE, llm')
  <2>1. llm' \in Tasks BY <1>1 DEF Tasks, Inv, Typed
  <2>2. llm.queued + 0 <= MaxSentences /\ llm'.queued = llm.queued + 0
    BY <1>1, PipelineAssumption DEF Inv, Typed
  <2> QED BY <1>1, <1>3, <2>1, <2>2 DEF LlmDoes, LlmToolDelta, MainRests
<1> QED BY <1>2, <1>4, LlmDoing

LEMMA LlmEndKeepsInv == ASSUME Inv, LlmEnd PROVE Inv'
<1> DEFINE n == IF llm.residual THEN 1 ELSE 0
<1>1. /\ Enqueue(n, <<0>>)
      /\ llm' = [llm EXCEPT !.st = "done", !.residual = FALSE, !.queued = @ + n]
  BY DEF LlmEnd
<1>2. MaxSentences \in Nat /\ n \in Nat /\ llm.queued \in 0 .. MaxSentences
      /\ llm.residual \in BOOLEAN /\ llm.queued + n <= MaxSentences
  BY PipelineAssumption DEF Inv, Typed, LlmFits
<1>3. llm' = [st |-> "done", text |-> llm.text, tools |-> llm.tools, residual |-> FALSE,
              queued |-> llm.queued + n]
  BY <1>1 DEF Inv, Typed
<1>4. llm.queued + n \in 0 .. MaxSentences BY <1>2
<1>5. LlmFits' BY <1>2, <1>3 DEF LlmFits, Inv
<1> HIDE DEF n
<1>6. LlmDoes(n, TRUE, llm')
  <2>1. llm' \in Tasks BY <1>3, <1>4 DEF Tasks, Inv, Typed
  <2> QED BY <1>1, <1>2, <1>3, <2>1 DEF LlmDoes, LlmEnd, MainRests
<1> QED BY <1>2, <1>5, <1>6, LlmDoing

LEMMA LlmRaiseKeepsInv == ASSUME Inv, LlmRaise PROVE Inv'
<1>1. PICK how \in {"failed", "cancelled"} :
        (how = "cancelled" => abandoned) /\ llm' = [llm EXCEPT !.st = how]
  BY DEF LlmRaise
<1>2. llm' = [st |-> how, text |-> llm.text, tools |-> llm.tools, residual |-> llm.residual,
              queued |-> llm.queued]
  BY <1>1 DEF Inv, Typed
<1>3. LlmFits' BY <1>2 DEF LlmFits, Inv
<1>4. LlmDoes(0, TRUE, llm')
  <2>1. llm' \in Tasks BY <1>2 DEF Tasks, Inv, Typed
  <2>2. llm.queued + 0 <= MaxSentences /\ llm'.queued = llm.queued + 0
    BY <1>2, PipelineAssumption DEF Inv, Typed
  <2> QED BY <1>1, <1>2, <2>1, <2>2 DEF LlmDoes, LlmRaise, MainRests
<1> QED BY <1>3, <1>4, LlmDoing

(* What the TTS task does: it adds one event, or none, to the queue.       *)
LEMMA TtsDoing ==
  ASSUME Inv, MainRests, UNCHANGED llm, tts.st \in {"waiting", "speaking"},
         Typed', SentencesFit',
         NEW e \in Events, eventsQ' = eventsQ \/ eventsQ' = Append(eventsQ, e),
         e.kind # "tts_start",
         Capped => tts.st = "speaking" /\ tts'.s = tts.s /\ tts'.st \in {"speaking", "done", "failed"},
         Hopping => tts'.st \in {"waiting", "speaking", "done", "failed"},
         eventsQ' = eventsQ => tts'.s = tts.s /\ frameIndex' = frameIndex,
         (Hopping \/ Capped) /\ eventsQ' # eventsQ =>
           Follows(e, tts.s, frameIndex, tts'.s, frameIndex'),
         e.kind = "none" /\ eventsQ' # eventsQ => tts'.st = "done" \/ (~Capped /\ tts'.st \in {"done", "failed"}) \/ abandoned
  PROVE  Inv'
<1>1. LlmFits' BY DEF Inv, LlmFits
<1>2. /\ main' = main /\ iteration' = iteration /\ llm' = llm /\ connected' = connected
      /\ wire' = wire /\ abandoned' = abandoned
  BY DEF MainRests
<1>3. ~Silent /\ ~Replying /\ main # "gather" BY DEF Inv, PlaceFits
<1>4. PlaceFits'
  BY <1>2, <1>3 DEF Inv, PlaceFits, Silent, Hopping, Capped, Replying, AtCap
<1>5. eventsQ \in Seq(Events) /\ Len(eventsQ) \in Nat BY LenProperties DEF Inv, Typed
<1>6. NoneIsLast'
  <2>0. Capped => \A j \in 1 .. Len(eventsQ') : eventsQ'[j].kind # "tts_start"
    <3> SUFFICES ASSUME Capped, NEW j \in 1 .. Len(eventsQ') PROVE eventsQ'[j].kind # "tts_start"
      OBVIOUS
    <3>1. CASE eventsQ' = eventsQ BY <3>1 DEF Inv, NoneIsLast
    <3>2. CASE eventsQ' = Append(eventsQ, e)
      <4>1. /\ Len(eventsQ') = Len(eventsQ) + 1 /\ eventsQ'[Len(eventsQ) + 1] = e
            /\ \A k \in 1 .. Len(eventsQ) : eventsQ'[k] = eventsQ[k]
        BY <1>5, <3>2, AppendProperties
      <4>2. CASE j \in 1 .. Len(eventsQ) BY <4>1, <4>2 DEF Inv, NoneIsLast
      <4>3. CASE j = Len(eventsQ) + 1 BY <4>1, <4>3
      <4> QED BY <1>5, <4>1, <4>2, <4>3
    <3> QED BY <3>1, <3>2
  <2> SUFFICES ASSUME main = "consume" \/ Capped,
                      NEW j \in 1 .. Len(eventsQ'), eventsQ'[j].kind = "none"
               PROVE  j = Len(eventsQ') /\ tts'.st \in (IF AtCap THEN {"done"} ELSE {"done", "failed"})
    BY <1>2, <2>0 DEF NoneIsLast, Capped, AtCap
  <2>1. ASSUME j \in 1 .. Len(eventsQ), eventsQ[j].kind = "none" PROVE FALSE
    BY <2>1 DEF Inv, NoneIsLast
  <2>2. CASE eventsQ' = eventsQ BY <2>1, <2>2
  <2>3. CASE eventsQ' # eventsQ
    <3>1. /\ Len(eventsQ') = Len(eventsQ) + 1 /\ eventsQ'[Len(eventsQ) + 1] = e
          /\ \A k \in 1 .. Len(eventsQ) : eventsQ'[k] = eventsQ[k]
      BY <1>5, <2>3, AppendProperties
    <3>2. j = Len(eventsQ') /\ e.kind = "none" BY <1>5, <2>1, <3>1
    <3>3. ~abandoned BY DEF Inv, PlaceFits, Capped
    <3>4. AtCap <=> Capped BY DEF Inv, PlaceFits, Hopping, Capped
    <3> QED BY <2>3, <3>2, <3>3, <3>4
  <2> QED BY <2>2, <2>3
<1>7. EventsFit'
  <2>1. Announced' = Announced /\ Framed' = Framed BY <1>2 DEF Announced, Framed
  <2>2. Announced \in Nat /\ Framed \in Nat BY NumberIs DEF Inv, Typed, Announced, Framed
  <2>3. tts'.s \in Nat /\ frameIndex' \in Nat BY PipelineAssumption DEF Typed
  <2>4. ASSUME Hopping \/ Capped, NEW s \in Nat, NEW f \in Nat,
               InOrder(eventsQ, s, f, tts.s, frameIndex)
        PROVE  InOrder(eventsQ', s, f, tts'.s, frameIndex')
    <3>1. CASE eventsQ' = eventsQ BY <2>4, <3>1
    <3>2. CASE eventsQ' # eventsQ
      <4>1. eventsQ' = Append(eventsQ, e) /\ Follows(e, tts.s, frameIndex, tts'.s, frameIndex')
        BY <2>4, <3>2
      <4> QED BY <1>5, <2>3, <2>4, <4>1, AppendInOrder
    <3> QED BY <3>1, <3>2
  <2>5. main = "capSay" => tts.s = 1 /\ tts'.s = 1 BY DEF Inv, PlaceFits, Capped
  <2>6. main = "capSay" => InOrder(eventsQ', 1, 0, 1, frameIndex')
    <3> SUFFICES ASSUME main = "capSay" PROVE InOrder(eventsQ', 1, 0, 1, frameIndex') OBVIOUS
    <3>1. InOrder(eventsQ, 1, 0, tts.s, frameIndex) BY <2>5 DEF Inv, EventsFit
    <3>2. InOrder(eventsQ', 1, 0, tts'.s, frameIndex') BY <2>4, <3>1 DEF Capped
    <3> QED BY <2>5, <3>2
  <2> QED BY <1>2, <2>1, <2>2, <2>4, <2>6 DEF Inv, EventsFit, Hopping, Capped
<1>8. RepliesFit' BY TasksKeepTheReply
<1>9. WireFits' BY TasksKeepTheWire
<1> QED BY <1>1, <1>4, <1>6, <1>7, <1>8, <1>9 DEF Inv

LEMMA TtsTakeKeepsInv == ASSUME Inv, TtsTake PROVE Inv'
<1> DEFINE x == Head(sentenceQ)
           e == IF x = 0 THEN Signal("none") ELSE Message("sentence", x, 0)
<1>0. MaxSentences \in Nat /\ MaxFrames \in Nat BY PipelineAssumption
<1>1. /\ sentenceQ \in Seq(0 .. MaxSentences) /\ sentenceQ # << >> /\ tts.st = "waiting"
      /\ eventsQ \in Seq(Events) /\ frameIndex \in Nat /\ llm.queued \in Nat /\ tts.s \in Nat
  BY <1>0 DEF TtsTake, Inv, Typed
<1>2. /\ x \in 0 .. MaxSentences /\ sentenceQ' \in Seq(0 .. MaxSentences)
      /\ Len(sentenceQ) \in Nat \ {0} /\ Len(sentenceQ') = Len(sentenceQ) - 1
      /\ \A k \in 1 .. Len(sentenceQ') : sentenceQ'[k] = sentenceQ[k + 1]
      /\ x = sentenceQ[1]
  <2>1. sentenceQ' = Tail(sentenceQ) BY DEF TtsTake
  <2>2. x = sentenceQ[1] OBVIOUS
  <2> HIDE DEF x
  <2> QED BY <1>1, <2>1, <2>2, HeadTailProperties, EmptySeq DEF x
<1>3. eventsQ' = Append(eventsQ, e)
      /\ tts' = IF x = 0 THEN [tts EXCEPT !.st = "done"]
                ELSE [st |-> "speaking", s |-> x, attempt |-> 1, frames |-> 0]
  BY DEF TtsTake
<1> HIDE DEF x
<1>4. e \in Events /\ (e.kind = "none" <=> x = 0)
      /\ (x # 0 => e.kind = "sentence" /\ e.n = x)
      /\ e.kind # "tts_start"
  BY <1>2 DEF Events, EventKinds, Signal, Message
<1> HIDE DEF e
<1>5. eventsQ' \in Seq(Events) BY <1>1, <1>3, <1>4, AppendProperties
<1>6. /\ tts'.s = IF x = 0 THEN tts.s ELSE x
      /\ tts'.st = IF x = 0 THEN "done" ELSE "speaking"
      /\ tts' \in [st : {"idle", "waiting", "speaking", "done", "failed", "cancelled"},
                   s : 0 .. MaxSentences, attempt : 0 .. 2, frames : 0 .. MaxFrames]
  <2>1. CASE x = 0 BY <1>3, <2>1 DEF Inv, Typed
  <2>2. CASE x # 0 BY <1>0, <1>2, <1>3, <2>2
  <2> QED BY <2>1, <2>2
<1>7. Typed' BY <1>2, <1>5, <1>6 DEF Inv, Typed, TtsTake
<1>8. ~Capped BY <1>1 DEF Inv, PlaceFits
<1>9. MainRests /\ llm' = llm /\ frameIndex' = frameIndex BY DEF TtsTake, MainRests
(* The sentinel is the last in the queue, and a sentence is the next one.   *)
<1>10. Hopping => IF x = 0 THEN Len(sentenceQ) = 1 /\ llm.st # "streaming" /\ tts.s = llm.queued
                  ELSE x = tts.s + 1 /\ (Len(sentenceQ) = 1 => llm.st = "streaming")
  <2> SUFFICES ASSUME Hopping
               PROVE  IF x = 0 THEN Len(sentenceQ) = 1 /\ llm.st # "streaming" /\ tts.s = llm.queued
                      ELSE x = tts.s + 1 /\ (Len(sentenceQ) = 1 => llm.st = "streaming")
    OBVIOUS
  <2>1. 1 \in 1 .. Len(sentenceQ) BY <1>2
  <2>2. IF 1 = Len(sentenceQ) /\ llm.st # "streaming" THEN x = 0 ELSE x = tts.s + 1
    BY <1>2, <2>1 DEF Inv, SentencesFit
  <2>3. llm.st # "streaming" => Len(sentenceQ) = llm.queued - tts.s + 1
    BY <1>1 DEF Inv, SentencesFit
  <2>4. CASE x = 0
    <3>1. Len(sentenceQ) = 1 /\ llm.st # "streaming" BY <1>1, <2>2, <2>4
    <3>2. llm.queued - tts.s + 1 = 1 BY <2>3, <3>1
    <3>3. tts.s = llm.queued BY <1>1, <3>2
    <3> QED BY <2>4, <3>1, <3>3
  <2>5. CASE x # 0 BY <2>2, <2>5
  <2> QED BY <2>4, <2>5
<1>11. SentencesFit'
  <2>0. main' = main BY <1>9 DEF MainRests
  <2> SUFFICES ASSUME Hopping
               PROVE  /\ \A k \in 1 .. Len(sentenceQ') :
                           IF k = Len(sentenceQ') /\ llm.st # "streaming" THEN sentenceQ'[k] = 0
                           ELSE sentenceQ'[k] = tts'.s + k
                      /\ llm.st = "streaming" =>
                           Len(sentenceQ') = llm.queued - tts'.s /\ tts'.st # "done"
                      /\ llm.st # "streaming" /\ tts'.st # "done" =>
                           Len(sentenceQ') = llm.queued - tts'.s + 1
                      /\ tts'.st = "done" => sentenceQ' = << >> /\ tts'.s = llm.queued
                      /\ tts'.st \in {"speaking", "failed"} => tts'.s > 0
                      /\ tts'.s = 0 => frameIndex' = 0
    BY <1>9, <2>0 DEF SentencesFit, Hopping
  <2>1. /\ \A k \in 1 .. Len(sentenceQ) :
             IF k = Len(sentenceQ) /\ llm.st # "streaming" THEN sentenceQ[k] = 0
             ELSE sentenceQ[k] = tts.s + k
        /\ llm.st = "streaming" => Len(sentenceQ) = llm.queued - tts.s
        /\ llm.st # "streaming" => Len(sentenceQ) = llm.queued - tts.s + 1
        /\ tts.s = 0 => frameIndex = 0
    BY <1>1 DEF Inv, SentencesFit
  <2>2. CASE x = 0
    <3>0. Len(sentenceQ) = 1 BY <1>10, <2>2
    <3>1. Len(sentenceQ') = 0 BY <1>2, <3>0
    <3>a. sentenceQ' \in Seq(0 .. MaxSentences) BY <1>2
    <3>b. sentenceQ' = << >> BY <3>1, <3>a, EmptySeq
    <3> QED BY <1>6, <1>9, <1>10, <2>1, <2>2, <3>1, <3>b
  <2>3. CASE x # 0
    <3>1. tts'.s = tts.s + 1 /\ tts'.st = "speaking" BY <1>6, <1>10, <2>3
    <3>2. ASSUME NEW k \in 1 .. Len(sentenceQ')
          PROVE  IF k = Len(sentenceQ') /\ llm.st # "streaming" THEN sentenceQ'[k] = 0
                 ELSE sentenceQ'[k] = tts'.s + k
      <4>1. k \in Nat /\ k + 1 \in 1 .. Len(sentenceQ)
            /\ (k + 1 = Len(sentenceQ) <=> k = Len(sentenceQ'))
        BY <1>2
      <4>2. sentenceQ'[k] = sentenceQ[k + 1] BY <1>2
      <4>3. IF k + 1 = Len(sentenceQ) /\ llm.st # "streaming" THEN sentenceQ[k + 1] = 0
            ELSE sentenceQ[k + 1] = tts.s + (k + 1)
        BY <2>1, <4>1
      <4> QED BY <1>1, <3>1, <4>1, <4>2, <4>3
    <3>3. llm.st = "streaming" => Len(sentenceQ') = llm.queued - tts'.s
      BY <1>1, <1>2, <2>1, <3>1
    <3>4. llm.st # "streaming" => Len(sentenceQ') = llm.queued - tts'.s + 1
      BY <1>1, <1>2, <2>1, <3>1
    <3>5. tts'.s > 0 BY <1>1, <3>1
    <3> QED BY <3>1, <3>2, <3>3, <3>4, <3>5
  <2> QED BY <2>2, <2>3
<1>12. Follows(e, tts.s, frameIndex, tts'.s, frameIndex') \/ ~Hopping
  BY <1>4, <1>6, <1>9, <1>10 DEF Follows
<1> QED
  BY <1>1, <1>3, <1>4, <1>6, <1>7, <1>8, <1>9, <1>11, <1>12, TtsDoing

(* The other steps of the task take no sentence.                           *)
LEMMA TtsSpeaking ==
  ASSUME Inv, MainRests, UNCHANGED <<llm, sentenceQ>>, tts.st \in {"waiting", "speaking"},
         NEW e \in Events, eventsQ' = eventsQ \/ eventsQ' = Append(eventsQ, e),
         e.kind \in {"frame", "none"},
         tts' \in [st : {"idle", "waiting", "speaking", "done", "failed", "cancelled"},
                   s : 0 .. MaxSentences, attempt : 0 .. 2, frames : 0 .. MaxFrames],
         tts'.s = tts.s, frameIndex' \in Nat,
         eventsQ' = eventsQ => frameIndex' = frameIndex,
         \/ abandoned /\ e.kind = "none" /\ frameIndex' = frameIndex
         \/ /\ tts.st = "speaking"
            /\ AtCap => tts'.st \in {"speaking", "done", "failed"}
            /\ ~AtCap => tts'.st \in {"speaking", "waiting", "failed"}
            /\ eventsQ' # eventsQ => Follows(e, tts.s, frameIndex, tts.s, frameIndex')
            /\ eventsQ' # eventsQ /\ e.kind = "none" =>
                 tts'.st = IF AtCap THEN "done" ELSE "failed"
  PROVE  Inv'
<1>1. eventsQ \in Seq(Events) /\ sentenceQ \in Seq(0 .. MaxSentences) /\ tts.s \in Nat
  BY PipelineAssumption DEF Inv, Typed
<1>2. eventsQ' \in Seq(Events)
  <2>1. CASE eventsQ' = eventsQ BY <1>1, <2>1
  <2>2. CASE eventsQ' = Append(eventsQ, e) BY <1>1, <2>2, AppendProperties
  <2> QED BY <2>1, <2>2
<1>3. Typed' BY <1>1, <1>2 DEF Inv, Typed, MainRests
<1>4. abandoned => ~Hopping /\ ~Capped BY DEF Inv, PlaceFits, Hopping, Capped
<1>5. (Hopping => ~AtCap) /\ (Capped => AtCap) BY DEF Inv, PlaceFits
<1>6. main' = main BY DEF MainRests
<1>7. SentencesFit'
  <2> SUFFICES ASSUME Hopping
               PROVE  /\ \A k \in 1 .. Len(sentenceQ) :
                           IF k = Len(sentenceQ) /\ llm.st # "streaming" THEN sentenceQ[k] = 0
                           ELSE sentenceQ[k] = tts.s + k
                      /\ llm.st = "streaming" =>
                           Len(sentenceQ) = llm.queued - tts.s /\ tts'.st # "done"
                      /\ llm.st # "streaming" /\ tts'.st # "done" =>
                           Len(sentenceQ) = llm.queued - tts.s + 1
                      /\ tts'.st = "done" => sentenceQ = << >> /\ tts.s = llm.queued
                      /\ tts'.st \in {"speaking", "failed"} => tts.s > 0
                      /\ tts.s = 0 => frameIndex' = 0
    BY <1>6 DEF SentencesFit, Hopping
  <2>1. tts.st = "speaking" /\ tts'.st \in {"speaking", "waiting", "failed"}
    BY <1>4, <1>5
  <2>2. tts.s > 0 BY <2>1 DEF Inv, SentencesFit
  <2>3. tts'.st # "done" /\ tts.st # "done" BY <2>1
  <2> QED BY <1>1, <2>2, <2>3 DEF Inv, SentencesFit
<1>8. Capped => tts.st = "speaking" /\ tts'.st \in {"speaking", "done", "failed"}
  BY <1>4, <1>5
<1>9. Hopping => tts'.st \in {"waiting", "speaking", "done", "failed"}
  BY <1>4, <1>5
<1>10. (Hopping \/ Capped) /\ eventsQ' # eventsQ =>
         Follows(e, tts.s, frameIndex, tts'.s, frameIndex')
  BY <1>4
<1>11. e.kind = "none" /\ eventsQ' # eventsQ =>
         tts'.st = "done" \/ (~Capped /\ tts'.st \in {"done", "failed"}) \/ abandoned
  BY <1>5
<1> QED BY <1>3, <1>7, <1>8, <1>9, <1>10, <1>11, TtsDoing

LEMMA TtsFrameKeepsInv == ASSUME Inv, TtsFrame PROVE Inv'
<1> DEFINE e == Message("frame", tts.s, frameIndex)
<1>1. tts.st = "speaking" /\ tts.s \in 0 .. MaxSentences /\ frameIndex \in Nat
      /\ tts.frames \in 0 .. MaxFrames /\ tts.frames < MaxFrames /\ MaxFrames \in Nat
      /\ MaxSentences \in Nat
  BY PipelineAssumption DEF TtsFrame, Inv, Typed
<1>2. eventsQ' = Append(eventsQ, e) /\ frameIndex' = frameIndex + 1
      /\ tts' = [tts EXCEPT !.frames = @ + 1]
  BY DEF TtsFrame
<1>3. e \in Events /\ e.kind = "frame" /\ e.n = tts.s /\ e.i = frameIndex
  BY <1>1 DEF Events, EventKinds, Message
<1> HIDE DEF e
<1>4. /\ tts'.s = tts.s /\ tts'.st = "speaking"
      /\ tts' \in [st : {"idle", "waiting", "speaking", "done", "failed", "cancelled"},
                   s : 0 .. MaxSentences, attempt : 0 .. 2, frames : 0 .. MaxFrames]
  <2>1. tts' = [st |-> tts.st, s |-> tts.s, attempt |-> tts.attempt, frames |-> tts.frames + 1]
    BY <1>2 DEF Inv, Typed
  <2>2. tts.attempt \in 0 .. 2 BY DEF Inv, Typed
  <2> QED BY <1>1, <2>1, <2>2
<1>5. MainRests /\ UNCHANGED <<llm, sentenceQ>> BY DEF TtsFrame, MainRests
<1>6. Hopping \/ Capped => tts.s > 0
  BY <1>1 DEF Inv, SentencesFit, PlaceFits
<1>9. eventsQ' # eventsQ
  <2>1. eventsQ \in Seq(Events) BY DEF Inv, Typed
  <2>2. Len(eventsQ') = Len(eventsQ) + 1 /\ Len(eventsQ) \in Nat
    BY <1>2, <1>3, <2>1, AppendProperties, LenProperties
  <2> QED BY <2>2
<1>10. frameIndex' \in Nat BY <1>1, <1>2
<1>7. CASE Hopping \/ Capped
  <2>1. Follows(e, tts.s, frameIndex, tts.s, frameIndex') BY <1>2, <1>3, <1>6, <1>7 DEF Follows
  <2> QED BY <1>1, <1>2, <1>3, <1>4, <1>5, <1>9, <1>10, <2>1, TtsSpeaking
<1>8. CASE ~Hopping /\ ~Capped
  <2>1. Typed' BY <1>1, <1>2, <1>3, <1>4, <1>5, AppendProperties DEF Inv, Typed, MainRests
  <2>2. SentencesFit' BY <1>5, <1>8 DEF SentencesFit, Hopping, MainRests
  <2> QED BY <1>1, <1>2, <1>3, <1>4, <1>5, <1>8, <1>9, <2>1, <2>2, TtsDoing
<1> QED BY <1>7, <1>8

LEMMA TtsSpokenKeepsInv == ASSUME Inv, TtsSpoken PROVE Inv'
<1>1. MainRests /\ UNCHANGED <<llm, sentenceQ>> /\ frameIndex' = frameIndex
      /\ tts.st = "speaking" /\ frameIndex \in Nat /\ tts.s \in 0 .. MaxSentences
  BY DEF TtsSpoken, MainRests, Inv, Typed
<1>2. Signal("none") \in Events /\ Signal("none").kind = "none"
  BY DEF Events, EventKinds, Signal, Message
<1>3. /\ eventsQ' = eventsQ \/ eventsQ' = Append(eventsQ, Signal("none"))
      /\ ~AtCap => eventsQ' = eventsQ
      /\ tts' = [tts EXCEPT !.st = IF AtCap THEN "done" ELSE "waiting"]
  BY DEF TtsSpoken
<1>4. /\ tts'.s = tts.s /\ tts'.st = (IF AtCap THEN "done" ELSE "waiting")
      /\ tts' \in [st : {"idle", "waiting", "speaking", "done", "failed", "cancelled"},
                   s : 0 .. MaxSentences, attempt : 0 .. 2, frames : 0 .. MaxFrames]
  BY <1>3 DEF Inv, Typed
<1>5. Follows(Signal("none"), tts.s, frameIndex, tts.s, frameIndex') BY <1>1, <1>2 DEF Follows
<1> QED BY <1>1, <1>2, <1>3, <1>4, <1>5, TtsSpeaking

LEMMA TtsFaultKeepsInv == ASSUME Inv, TtsFault PROVE Inv'
<1>1. MainRests /\ UNCHANGED <<llm, sentenceQ>> /\ frameIndex' = frameIndex
      /\ tts.st = "speaking" /\ frameIndex \in Nat /\ tts.s \in 0 .. MaxSentences
  BY DEF TtsFault, MainRests, Inv, Typed
<1>2. Signal("none") \in Events /\ Signal("none").kind = "none"
  BY DEF Events, EventKinds, Signal, Message
<1>3. \/ eventsQ' = eventsQ /\ tts' = [tts EXCEPT !.attempt = 2, !.frames = 0]
      \/ /\ eventsQ' = IF AtCap THEN eventsQ ELSE Append(eventsQ, Signal("none"))
         /\ tts' = [tts EXCEPT !.st = "failed"]
  BY DEF TtsFault
<1>4. MaxFrames \in Nat BY PipelineAssumption
<1>5. /\ tts'.s = tts.s
      /\ \/ tts'.st = "speaking" /\ eventsQ' = eventsQ
         \/ tts'.st = "failed" /\ eventsQ' = IF AtCap THEN eventsQ ELSE Append(eventsQ, Signal("none"))
      /\ tts' \in [st : {"idle", "waiting", "speaking", "done", "failed", "cancelled"},
                   s : 0 .. MaxSentences, attempt : 0 .. 2, frames : 0 .. MaxFrames]
  <2>1. CASE tts' = [tts EXCEPT !.attempt = 2, !.frames = 0] /\ eventsQ' = eventsQ
    <3>1. tts' = [st |-> "speaking", s |-> tts.s, attempt |-> 2, frames |-> 0]
      BY <1>1, <2>1 DEF Inv, Typed
    <3> QED BY <1>1, <1>4, <2>1, <3>1
  <2>2. CASE /\ tts' = [tts EXCEPT !.st = "failed"]
             /\ eventsQ' = IF AtCap THEN eventsQ ELSE Append(eventsQ, Signal("none"))
    BY <2>2 DEF Inv, Typed
  <2> QED BY <1>3, <2>1, <2>2
<1>6. Follows(Signal("none"), tts.s, frameIndex, tts.s, frameIndex') BY <1>1, <1>2 DEF Follows
<1> QED BY <1>1, <1>2, <1>5, <1>6, TtsSpeaking

LEMMA TtsCancelledKeepsInv == ASSUME Inv, TtsCancelled PROVE Inv'
<1>1. MainRests /\ UNCHANGED <<llm, sentenceQ>> /\ frameIndex' = frameIndex
      /\ tts.st \in {"waiting", "speaking"} /\ frameIndex \in Nat /\ abandoned
      /\ (eventsQ' = eventsQ \/ eventsQ' = Append(eventsQ, Signal("none")))
  BY DEF TtsCancelled, MainRests, Inv, Typed
<1>2. Signal("none") \in Events /\ Signal("none").kind = "none"
  BY DEF Events, EventKinds, Signal, Message
<1>3. /\ tts'.s = tts.s
      /\ tts' \in [st : {"idle", "waiting", "speaking", "done", "failed", "cancelled"},
                   s : 0 .. MaxSentences, attempt : 0 .. 2, frames : 0 .. MaxFrames]
  BY DEF TtsCancelled, Inv, Typed
<1> QED BY <1>1, <1>2, <1>3, TtsSpeaking

LEMMA TasksKeepInv == ASSUME Inv, LlmStep \/ TtsStep PROVE Inv'
BY LlmContentKeepsInv, LlmToolDeltaKeepsInv, LlmEndKeepsInv, LlmRaiseKeepsInv, TtsTakeKeepsInv,
   TtsFrameKeepsInv, TtsSpokenKeepsInv, TtsFaultKeepsInv, TtsCancelledKeepsInv
   DEF LlmStep, TtsStep

-----------------------------------------------------------------------------
(***************************************************************************)
(* The steps of the main coroutine.                                        *)
(***************************************************************************)
LEMMA WireGrew ==
  ASSUME wire \in Seq(Sendable), NEW m \in Sendable, wire' = Append(wire, m)
  PROVE  /\ wire' \in Seq(Sendable) /\ wire' # << >> /\ wire'[Len(wire')] = m
         /\ Contract!Kinds(wire') = Contract!Kinds(wire) \cup {m.kind}
         /\ Announced \in Nat /\ Framed \in Nat
         /\ Announced' = Announced + (IF m.kind = "sentence" THEN 1 ELSE 0)
         /\ Framed' = Framed + (IF m.kind = "frame" THEN 1 ELSE 0)
         /\ Sent("sentence")' = Sent("sentence") \cup (IF m.kind = "sentence" THEN {m.n} ELSE {})
<1> DEFINE v == Append(wire, m)
<1>1. /\ v \in Seq(Sendable) /\ v # << >> /\ v[Len(v)] = m
      /\ Contract!Kinds(v) = Contract!Kinds(wire) \cup {m.kind}
      /\ \A kind : Contract!Number(v, kind)
                     = Contract!Number(wire, kind) + (IF kind = m.kind THEN 1 ELSE 0)
      /\ \A kind : {v[j].n : j \in {k \in DOMAIN v : v[k].kind = kind}}
           = {wire[j].n : j \in {k \in DOMAIN wire : wire[k].kind = kind}}
               \cup (IF kind = m.kind THEN {m.n} ELSE {})
  BY OneMoreSent
<1> HIDE DEF v
<1>2. wire' = v BY DEF v
<1>3. Announced \in Nat /\ Framed \in Nat BY NumberIs DEF Announced, Framed
<1>4. Announced' = Announced + (IF m.kind = "sentence" THEN 1 ELSE 0) BY <1>1, <1>2 DEF Announced
<1>5. Framed' = Framed + (IF m.kind = "frame" THEN 1 ELSE 0) BY <1>1, <1>2 DEF Framed
<1>6. Sent("sentence")' = Sent("sentence") \cup (IF m.kind = "sentence" THEN {m.n} ELSE {})
  <2>1. {v[j].n : j \in {k \in DOMAIN v : v[k].kind = "sentence"}}
          = {wire[j].n : j \in {k \in DOMAIN wire : wire[k].kind = "sentence"}}
              \cup (IF "sentence" = m.kind THEN {m.n} ELSE {})
    BY <1>1
  <2>2. {wire'[j].n : j \in {k \in DOMAIN wire' : wire'[k].kind = "sentence"}}
          = {wire[j].n : j \in {k \in DOMAIN wire : wire[k].kind = "sentence"}}
              \cup (IF "sentence" = m.kind THEN {m.n} ELSE {})
    BY <1>2, <2>1
  <2> QED BY <2>2 DEF Sent
<1> QED BY <1>1, <1>2, <1>3, <1>4, <1>5, <1>6

(* A step that sends nothing.                                              *)
LEMMA WireStayed ==
  ASSUME wire' = wire
  PROVE  Announced' = Announced /\ Framed' = Framed /\ Sent("sentence")' = Sent("sentence")
BY DEF Announced, Framed, Sent

(* A step that remembers nothing.                                          *)
LEMMA HistoryStayed ==
  ASSUME history' = history, saved' = saved
  PROVE  Replied(history)' = Replied(history) /\ Replied(saved)' = Replied(saved)
BY DEF Replied

(* What the history holds after a message has been added to it.            *)
LEMMA HistoryGrew ==
  ASSUME NEW h \in Seq(Turns), NEW role \in {"user", "calls", "tool", "assistant"}
  PROVE  /\ AddMessage(h, Turn(role)) \in Seq(Turns)
         /\ role # "assistant" /\ ~Replied(h) => ~Replied(AddMessage(h, Turn(role)))
         /\ role = "assistant" => Replied(AddMessage(h, Turn(role)))
<1> DEFINE m == Turn(role)
           a == AddMessage(h, m)
<1>1. m \in Turns /\ m.role = role BY DEF Turn, Turns
<1> HIDE DEF m
<1>2. /\ a \in Seq(Turns)
      /\ \A j \in 1 .. Len(a) : a[j] = m \/ \E k \in 1 .. Len(h) : a[j] = h[k]
      /\ m.role # "tool" => \E j \in 1 .. Len(a) : a[j] = m
  BY <1>1, AddMessageIs
<1> HIDE DEF a
<1>3. DOMAIN a = 1 .. Len(a) /\ DOMAIN h = 1 .. Len(h) BY <1>2, LenProperties
<1> QED BY <1>1, <1>2, <1>3 DEF Replied, a, m

(* What sending one message does to the wire.                              *)
LEMMA DeliverIs ==
  ASSUME NEW m, NEW next, NEW guarded, Deliver(m, next, guarded), connected \in BOOLEAN
  PROVE  /\ connected => wire' = Append(wire, m) /\ main' = next /\ abandoned' = abandoned
         /\ ~connected => wire' = wire
         /\ \/ main' = next /\ abandoned' = abandoned
            \/ main' = "recover" /\ abandoned' = guarded
<1>1. CASE connected BY <1>1 DEF Deliver
<1>2. CASE ~connected BY <1>2 DEF Deliver
<1> QED BY <1>1, <1>2

TasksRest == UNCHANGED <<iteration, llm, tts, sentenceQ, frameIndex, history, saved, connected>>

(* A message that is neither a sentence nor a frame moves the main         *)
(* coroutine on to where the queues do not matter.                         *)
LEMMA SendingSignal ==
  ASSUME Inv, NEW kind \in {"stt", "start", "thinking", "stop", "fail"}, NEW next,
         \/ kind = "stt" /\ main = "sendStt" /\ next = "sendStart"
         \/ kind = "start" /\ main = "sendStart" /\ next = "hop"
         \/ kind = "thinking" /\ main = "thinking" /\ next = "tools"
         \/ kind = "stop" /\ main = "stop" /\ next = "finish"
         \/ kind = "fail" /\ main = "error" /\ next = "recover",
         connected => wire' = Append(wire, Signal(kind)) /\ main' = next,
         ~connected => wire' = wire,
         main' \in {next, "recover"}, abandoned' = abandoned \/ abandoned' = FALSE,
         TasksRest, eventsQ' = eventsQ
  PROVE  Inv'
<1>0. abandoned = FALSE /\ abandoned' = FALSE
  <2>1. ~abandoned BY DEF Inv, PlaceFits
  <2>2. abandoned \in BOOLEAN BY DEF Inv, Typed
  <2> QED BY <2>1, <2>2
<1>1. Signal(kind) \in Sendable /\ Signal(kind).kind = kind
  BY DEF Signal, Message, Sendable
<1>2. wire \in Seq(Sendable) /\ connected \in BOOLEAN BY DEF Inv, Typed
<1>3. /\ connected => /\ wire' \in Seq(Sendable) /\ wire' # << >> /\ wire'[Len(wire')].kind = kind
                      /\ Contract!Kinds(wire') = Contract!Kinds(wire) \cup {kind}
      /\ ~connected => wire' = wire
      /\ Announced' = Announced /\ Framed' = Framed /\ Sent("sentence")' = Sent("sentence")
  <2>1. CASE connected
    <3>1. wire' = Append(wire, Signal(kind)) BY <2>1
    <3>2. /\ wire' \in Seq(Sendable) /\ wire' # << >> /\ wire'[Len(wire')] = Signal(kind)
          /\ Contract!Kinds(wire') = Contract!Kinds(wire) \cup {kind}
          /\ Announced \in Nat /\ Framed \in Nat
          /\ Announced' = Announced + 0 /\ Framed' = Framed + 0
          /\ Sent("sentence")' = Sent("sentence") \cup {}
      BY <1>1, <1>2, <3>1, WireGrew
    <3> QED BY <1>1, <2>1, <3>2
  <2>2. CASE ~connected BY <2>2, WireStayed
  <2> QED BY <2>1, <2>2
<1>4. Replied(history)' = Replied(history) /\ Replied(saved)' = Replied(saved)
  BY HistoryStayed DEF TasksRest
<1>5. Typed'
  <2>1. wire' \in Seq(Sendable) BY <1>2, <1>3
  <2>2. main' \in {"sendStart", "hop", "tools", "finish", "recover"} OBVIOUS
  <2>3. iteration' = iteration /\ llm' = llm /\ tts' = tts /\ sentenceQ' = sentenceQ
        /\ frameIndex' = frameIndex /\ history' = history /\ saved' = saved
        /\ connected' = connected
    BY DEF TasksRest
  <2>4. abandoned' \in BOOLEAN BY <1>0
  <2> QED BY <2>1, <2>2, <2>3, <2>4 DEF Inv, Typed
<1>6. LlmFits' BY DEF Inv, LlmFits, TasksRest
<1>7. PlaceFits'
  BY <1>0 DEF Inv, PlaceFits, TasksRest, Silent, Hopping, Capped, Replying, AtCap
<1>8. SentencesFit' /\ NoneIsLast' /\ EventsFit'
  BY DEF SentencesFit, NoneIsLast, EventsFit, Hopping, Capped
<1>9. RepliesFit'
  BY <1>3, <1>4 DEF Inv, RepliesFit, Replying, TasksRest
<1>10. WireFits'
  <2>1. CASE connected
    <3>1. wire = << >> => Announced = 0 /\ Framed = 0 BY NothingSent DEF Announced, Framed
    <3>2. CASE kind = "stt"
      BY <1>3, <1>4, <2>1, <3>1, <3>2 DEF Inv, WireFits, Hopping, Capped, Replying, TasksRest
    <3>3. CASE kind = "start"
      BY <1>3, <1>4, <2>1, <3>3 DEF Inv, WireFits, Hopping, Capped, Replying, TasksRest
    <3>4. CASE kind = "thinking"
      BY <1>3, <1>4, <2>1, <3>4 DEF Inv, WireFits, Hopping, Capped, Replying, TasksRest
    <3>5. CASE kind = "stop"
      BY <1>3, <1>4, <2>1, <3>5 DEF Inv, WireFits, RepliesFit, Hopping, Capped, Replying, TasksRest
    <3>6. CASE kind = "fail"
      BY <1>3, <1>4, <2>1, <3>6 DEF Inv, WireFits, Hopping, Capped, Replying, TasksRest
    <3> QED BY <3>2, <3>3, <3>4, <3>5, <3>6
  <2>2. CASE ~connected
    BY <1>3, <1>4, <2>2 DEF Inv, WireFits, RepliesFit, Hopping, Capped, Replying, TasksRest
  <2> QED BY <2>1, <2>2
<1> QED BY <1>5, <1>6, <1>7, <1>8, <1>9, <1>10 DEF Inv

LEMMA SignalsKeepInv ==
  ASSUME Inv, SendTranscript \/ SendThinking \/ SendStop \/ SendError PROVE Inv'
<1>0. connected \in BOOLEAN BY DEF Inv, Typed
<1>1. CASE SendTranscript
  <2>1. TasksRest /\ eventsQ' = eventsQ BY <1>1 DEF SendTranscript, TasksRest
  <2>2. CASE main = "sendStt" /\ Deliver(Signal("stt"), "sendStart", FALSE)
    BY <1>0, <2>1, <2>2, DeliverIs, SendingSignal
  <2>3. CASE main = "sendStart" /\ Deliver(Signal("start"), "hop", FALSE)
    BY <1>0, <2>1, <2>3, DeliverIs, SendingSignal
  <2> QED BY <1>1, <2>2, <2>3 DEF SendTranscript
<1>2. CASE SendThinking
  <2>1. TasksRest /\ eventsQ' = eventsQ BY <1>2 DEF SendThinking, TasksRest
  <2>2. main = "thinking" /\ Deliver(Signal("thinking"), "tools", FALSE)
    BY <1>2 DEF SendThinking
  <2> QED BY <1>0, <2>1, <2>2, DeliverIs, SendingSignal
<1>3. CASE SendStop
  <2>1. TasksRest /\ eventsQ' = eventsQ BY <1>3 DEF SendStop, TasksRest
  <2>2. main = "stop" /\ Deliver(Signal("stop"), "finish", FALSE) BY <1>3 DEF SendStop
  <2> QED BY <1>0, <2>1, <2>2, DeliverIs, SendingSignal
<1>4. CASE SendError
  <2>1. TasksRest /\ eventsQ' = eventsQ /\ abandoned' = abandoned /\ main = "error"
        /\ main' = "recover"
        /\ wire' = IF connected THEN Append(wire, Signal("fail")) ELSE wire
    BY <1>4 DEF SendError, TasksRest
  <2> QED BY <1>0, <2>1, SendingSignal
<1> QED BY <1>1, <1>2, <1>3, <1>4

(* What is left of the queue once its first event has been taken.          *)
LEMMA EventTaken ==
  ASSUME Inv, eventsQ # << >>, eventsQ' = Tail(eventsQ)
  PROVE  /\ Head(eventsQ) \in Events /\ eventsQ' \in Seq(Events)
         /\ Len(eventsQ) \in Nat /\ Len(eventsQ) >= 1 /\ Len(eventsQ') = Len(eventsQ) - 1
         /\ Head(eventsQ) = eventsQ[1]
         /\ \A j \in 1 .. Len(eventsQ') : eventsQ'[j] = eventsQ[j + 1]
<1>1. eventsQ \in Seq(Events) BY DEF Inv, Typed
<1>2. Head(eventsQ) = eventsQ[1] OBVIOUS
<1> QED BY <1>1, <1>2, HeadTailProperties, EmptySeq

(* The end marker stays last in its queue.                                 *)
LEMMA NoneStaysLast ==
  ASSUME Inv, eventsQ # << >>, eventsQ' = Tail(eventsQ), main' \in {main, "recover"},
         TasksRest, main \in {"consume", "capConsume"}
  PROVE  NoneIsLast'
<1>1. /\ Len(eventsQ) \in Nat /\ Len(eventsQ) >= 1 /\ Len(eventsQ') = Len(eventsQ) - 1
      /\ \A j \in 1 .. Len(eventsQ') : eventsQ'[j] = eventsQ[j + 1]
  BY EventTaken
<1>2. \A j \in 1 .. Len(eventsQ') : j + 1 \in 1 .. Len(eventsQ) BY <1>1
<1>3. ASSUME NEW j \in 1 .. Len(eventsQ'), eventsQ'[j].kind = "none"
      PROVE  j = Len(eventsQ') /\ tts.st \in (IF AtCap THEN {"done"} ELSE {"done", "failed"})
  <2>1. j + 1 \in 1 .. Len(eventsQ) /\ eventsQ[j + 1].kind = "none" BY <1>1, <1>2, <1>3
  <2>2. j + 1 = Len(eventsQ) /\ tts.st \in (IF AtCap THEN {"done"} ELSE {"done", "failed"})
    BY <2>1 DEF Inv, NoneIsLast, Capped
  <2>4. j \in Int BY <1>1
  <2>5. Len(eventsQ') = Len(eventsQ) - 1 /\ Len(eventsQ) \in Int BY <1>1
  <2>3. j = Len(eventsQ') BY ONLY <2>2, <2>4, <2>5
  <2> QED BY <2>2, <2>3
<1>4. ASSUME main = "capConsume", NEW j \in 1 .. Len(eventsQ')
      PROVE  eventsQ'[j].kind # "tts_start"
  BY <1>1, <1>2, <1>4 DEF Inv, NoneIsLast, Capped
<1>5. tts' = tts /\ iteration' = iteration BY DEF TasksRest
<1> QED BY <1>3, <1>4, <1>5 DEF NoneIsLast, Capped, AtCap

(* A sentence or a frame goes from the queue to the device, or is lost, or *)
(* ends the turn.                                                          *)
LEMMA SpeakingEvent ==
  ASSUME Inv, main \in {"consume", "capConsume"}, eventsQ # << >>, eventsQ' = Tail(eventsQ),
         NEW e, e = Head(eventsQ), e.kind \in {"sentence", "frame"},
         Deliver(e, main, TRUE), TasksRest
  PROVE  Inv'
<1>0. connected \in BOOLEAN /\ wire \in Seq(Sendable) BY DEF Inv, Typed
<1>1. /\ connected => wire' = Append(wire, e) /\ main' = main /\ abandoned' = abandoned
      /\ ~connected => wire' = wire
      /\ \/ main' = main /\ abandoned' = abandoned
         \/ main' = "recover" /\ abandoned' = TRUE
  BY <1>0, DeliverIs
<1>2. e \in Events /\ eventsQ' \in Seq(Events) BY EventTaken
<1>3. e \in Sendable BY <1>2 DEF Events, Sendable
<1>4. /\ connected => /\ wire' \in Seq(Sendable)
                      /\ Contract!Kinds(wire') = Contract!Kinds(wire) \cup {e.kind}
                      /\ Announced \in Nat /\ Framed \in Nat
                      /\ Announced' = Announced + (IF e.kind = "sentence" THEN 1 ELSE 0)
                      /\ Framed' = Framed + (IF e.kind = "frame" THEN 1 ELSE 0)
                      /\ Sent("sentence")'
                           = Sent("sentence") \cup (IF e.kind = "sentence" THEN {e.n} ELSE {})
      /\ ~connected => wire' = wire /\ Announced' = Announced
                       /\ Sent("sentence")' = Sent("sentence")
  <2>1. CASE connected
    <3>1. wire' = Append(wire, e) BY <1>1, <2>1
    <3> QED BY <1>0, <1>3, <2>1, <3>1, WireGrew
  <2>2. CASE ~connected BY <1>1, <2>2, WireStayed
  <2> QED BY <2>1, <2>2
<1>5. Replied(history)' = Replied(history) /\ Replied(saved)' = Replied(saved)
  BY HistoryStayed DEF TasksRest
<1>6. Typed'
  <2>1. wire' \in Seq(Sendable) BY <1>0, <1>1, <1>4
  <2>2. main' \in {"consume", "capConsume", "recover"} BY <1>1
  <2>3. iteration' = iteration /\ llm' = llm /\ tts' = tts /\ sentenceQ' = sentenceQ
        /\ frameIndex' = frameIndex /\ history' = history /\ saved' = saved
        /\ connected' = connected
    BY DEF TasksRest
  <2>4. abandoned' \in BOOLEAN
    <3>1. abandoned \in BOOLEAN BY DEF Inv, Typed
    <3> QED BY <1>1, <3>1
  <2> QED BY <1>2, <2>1, <2>2, <2>3, <2>4 DEF Inv, Typed
<1>7. LlmFits' BY DEF Inv, LlmFits, TasksRest
<1>8. PlaceFits'
  BY <1>1 DEF Inv, PlaceFits, TasksRest, Silent, Hopping, Capped, Replying, AtCap
<1>9. SentencesFit' BY <1>1 DEF Inv, SentencesFit, TasksRest, Hopping
<1>10. NoneIsLast' BY <1>1, NoneStaysLast
<1>11. connected => /\ e.kind = "sentence" => e.n = Announced + 1
                    /\ InOrder(eventsQ', Announced', Framed', tts.s, frameIndex)
                    /\ Announced' <= tts.s
  <2> SUFFICES ASSUME connected
               PROVE  /\ e.kind = "sentence" => e.n = Announced + 1
                      /\ InOrder(eventsQ', Announced', Framed', tts.s, frameIndex)
                      /\ Announced' <= tts.s
    OBVIOUS
  <2>1. InOrder(eventsQ, Announced, Framed, tts.s, frameIndex)
    BY DEF Inv, EventsFit, Hopping
  <2>2. eventsQ \in Seq(Events) BY DEF Inv, Typed
  <2>3. PICK s1 \in Nat, f1 \in Nat :
          /\ Follows(e, Announced, Framed, s1, f1) /\ s1 <= tts.s
          /\ InOrder(eventsQ', s1, f1, tts.s, frameIndex)
    BY <2>1, <2>2, TailInOrder
  <2>4. s1 = Announced' /\ f1 = Framed' BY <1>4, <2>3 DEF Follows
  <2> QED BY <2>3, <2>4 DEF Follows
<1>12. EventsFit'
  <2>1. main = "capConsume" /\ connected => Announced = 1 /\ tts.s = 1
    BY DEF Inv, EventsFit, PlaceFits, Capped
  <2>2. main = "capConsume" /\ connected => Announced' = 1 BY <1>4, <1>11, <2>1
  <2> QED BY <1>1, <1>11, <2>2 DEF EventsFit, Hopping, TasksRest
<1>13. RepliesFit'
  <2>1. ~Replied(history) BY DEF Inv, RepliesFit
  <2> QED BY <1>1, <1>5, <2>1 DEF RepliesFit, Replying
<1>14. WireFits'
  <2>1. Sent("sentence")' = 1 .. Announced'
    <3>1. Sent("sentence") = 1 .. Announced BY DEF Inv, WireFits
    <3>2. CASE connected
      <4>1. CASE e.kind = "sentence"
        <5>1. Announced' = Announced + 1 /\ Announced \in Nat
              /\ Sent("sentence")' = Sent("sentence") \cup {Announced + 1}
          BY <1>4, <1>11, <3>2, <4>1
        <5>2. \A n \in Nat : 1 .. n + 1 = 1 .. n \cup {n + 1} OBVIOUS
        <5>3. 1 .. Announced + 1 = 1 .. Announced \cup {Announced + 1} BY <5>1, <5>2
        <5> QED BY ONLY <3>1, <5>1, <5>3
      <4>2. CASE e.kind # "sentence"
        <5>1. Announced' = Announced + 0 /\ Announced \in Nat
              /\ Sent("sentence")' = Sent("sentence") \cup {}
          BY <1>4, <3>2, <4>2
        <5>2. Announced' = Announced /\ Sent("sentence")' = Sent("sentence") BY <5>1
        <5> QED BY ONLY <3>1, <5>2
      <4> QED BY <4>1, <4>2
    <3>3. CASE ~connected BY <1>4, <3>1, <3>3
    <3> QED BY <3>2, <3>3
  <2>2. CASE connected
    BY <1>1, <1>4, <1>5, <2>1, <2>2 DEF Inv, WireFits, Hopping, Capped, Replying, TasksRest
  <2>3. CASE ~connected
    BY <1>1, <1>4, <1>5, <2>1, <2>3 DEF Inv, WireFits, Hopping, Capped, Replying, TasksRest
  <2> QED BY <2>2, <2>3
<1> QED BY <1>6, <1>7, <1>8, <1>9, <1>10, <1>12, <1>13, <1>14 DEF Inv

(* tts_start only tells that there will be speech; the sentinel ends the   *)
(* consumer loop.                                                          *)
LEMMA SilentEvent ==
  ASSUME Inv, main \in {"consume", "capConsume"}, eventsQ # << >>, eventsQ' = Tail(eventsQ),
         UNCHANGED <<wire, abandoned>>, TasksRest,
         \/ Head(eventsQ).kind = "tts_start" /\ main = "consume" /\ main' = main
         \/ /\ Head(eventsQ).kind = "none"
            /\ main' = IF main = "consume" THEN "gather" ELSE "remember"
  PROVE  Inv'
<1> DEFINE e == Head(eventsQ)
<1>1. /\ e \in Events /\ eventsQ' \in Seq(Events) /\ Len(eventsQ) \in Nat /\ Len(eventsQ) >= 1
      /\ Len(eventsQ') = Len(eventsQ) - 1 /\ e = eventsQ[1]
  BY EventTaken
<1> HIDE DEF e
<1>2. e.kind = "none" =>
        /\ eventsQ' = << >>
        /\ tts.st \in {"done", "failed"} /\ (AtCap => tts.st = "done")
  <2> SUFFICES ASSUME e.kind = "none"
               PROVE  /\ eventsQ' = << >>
                      /\ tts.st \in {"done", "failed"} /\ (AtCap => tts.st = "done")
    OBVIOUS
  <2>1. 1 \in 1 .. Len(eventsQ) BY <1>1
  <2>2. 1 = Len(eventsQ) /\ tts.st \in (IF AtCap THEN {"done"} ELSE {"done", "failed"})
    BY <1>1, <2>1 DEF Inv, NoneIsLast, Capped
  <2>3. Len(eventsQ') = 0 BY <1>1, <2>2
  <2>4. eventsQ' = << >> BY <1>1, <2>3, EmptySeq
  <2> QED BY <2>2, <2>4
<1>3. Announced' = Announced /\ Framed' = Framed /\ Sent("sentence")' = Sent("sentence")
  BY WireStayed
<1>4. Replied(history)' = Replied(history) /\ Replied(saved)' = Replied(saved)
  BY HistoryStayed DEF TasksRest
<1>5. Typed'
  <2>1. main' \in {"consume", "gather", "remember"} BY DEF e
  <2> QED BY <1>1, <2>1 DEF Inv, Typed, TasksRest
<1>6. LlmFits' BY DEF Inv, LlmFits, TasksRest
<1>7. PlaceFits'
  <2>1. CASE main = "consume"
    <3>1. main' = "consume" \/ (main' = "gather" /\ e.kind = "none") BY <2>1 DEF e
    <3> QED BY <1>2, <2>1, <3>1
            DEF Inv, PlaceFits, TasksRest, Silent, Hopping, Capped, Replying, AtCap
  <2>2. CASE main = "capConsume"
    <3>1. main' = "remember" /\ e.kind = "none" BY <2>2 DEF e
    <3>2. AtCap /\ llm.st = "done" /\ llm.queued = 1 /\ ~abandoned
      BY <2>2 DEF Inv, PlaceFits, Capped
    <3>3. llm.text BY <3>2 DEF Inv, LlmFits
    <3> QED BY <1>2, <2>2, <3>1, <3>2, <3>3
            DEF PlaceFits, TasksRest, Silent, Hopping, Capped, Replying
  <2> QED BY <2>1, <2>2
<1>8. SentencesFit' BY DEF Inv, SentencesFit, TasksRest, Hopping
<1>9. NoneIsLast'
  <2>1. CASE main' = main BY <2>1, NoneStaysLast
  <2>2. CASE main' \in {"gather", "remember"} BY <2>2 DEF NoneIsLast, Capped
  <2> QED BY <2>1, <2>2
<1>10. EventsFit'
  <2>1. ASSUME connected, main = "consume"
        PROVE  InOrder(eventsQ', Announced, Framed, tts.s, frameIndex)
    <3>1. InOrder(eventsQ, Announced, Framed, tts.s, frameIndex)
      BY <2>1 DEF Inv, EventsFit, Hopping
    <3>2. eventsQ \in Seq(Events) BY DEF Inv, Typed
    <3>3. PICK s1 \in Nat, f1 \in Nat :
            /\ Follows(e, Announced, Framed, s1, f1) /\ s1 <= tts.s
            /\ InOrder(eventsQ', s1, f1, tts.s, frameIndex)
      BY <3>1, <3>2, TailInOrder DEF e
    <3>4. e.kind \in {"tts_start", "none"} BY DEF e
    <3>5. s1 = Announced /\ f1 = Framed BY <3>3, <3>4 DEF Follows
    <3> QED BY <3>3, <3>5
  <2>2. main' \in {"consume", "gather"} => main = "consume" OBVIOUS
  <2>3. main' \notin {"capSay", "capConsume"} OBVIOUS
  <2> QED BY <1>3, <2>1, <2>2, <2>3 DEF EventsFit, Hopping, TasksRest
<1>11. RepliesFit'
  <2>1. ~Replied(history) BY DEF Inv, RepliesFit
  <2>2. main' = "remember" /\ connected => Announced = llm.queued
    BY DEF Inv, EventsFit, PlaceFits, Capped
  <2> QED BY <1>3, <1>4, <2>1, <2>2 DEF RepliesFit, Replying, TasksRest
<1>12. WireFits'
  BY <1>3, <1>4 DEF Inv, WireFits, Hopping, Capped, Replying, TasksRest
<1> QED BY <1>5, <1>6, <1>7, <1>8, <1>9, <1>10, <1>11, <1>12 DEF Inv

LEMMA ConsumeKeepsInv == ASSUME Inv, Consume \/ CapConsume PROVE Inv'
<1>1. eventsQ # << >> /\ eventsQ' = Tail(eventsQ) /\ TasksRest
      /\ Head(eventsQ).kind \in EventKinds
  <2>1. eventsQ # << >> /\ eventsQ' = Tail(eventsQ) /\ TasksRest
    BY DEF Consume, CapConsume, TasksRest
  <2> QED BY <2>1, EventTaken DEF Events
<1>2. CASE Consume
  <2>1. main = "consume" BY <1>2 DEF Consume
  <2>2. CASE Head(eventsQ).kind = "none"
    <3>1. main' = "gather" /\ UNCHANGED <<wire, abandoned>> BY <1>2, <2>2 DEF Consume
    <3> QED BY <1>1, <2>1, <2>2, <3>1, SilentEvent
  <2>3. CASE Head(eventsQ).kind = "tts_start"
    <3>1. UNCHANGED <<main, wire, abandoned>> BY <1>2, <2>3 DEF Consume
    <3> QED BY <1>1, <2>1, <2>3, <3>1, SilentEvent
  <2>4. CASE Head(eventsQ).kind \in {"sentence", "frame"}
    <3>1. Deliver(Head(eventsQ), main, TRUE) BY <1>2, <2>1, <2>4 DEF Consume
    <3> QED BY <1>1, <2>1, <2>4, <3>1, SpeakingEvent
  <2> QED BY <1>1, <2>2, <2>3, <2>4 DEF EventKinds
<1>3. CASE CapConsume
  <2>1. main = "capConsume" BY <1>3 DEF CapConsume
  <2>2. CASE Head(eventsQ).kind = "none"
    <3>1. main' = "remember" /\ UNCHANGED <<wire, abandoned>> BY <1>3, <2>2 DEF CapConsume
    <3> QED BY <1>1, <2>1, <2>2, <3>1, SilentEvent
  <2>3. Head(eventsQ).kind # "tts_start"
    <3>1. Head(eventsQ) = eventsQ[1] /\ 1 \in 1 .. Len(eventsQ) BY <1>1, EventTaken
    <3> QED BY <2>1, <3>1 DEF Inv, NoneIsLast, Capped
  <2>4. CASE Head(eventsQ).kind \in {"sentence", "frame"}
    <3>1. Deliver(Head(eventsQ), main, TRUE) BY <1>3, <2>1, <2>4 DEF CapConsume
    <3> QED BY <1>1, <2>1, <2>4, <3>1, SpeakingEvent
  <2> QED BY <1>1, <2>2, <2>3, <2>4 DEF EventKinds
<1> QED BY <1>2, <1>3

(* The capped reply is announced by the main coroutine itself.             *)
LEMMA CapSayKeepsInv == ASSUME Inv, CapSay PROVE Inv'
<1> DEFINE m == Message("sentence", 1, 0)
<1>0. connected \in BOOLEAN /\ wire \in Seq(Sendable) BY DEF Inv, Typed
<1>1. main = "capSay" /\ TasksRest /\ eventsQ' = eventsQ /\ Deliver(m, "capConsume", FALSE)
  BY DEF CapSay, TasksRest
<1>2. m \in Sendable /\ m.kind = "sentence" /\ m.n = 1 BY DEF Message, Sendable
<1> HIDE DEF m
<1>3. /\ connected => wire' = Append(wire, m) /\ main' = "capConsume" /\ abandoned' = abandoned
      /\ ~connected => wire' = wire
      /\ \/ main' = "capConsume" /\ abandoned' = abandoned
         \/ main' = "recover" /\ abandoned' = FALSE
  BY <1>0, <1>1, DeliverIs
<1>4. /\ AtCap /\ llm.st = "done" /\ llm.queued = 1 /\ tts.s = 1 /\ ~abandoned
      /\ InOrder(eventsQ, 1, 0, 1, frameIndex) /\ ~Replied(history)
      /\ connected => Announced = 0 /\ Framed = 0 /\ "start" \in Contract!Kinds(wire)
  BY <1>1 DEF Inv, PlaceFits, EventsFit, RepliesFit, WireFits, Capped, Replying
<1>5. /\ connected => /\ wire' \in Seq(Sendable)
                      /\ Contract!Kinds(wire') = Contract!Kinds(wire) \cup {"sentence"}
                      /\ Announced' = 1 /\ Framed' = 0
                      /\ Sent("sentence")' = Sent("sentence") \cup {1}
      /\ ~connected => wire' = wire /\ Announced' = Announced
                       /\ Sent("sentence")' = Sent("sentence")
  <2>1. CASE connected
    <3>1. wire' = Append(wire, m) BY <1>3, <2>1
    <3>2. /\ wire' \in Seq(Sendable)
          /\ Contract!Kinds(wire') = Contract!Kinds(wire) \cup {m.kind}
          /\ Announced' = Announced + (IF m.kind = "sentence" THEN 1 ELSE 0)
          /\ Framed' = Framed + (IF m.kind = "frame" THEN 1 ELSE 0)
          /\ Sent("sentence")' = Sent("sentence") \cup (IF m.kind = "sentence" THEN {m.n} ELSE {})
      BY <1>0, <1>2, <3>1, WireGrew
    <3> QED BY <1>2, <1>4, <2>1, <3>2
  <2>2. CASE ~connected BY <1>3, <2>2, WireStayed
  <2> QED BY <2>1, <2>2
<1>6. Replied(history)' = Replied(history) /\ Replied(saved)' = Replied(saved)
  BY <1>1, HistoryStayed DEF TasksRest
<1>7. Typed'
  <2>1. wire' \in Seq(Sendable) BY <1>0, <1>3, <1>5
  <2>2. main' \in {"capConsume", "recover"} BY <1>3
  <2>3. iteration' = iteration /\ llm' = llm /\ tts' = tts /\ sentenceQ' = sentenceQ
        /\ frameIndex' = frameIndex /\ history' = history /\ saved' = saved
        /\ connected' = connected /\ eventsQ' = eventsQ
    BY <1>1 DEF TasksRest
  <2>4. abandoned' \in BOOLEAN
    <3>1. abandoned \in BOOLEAN BY DEF Inv, Typed
    <3> QED BY <1>3, <3>1
  <2> QED BY <2>1, <2>2, <2>3, <2>4 DEF Inv, Typed
<1>8. LlmFits' BY <1>1 DEF Inv, LlmFits, TasksRest
<1>9. PlaceFits'
  BY <1>1, <1>3, <1>4 DEF Inv, PlaceFits, TasksRest, Silent, Hopping, Capped, Replying, AtCap
<1>10. SentencesFit' BY <1>3 DEF SentencesFit, Hopping
<1>11. NoneIsLast'
  BY <1>1, <1>3 DEF Inv, NoneIsLast, TasksRest, Capped, AtCap
<1>12. EventsFit'
  <2>1. connected /\ main' = "capConsume" =>
          InOrder(eventsQ', Announced', Framed', tts'.s, frameIndex') /\ Announced' = 1
    BY <1>1, <1>4, <1>5 DEF TasksRest
  <2> QED BY <1>1, <1>3, <2>1 DEF EventsFit, Hopping, TasksRest
<1>13. RepliesFit' BY <1>3, <1>4, <1>6 DEF RepliesFit, Replying
<1>14. WireFits'
  <2>1. Sent("sentence")' = 1 .. Announced'
    <3>1. Sent("sentence") = 1 .. Announced BY DEF Inv, WireFits
    <3>2. CASE connected
      <4>1. Sent("sentence") = 1 .. 0 BY <1>4, <3>1, <3>2
      <4>2. Sent("sentence")' = {1} BY <1>5, <3>2, <4>1
      <4>3. 1 .. Announced' = {1} BY <1>5, <3>2
      <4> QED BY <4>2, <4>3
    <3>3. CASE ~connected BY <1>5, <3>1, <3>3
    <3> QED BY <3>2, <3>3
  <2>2. CASE connected
    BY <1>1, <1>3, <1>4, <1>5, <1>6, <2>1, <2>2 DEF Inv, WireFits, Hopping, Capped, Replying, TasksRest
  <2>3. CASE ~connected
    BY <1>1, <1>3, <1>5, <1>6, <2>1, <2>3 DEF Inv, WireFits, Hopping, Capped, Replying, TasksRest
  <2> QED BY <2>2, <2>3
<1> QED BY <1>7, <1>8, <1>9, <1>10, <1>11, <1>12, <1>13, <1>14 DEF Inv

(* A step that only moves the main coroutine on and changes the history.   *)
QuietlyMoves ==
  /\ UNCHANGED <<llm, tts, sentenceQ, eventsQ, frameIndex, wire, connected, abandoned>>
  /\ iteration' \in 0 .. MaxIterations /\ history' \in Seq(Turns) /\ saved' \in Seq(Turns)

NoReplyYet == ~Replied(history)'
HistoryKept == history' = history /\ saved' \in {history, saved}

(* A move of the main coroutine that sends nothing.                        *)
LEMMA QuietMove ==
  ASSUME Inv, QuietlyMoves, iteration' = iteration \/ (main = "tools" /\ main' = "hop"),
         \/ main = "transcribe" /\ main' \in {"sendStt", "error"} /\ NoReplyYet
         \/ main = "gather" /\ main' = "error" /\ HistoryKept
         \/ /\ main = "gather" /\ main' = "remember" /\ HistoryKept
            /\ llm.st = "done" /\ tts.st = "done" /\ llm.text
         \/ /\ main = "gather" /\ main' = "thinking" /\ HistoryKept
            /\ llm.st = "done" /\ tts.st = "done" /\ ~llm.text
         \/ main = "tools" /\ main' \in {"hop", "error"} /\ NoReplyYet
         \/ main = "hop" /\ main' = "error" /\ HistoryKept
         \/ main = "remember" /\ main' = "stop" /\ Replied(history)' /\ Replied(saved)'
         \/ main = "remember" /\ main' = "error" /\ Replied(history)'
         \/ main = "finish" /\ main' \in {"ended", "error"} /\ HistoryKept
         \/ main = "recover" /\ main' = "ended" /\ HistoryKept
  PROVE  Inv'
<1>1. Announced' = Announced /\ Framed' = Framed /\ Sent("sentence")' = Sent("sentence")
  BY WireStayed DEF QuietlyMoves
<1>2. HistoryKept => /\ Replied(history)' = Replied(history)
                     /\ Replied(saved)' \in {Replied(history), Replied(saved)}
  BY DEF HistoryKept, Replied
<1>3. llm' = llm /\ tts' = tts /\ sentenceQ' = sentenceQ /\ eventsQ' = eventsQ
      /\ frameIndex' = frameIndex /\ wire' = wire /\ connected' = connected
      /\ abandoned' = abandoned
  BY DEF QuietlyMoves
<1>4. Typed'
  <2>1. main' \in {"sendStt", "hop", "thinking", "remember", "stop", "error", "ended"} OBVIOUS
  <2> QED BY <1>3, <2>1 DEF Inv, Typed, QuietlyMoves
<1>5. LlmFits' BY <1>3 DEF Inv, LlmFits
<1>6. MaxIterations \in Nat /\ iteration \in Nat BY PipelineAssumption DEF Inv, Typed
<1>7. PlaceFits'
  <2>1. CASE iteration' = iteration
    BY <1>3, <2>1 DEF Inv, PlaceFits, Silent, Hopping, Capped, Replying, AtCap
  <2>2. CASE main = "tools" /\ main' = "hop"
    BY <1>3, <2>2 DEF Inv, PlaceFits, Silent, Hopping, Capped, Replying, AtCap
  <2> QED BY <2>1, <2>2
<1>8. SentencesFit' /\ NoneIsLast' /\ EventsFit'
  BY DEF SentencesFit, NoneIsLast, EventsFit, Hopping, Capped
<1>9. main = "gather" /\ connected => tts.s = Announced /\ frameIndex = Framed
  <2> SUFFICES ASSUME main = "gather", connected PROVE tts.s = Announced /\ frameIndex = Framed
    OBVIOUS
  <2>1. InOrder(<< >>, Announced, Framed, tts.s, frameIndex)
    BY DEF Inv, PlaceFits, EventsFit, Hopping
  <2>2. Announced \in Nat /\ Framed \in Nat BY NumberIs DEF Inv, Typed, Announced, Framed
  <2> QED BY <2>1, <2>2, EmptyInOrder
<1>10. main = "gather" /\ tts.st = "done" => tts.s = llm.queued
  BY DEF Inv, SentencesFit, Hopping
<1>11. main = "gather" /\ connected /\ tts.st = "done" => Announced = llm.queued
  BY <1>9, <1>10
<1>12. main = "gather" /\ connected /\ tts.st = "done" /\ ~llm.text => Announced = 0 /\ Framed = 0
  <2> SUFFICES ASSUME main = "gather", connected, tts.st = "done", ~llm.text
               PROVE  Announced = 0 /\ Framed = 0
    OBVIOUS
  <2>1. llm.queued = 0
    <3>1. llm.queued \in Nat BY PipelineAssumption DEF Inv, Typed
    <3> QED BY <3>1 DEF Inv, LlmFits
  <2>2. frameIndex = 0 BY <1>10, <2>1 DEF Inv, SentencesFit, Hopping
  <2> QED BY <1>9, <1>10, <2>1, <2>2
<1>13. RepliesFit'
  BY <1>1, <1>2, <1>3, <1>11 DEF Inv, RepliesFit, PlaceFits, Replying, NoReplyYet
<1>14. "stop" \in Contract!Kinds(wire) => main \in {"finish", "error", "recover", "ended"}
  BY DEF Inv, WireFits
<1>15. WireFits'
  <2>1. "stop" \in Contract!Kinds(wire) => Replied(history)' /\ Replied(saved)'
    BY <1>2, <1>14 DEF Inv, WireFits
  <2> QED BY <1>1, <1>3, <1>12, <2>1 DEF Inv, WireFits, Hopping, Capped, Replying
<1> QED BY <1>4, <1>5, <1>7, <1>8, <1>13, <1>15 DEF Inv

LEMMA TranscribeKeepsInv == ASSUME Inv, Transcribe PROVE Inv'
<1>1. main = "transcribe" BY DEF Transcribe
<1>2. ~Replied(history) BY <1>1 DEF Inv, RepliesFit
<1>3. history \in Seq(Turns) /\ saved \in Seq(Turns) /\ iteration \in 0 .. MaxIterations
  BY DEF Inv, Typed
<1>4. CASE history' = AddMessage(history, Turn("user")) /\ Save(history', "sendStt")
  <2>1. history' \in Seq(Turns) /\ ~Replied(AddMessage(history, Turn("user")))
    BY <1>2, <1>3, <1>4, HistoryGrew
  <2>2. NoReplyYet BY <1>4, <2>1 DEF NoReplyYet, Replied
  <2>3. main' \in {"sendStt", "error"} /\ saved' \in {history', saved} BY <1>4 DEF Save
  <2>4. QuietlyMoves /\ iteration' = iteration
    BY <1>3, <2>1, <2>3 DEF Transcribe, QuietlyMoves
  <2> QED BY <1>1, <2>2, <2>3, <2>4, QuietMove
<1>5. CASE main' = "error" /\ UNCHANGED <<history, saved>>
  <2>1. NoReplyYet BY <1>2, <1>5 DEF NoReplyYet, Replied
  <2>2. QuietlyMoves /\ iteration' = iteration BY <1>3, <1>5 DEF Transcribe, QuietlyMoves
  <2> QED BY <1>1, <1>5, <2>1, <2>2, QuietMove
<1> QED BY <1>4, <1>5 DEF Transcribe

LEMMA GatherKeepsInv == ASSUME Inv, Gather PROVE Inv'
<1>1. main = "gather" /\ HistoryKept /\ iteration' = iteration BY DEF Gather, HistoryKept
<1>2. QuietlyMoves BY DEF Inv, Typed, Gather, QuietlyMoves
<1>3. CASE main' = "error" BY <1>1, <1>2, <1>3, QuietMove
<1>4. CASE llm.st = "done" /\ tts.st = "done" /\ main' # "error"
  <2>1. main' = CASE Verdict = "content" -> "remember"
                  [] Verdict = "tool_calls" -> "thinking"
                  [] OTHER -> "error"
    BY <1>4 DEF Gather
  <2>2. CASE llm.text
    <3>1. main' = "remember" BY <2>1, <2>2 DEF Verdict
    <3> QED BY <1>1, <1>2, <1>4, <2>2, <3>1, QuietMove
  <2>3. CASE ~llm.text
    <3>1. main' = "thinking" BY <1>4, <2>1, <2>3 DEF Verdict
    <3> QED BY <1>1, <1>2, <1>4, <2>3, <3>1, QuietMove
  <2> QED BY <2>2, <2>3
<1> QED BY <1>3, <1>4 DEF Gather

LEMMA RunToolsKeepsInv == ASSUME Inv, RunTools PROVE Inv'
<1> DEFINE a == AddMessage(history, Turn("calls"))
           b == AddMessage(a, Turn("tool"))
<1>1. main = "tools" /\ history' = b /\ Save(history', "hop")
      /\ iteration' = (IF main' = "hop" THEN iteration + 1 ELSE iteration)
  BY DEF RunTools
<1>2. ~Replied(history) /\ history \in Seq(Turns) /\ saved \in Seq(Turns)
  BY <1>1 DEF Inv, Typed, RepliesFit
<1>3. a \in Seq(Turns) /\ ~Replied(a) BY <1>2, HistoryGrew
<1> HIDE DEF a
<1>4. b \in Seq(Turns) /\ ~Replied(b) BY <1>3, HistoryGrew
<1> HIDE DEF b
<1>5. NoReplyYet BY <1>1, <1>4 DEF NoReplyYet, Replied
<1>6. main' \in {"hop", "error"} /\ saved' \in {history', saved} BY <1>1 DEF Save
<1>7. iteration' \in 0 .. MaxIterations
  <2>1. iteration \in 0 .. MaxIterations /\ MaxIterations \in Nat
    BY PipelineAssumption DEF Inv, Typed
  <2>2. iteration # MaxIterations BY <1>1 DEF Inv, PlaceFits, AtCap
  <2> QED BY <1>1, <2>1, <2>2
<1>8. QuietlyMoves BY <1>1, <1>2, <1>4, <1>6, <1>7 DEF RunTools, QuietlyMoves
<1> QED BY <1>1, <1>5, <1>6, <1>8, QuietMove

LEMMA RememberKeepsInv == ASSUME Inv, Remember PROVE Inv'
<1>1. main = "remember" /\ history' = AddMessage(history, Turn("assistant"))
      /\ Save(history', "stop") /\ iteration' = iteration
  BY DEF Remember
<1>2. history \in Seq(Turns) /\ saved \in Seq(Turns) /\ iteration \in 0 .. MaxIterations
  BY DEF Inv, Typed
<1>3. history' \in Seq(Turns) /\ Replied(AddMessage(history, Turn("assistant")))
  BY <1>1, <1>2, HistoryGrew
<1>4. Replied(history)' BY <1>1, <1>3 DEF Replied
<1>5. \/ saved' = history' /\ main' = "stop"
      \/ saved' = saved /\ main' = "error"
  BY <1>1 DEF Save
<1>6. saved' = history' => Replied(saved)' BY <1>4 DEF Replied
<1>7. QuietlyMoves BY <1>1, <1>2, <1>3, <1>5 DEF Remember, QuietlyMoves
<1> QED BY <1>1, <1>4, <1>5, <1>6, <1>7, QuietMove

LEMMA EndingKeepsInv == ASSUME Inv, Finish \/ Recover PROVE Inv'
<1>1. history \in Seq(Turns) /\ saved \in Seq(Turns) /\ iteration \in 0 .. MaxIterations
  BY DEF Inv, Typed
<1>2. CASE Finish
  <2>1. main = "finish" /\ Save(history, "ended") /\ history' = history /\ iteration' = iteration
    BY <1>2 DEF Finish
  <2>2. main' \in {"ended", "error"} /\ HistoryKept BY <2>1 DEF Save, HistoryKept
  <2>3. QuietlyMoves BY <1>1, <1>2, <2>2 DEF Finish, QuietlyMoves, HistoryKept
  <2> QED BY <2>1, <2>2, <2>3, QuietMove
<1>3. CASE Recover
  <2>1. main = "recover" /\ main' = "ended" /\ HistoryKept /\ iteration' = iteration
    BY <1>3 DEF Recover, HistoryKept
  <2>2. QuietlyMoves BY <1>1, <1>3, <2>1 DEF Recover, QuietlyMoves, HistoryKept
  <2> QED BY <2>1, <2>2, QuietMove
<1> QED BY <1>2, <1>3

LEMMA StartHopKeepsInv == ASSUME Inv, StartHop PROVE Inv'
<1>1. /\ main = "hop" /\ ~AtCap /\ main' = "consume"
      /\ llm' = [st |-> "streaming", text |-> FALSE, tools |-> FALSE,
                 residual |-> FALSE, queued |-> 0]
      /\ tts' = [st |-> "waiting", s |-> 0, attempt |-> 0, frames |-> 0]
      /\ sentenceQ' = << >> /\ eventsQ' = << >> /\ frameIndex' = 0
      /\ UNCHANGED <<iteration, history, saved, wire, connected, abandoned>>
  BY DEF StartHop
<1>2. Announced' = Announced /\ Framed' = Framed /\ Sent("sentence")' = Sent("sentence")
  BY <1>1, WireStayed
<1>3. Replied(history)' = Replied(history) /\ Replied(saved)' = Replied(saved)
  BY <1>1, HistoryStayed
<1>4. ~Replied(history) /\ ~abandoned /\ (connected => Announced = 0 /\ Framed = 0)
  BY <1>1 DEF Inv, PlaceFits, RepliesFit, WireFits
<1>5. Len(<< >>) = 0 /\ MaxSentences \in Nat /\ MaxFrames \in Nat BY PipelineAssumption
<1>6. Typed'
  <2>1. << >> \in Seq(0 .. MaxSentences) /\ << >> \in Seq(Events) BY EmptySeq
  <2>2. tts' \in [st : {"idle", "waiting", "speaking", "done", "failed", "cancelled"},
                  s : 0 .. MaxSentences, attempt : 0 .. 2, frames : 0 .. MaxFrames]
        /\ llm' \in [st : {"idle", "streaming", "done", "failed", "cancelled"}, text : BOOLEAN,
                     tools : BOOLEAN, residual : BOOLEAN, queued : 0 .. MaxSentences]
    BY <1>1, <1>5
  <2>3. sentenceQ' \in Seq(0 .. MaxSentences) /\ eventsQ' \in Seq(Events) BY <1>1, <2>1
  <2> QED BY <1>1, <2>2, <2>3 DEF Inv, Typed
<1>7. LlmFits' BY <1>1, <1>5 DEF LlmFits
<1>8. PlaceFits' BY <1>1, <1>4 DEF PlaceFits, Silent, Hopping, Capped, Replying, AtCap
<1>9. SentencesFit' /\ NoneIsLast' BY <1>1, <1>5 DEF SentencesFit, NoneIsLast, Capped
<1>10. EventsFit'
  <2>1. InOrder(<< >>, 0, 0, 0, 0) BY EmptyInOrder
  <2>2. connected' => InOrder(eventsQ', Announced', Framed', tts'.s, frameIndex')
    BY <1>1, <1>2, <1>4, <2>1
  <2> QED BY <1>1, <2>2 DEF EventsFit, Hopping
<1>11. RepliesFit' BY <1>1, <1>3, <1>4 DEF RepliesFit, Replying
<1>12. WireFits' BY <1>1, <1>2, <1>3 DEF Inv, WireFits, Hopping, Capped, Replying
<1> QED BY <1>6, <1>7, <1>8, <1>9, <1>10, <1>11, <1>12 DEF Inv

LEMMA CapReplyKeepsInv == ASSUME Inv, CapReply PROVE Inv'
<1>1. /\ main = "hop" /\ AtCap
      /\ UNCHANGED <<iteration, sentenceQ, history, saved, wire, connected, abandoned>>
  BY DEF CapReply
<1>2. CASE main' = "error" /\ UNCHANGED <<llm, tts, eventsQ, frameIndex>>
  <2>1. HistoryKept BY <1>1 DEF HistoryKept
  <2>2. QuietlyMoves BY <1>1, <1>2 DEF Inv, Typed, QuietlyMoves
  <2> QED BY <1>1, <1>2, <2>1, <2>2, QuietMove
<1>3. CASE /\ main' = "capSay"
           /\ llm' = [llm EXCEPT !.text = TRUE, !.queued = 1]
           /\ tts' = [st |-> "speaking", s |-> 1, attempt |-> 1, frames |-> 0]
           /\ eventsQ' = << >> /\ frameIndex' = 0
  <2>1. Announced' = Announced /\ Framed' = Framed /\ Sent("sentence")' = Sent("sentence")
    BY <1>1, WireStayed
  <2>2. Replied(history)' = Replied(history) /\ Replied(saved)' = Replied(saved)
    BY <1>1, HistoryStayed
  <2>3. /\ ~Replied(history) /\ ~abandoned /\ (connected => Announced = 0 /\ Framed = 0)
        /\ ~llm.text
    BY <1>1 DEF Inv, PlaceFits, RepliesFit, WireFits, Silent
  <2>4. Len(<< >>) = 0 /\ MaxSentences \in Nat \ {0} /\ MaxFrames \in Nat
        /\ MaxIterations \in Nat \ {0}
    BY PipelineAssumption
  <2>5. llm.st = "done"
    <3>1. iteration > 0 BY <1>1, <2>4 DEF AtCap
    <3> QED BY <1>1, <3>1 DEF Inv, PlaceFits
  <2>6. ~llm.residual BY <2>3 DEF Inv, LlmFits
  <2>7. llm' = [st |-> "done", text |-> TRUE, tools |-> llm.tools, residual |-> llm.residual,
                queued |-> 1]
    BY <1>3, <2>5 DEF Inv, Typed
  <2>8. Typed'
    <3>1. << >> \in Seq(Events) BY EmptySeq
    <3>2. tts' \in [st : {"idle", "waiting", "speaking", "done", "failed", "cancelled"},
                    s : 0 .. MaxSentences, attempt : 0 .. 2, frames : 0 .. MaxFrames]
      BY <1>3, <2>4
    <3>3. llm' \in [st : {"idle", "streaming", "done", "failed", "cancelled"}, text : BOOLEAN,
                    tools : BOOLEAN, residual : BOOLEAN, queued : 0 .. MaxSentences]
      BY <2>4, <2>7 DEF Inv, Typed
    <3>4. eventsQ' \in Seq(Events) BY <1>3, <3>1
    <3> QED BY <1>1, <1>3, <3>2, <3>3, <3>4 DEF Inv, Typed
  <2>9. LlmFits' BY <2>4, <2>6, <2>7 DEF LlmFits
  <2>10. PlaceFits'
    <3>1. llm'.st = "done" /\ llm'.queued = 1 BY ONLY <2>7
    <3>3. tts'.st = "speaking" /\ tts'.s = 1 BY <1>3
    <3>2. AtCap' /\ main' = "capSay" /\ ~abandoned' BY <1>1, <1>3, <2>3 DEF AtCap
    <3> QED BY ONLY <3>1, <3>2, <3>3 DEF PlaceFits, Silent, Hopping, Capped, Replying
  <2>11. SentencesFit' /\ NoneIsLast'
    BY <1>3, <2>4 DEF SentencesFit, NoneIsLast, Capped, Hopping
  <2>12. EventsFit'
    <3>1. InOrder(<< >>, 1, 0, 1, 0) BY EmptyInOrder
    <3> QED BY <1>3, <3>1 DEF EventsFit, Hopping
  <2>13. RepliesFit' BY <1>1, <1>3, <2>2, <2>3 DEF RepliesFit, Replying
  <2>14. WireFits' BY <1>1, <1>3, <2>1, <2>2 DEF Inv, WireFits, Hopping, Capped, Replying
  <2> QED BY <2>8, <2>9, <2>10, <2>11, <2>12, <2>13, <2>14 DEF Inv
<1> QED BY <1>2, <1>3 DEF CapReply

LEMMA DisconnectKeepsInv == ASSUME Inv, Disconnect \/ UNCHANGED vars PROVE Inv'
<1>1. /\ UNCHANGED <<main, iteration, llm, tts, sentenceQ, eventsQ, frameIndex, history, saved,
                     wire, abandoned>>
      /\ connected' \in BOOLEAN /\ (connected' => connected)
  <2>1. connected \in BOOLEAN BY DEF Inv, Typed
  <2>2. CASE Disconnect BY <2>2 DEF Disconnect
  <2>3. CASE UNCHANGED vars BY <2>1, <2>3 DEF vars
  <2> QED BY <2>2, <2>3
<1>2. Announced' = Announced /\ Framed' = Framed /\ Sent("sentence")' = Sent("sentence")
  BY <1>1, WireStayed
<1>3. Replied(history)' = Replied(history) /\ Replied(saved)' = Replied(saved)
  BY <1>1, HistoryStayed
<1>4. Typed' /\ LlmFits' /\ PlaceFits' /\ SentencesFit' /\ NoneIsLast'
  BY <1>1 DEF Inv, Typed, LlmFits, PlaceFits, SentencesFit, NoneIsLast, Silent, Hopping,
              Capped, Replying, AtCap
<1>5. EventsFit' BY <1>1, <1>2 DEF Inv, EventsFit, Hopping
<1>6. RepliesFit' BY <1>1, <1>2, <1>3 DEF Inv, RepliesFit, Replying
<1>7. WireFits' BY <1>1, <1>2, <1>3 DEF Inv, WireFits, Hopping, Capped, Replying
<1> QED BY <1>4, <1>5, <1>6, <1>7 DEF Inv

LEMMA NextKeepsInv == ASSUME Inv, [Next]_vars PROVE Inv'
BY TasksKeepInv, TranscribeKeepsInv, SignalsKeepInv, StartHopKeepsInv, ConsumeKeepsInv,
   GatherKeepsInv, RunToolsKeepsInv, CapReplyKeepsInv, CapSayKeepsInv, RememberKeepsInv,
   EndingKeepsInv, DisconnectKeepsInv
   DEF Next, MainStep

(* The invariant holds in every state of every behaviour.                  *)
LEMMA InvHolds == Spec => []Inv
<1>1. Init => Inv BY InitInv
<1>2. Inv /\ [Next]_vars => Inv' BY NextKeepsInv
<1> QED BY <1>1, <1>2, PTL DEF Spec

-----------------------------------------------------------------------------
(* The variables of a turn keep their types: the queues hold sentences and *)
(* events only, and the tool loop stops at MAX_TOOL_ITERATIONS.            *)
THEOREM TypeCorrect == Spec => []TypeOK
<1>1. Inv => TypeOK BY TypedIsTypeOK DEF Inv
<1> QED BY <1>1, InvHolds, PTL

(* When the consumer loop of _process_turn is left after a TTS task that   *)
(* did not fail, every sentence the LLM task cut has been announced.       *)
THEOREM DrainedSpeech == Spec => []SpeechIsDrained
<1>1. Inv => SpeechIsDrained
  <2> SUFFICES ASSUME Inv, main = "gather", tts.st = "done"
               PROVE  /\ llm.st \in {"done", "failed"} /\ sentenceQ = << >>
                      /\ connected => Sent("sentence") = 1 .. llm.queued
    BY DEF SpeechIsDrained
  <2>1. llm.st \in {"done", "failed"} /\ sentenceQ = << >> /\ tts.s = llm.queued
    BY DEF Inv, PlaceFits, SentencesFit, Hopping
  <2>2. ASSUME connected PROVE Announced = tts.s
    <3>1. InOrder(<< >>, Announced, Framed, tts.s, frameIndex)
      BY <2>2 DEF Inv, PlaceFits, EventsFit, Hopping
    <3>2. Announced \in Nat /\ Framed \in Nat BY NumberIs DEF Inv, Typed, Announced, Framed
    <3> QED BY <3>1, <3>2, EmptyInOrder
  <2>3. Sent("sentence") = 1 .. Announced BY DEF Inv, WireFits
  <2> QED BY <2>1, <2>2, <2>3
<1> QED BY <1>1, InvHolds, PTL

(* The assistant's reply joins session.conversation_history only when the  *)
(* TTS task is done and, if the device is still there, all of it was sent. *)
THEOREM RememberedRepliesWereSpoken == Spec => []OnlySpokenRepliesAreRemembered
<1>1. Inv => OnlySpokenRepliesAreRemembered
  BY DEF Inv, RepliesFit, WireFits, OnlySpokenRepliesAreRemembered
<1> QED BY <1>1, InvHolds, PTL

(* A device that has seen the normal stop has a session in Redis that      *)
(* holds the reply.                                                        *)
THEOREM StopFollowsSave == Spec => []StopComesAfterSave
<1>1. Inv => StopComesAfterSave
  <2> SUFFICES ASSUME Inv, Sent("stop") # {} PROVE Replied(saved)
    BY DEF StopComesAfterSave
  <2>1. "stop" \in Contract!Kinds(wire) BY DEF Sent, Contract!Kinds
  <2> QED BY <2>1 DEF Inv, WireFits
<1> QED BY <1>1, InvHolds, PTL

-----------------------------------------------------------------------------
(***************************************************************************)
(* The pipeline implements the wire contract.                              *)
(***************************************************************************)
LEMMA AllowedIsSent ==
  ASSUME Inv, NEW m \in Sendable, wire' = Append(wire, m), Contract!Allowed(wire, m)
  PROVE  Contract!Send
<1> DEFINE v == Append(wire, m)
<1>1. wire \in Seq(Sendable) /\ Len(wire) \in Nat BY LenProperties DEF Inv, Typed
<1>2. /\ Len(v) = Len(wire) + 1 /\ v[Len(v)] = m
      /\ SubSeq(v, 1, Len(wire)) = wire
  BY <1>1, AppendProperties
<1> HIDE DEF v
<1>3. wire' = v BY DEF v
<1> QED BY <1>2, <1>3 DEF Contract!Send

(* What lets each message out when the device is still there.              *)
LEMMA SignalIsAllowed ==
  ASSUME Inv, connected, NEW kind \in {"stt", "start", "thinking", "stop", "fail"},
         \/ kind = "stt" /\ main = "sendStt"
         \/ kind = "start" /\ main = "sendStart"
         \/ kind = "thinking" /\ main = "thinking"
         \/ kind = "stop" /\ main = "stop"
         \/ kind = "fail" /\ main = "error"
  PROVE  Signal(kind) \in Sendable /\ Contract!Allowed(wire, Signal(kind))
<1>1. Signal(kind) \in Sendable /\ Signal(kind).kind = kind
  BY DEF Signal, Message, Sendable
<1>2. CASE kind = "stt" BY <1>1, <1>2 DEF Inv, WireFits, Contract!Allowed
<1>3. CASE kind = "start" BY <1>1, <1>3 DEF Inv, WireFits, Contract!Allowed
<1>4. CASE kind = "thinking"
  <2>1. /\ "start" \in Contract!Kinds(wire) /\ Announced = 0
        /\ Contract!Kinds(wire) \cap {"stop", "fail"} = {}
    BY <1>4 DEF Inv, WireFits
  <2> QED BY <1>1, <1>4, <2>1
          DEF Contract!Allowed, Contract!Started, Contract!Over, Announced
<1>5. CASE kind = "stop"
  <2>1. /\ "start" \in Contract!Kinds(wire) /\ Announced = llm.queued
        /\ Contract!Kinds(wire) \cap {"stop", "fail"} = {}
    BY <1>5 DEF Inv, WireFits, RepliesFit, Replying
  <2>2. llm.queued > 0 BY <1>5 DEF Inv, PlaceFits, LlmFits, Replying
  <2> QED BY <1>1, <1>5, <2>1, <2>2
          DEF Contract!Allowed, Contract!Started, Contract!Over, Announced
<1>6. CASE kind = "fail"
  <2>1. /\ wire = << >> \/ "start" \in Contract!Kinds(wire)
        /\ "fail" \notin Contract!Kinds(wire)
    BY <1>6 DEF Inv, WireFits
  <2> QED BY <1>1, <1>6, <2>1 DEF Contract!Allowed, Contract!Started
<1> QED BY <1>1, <1>2, <1>3, <1>4, <1>5, <1>6

(* What the consumer sends is what the contract allows next.               *)
LEMMA EventIsAllowed ==
  ASSUME Inv, connected, main \in {"consume", "capConsume"}, eventsQ # << >>,
         eventsQ' = Tail(eventsQ), Head(eventsQ).kind \in {"sentence", "frame"}
  PROVE  Head(eventsQ) \in Sendable /\ Contract!Allowed(wire, Head(eventsQ))
<1> DEFINE e == Head(eventsQ)
<1>1. e \in Sendable /\ eventsQ \in Seq(Events)
  BY EventTaken DEF Events, Sendable, Inv, Typed
<1> HIDE DEF e
<1>2. InOrder(eventsQ, Announced, Framed, tts.s, frameIndex)
  BY DEF Inv, EventsFit, Hopping
<1>3. PICK s1 \in Nat, f1 \in Nat : Follows(e, Announced, Framed, s1, f1)
  BY <1>1, <1>2, TailInOrder DEF e
<1>4. /\ "start" \in Contract!Kinds(wire)
      /\ Contract!Kinds(wire) \cap {"stop", "fail"} = {}
  BY DEF Inv, WireFits, Hopping, Capped
<1>5. e.kind \in {"sentence", "frame"} BY DEF e
<1>6. Contract!Allowed(wire, e)
  <2>1. CASE e.kind = "sentence"
    <3>1. e.n = Announced + 1 BY <1>3, <2>1 DEF Follows
    <3> QED BY <1>4, <2>1, <3>1
            DEF Contract!Allowed, Contract!Started, Contract!Over, Announced
  <2>2. CASE e.kind = "frame"
    <3>1. e.n > 0 /\ e.n = Announced /\ e.i = Framed BY <1>3, <2>2 DEF Follows
    <3> QED BY <1>4, <2>2, <3>1
            DEF Contract!Allowed, Contract!Started, Contract!Over, Announced, Framed
  <2> QED BY <1>5, <2>1, <2>2
<1> QED BY <1>1, <1>6 DEF e

(* Every step of the turn is a step of the contract, or says nothing.      *)
LEMMA NextIsContract == ASSUME Inv, [Next]_vars PROVE [Contract!Send]_wire
<1>0. connected \in BOOLEAN BY DEF Inv, Typed
<1>1. ASSUME NEW kind \in {"stt", "start", "thinking", "stop", "fail"},
             \/ kind = "stt" /\ main = "sendStt"
             \/ kind = "start" /\ main = "sendStart"
             \/ kind = "thinking" /\ main = "thinking"
             \/ kind = "stop" /\ main = "stop"
             \/ kind = "fail" /\ main = "error",
             connected => wire' = Append(wire, Signal(kind)), ~connected => wire' = wire
      PROVE  [Contract!Send]_wire
  <2>1. CASE connected BY <1>1, <2>1, SignalIsAllowed, AllowedIsSent
  <2>2. CASE ~connected BY <1>1, <2>2
  <2> QED BY <2>1, <2>2
<1>2. CASE SendTranscript
  <2>1. CASE main = "sendStt" /\ Deliver(Signal("stt"), "sendStart", FALSE)
    BY <1>0, <1>1, <2>1, DeliverIs
  <2>2. CASE main = "sendStart" /\ Deliver(Signal("start"), "hop", FALSE)
    BY <1>0, <1>1, <2>2, DeliverIs
  <2> QED BY <1>2, <2>1, <2>2 DEF SendTranscript
<1>3. CASE SendThinking
  <2>1. main = "thinking" /\ Deliver(Signal("thinking"), "tools", FALSE)
    BY <1>3 DEF SendThinking
  <2> QED BY <1>0, <1>1, <2>1, DeliverIs
<1>4. CASE SendStop
  <2>1. main = "stop" /\ Deliver(Signal("stop"), "finish", FALSE) BY <1>4 DEF SendStop
  <2> QED BY <1>0, <1>1, <2>1, DeliverIs
<1>5. CASE SendError
  <2>1. main = "error" /\ wire' = IF connected THEN Append(wire, Signal("fail")) ELSE wire
    BY <1>5 DEF SendError
  <2> QED BY <1>1, <2>1
<1>6. CASE CapSay
  <2> DEFINE m == Message("sentence", 1, 0)
  <2>1. main = "capSay" /\ Deliver(m, "capConsume", FALSE) BY <1>6 DEF CapSay
  <2>2. m \in Sendable /\ m.kind = "sentence" /\ m.n = 1 BY DEF Message, Sendable
  <2> HIDE DEF m
  <2>3. CASE connected
    <3>1. /\ "start" \in Contract!Kinds(wire) /\ Announced = 0
          /\ Contract!Kinds(wire) \cap {"stop", "fail"} = {}
      BY <2>1, <2>3 DEF Inv, WireFits, Capped
    <3>2. Contract!Allowed(wire, m)
      BY <2>2, <3>1 DEF Contract!Allowed, Contract!Started, Contract!Over, Announced
    <3>3. wire' = Append(wire, m) BY <1>0, <2>1, <2>3, DeliverIs
    <3> QED BY <2>2, <3>2, <3>3, AllowedIsSent
  <2>4. CASE ~connected BY <1>0, <2>1, <2>4, DeliverIs
  <2> QED BY <2>3, <2>4
<1>7. CASE Consume \/ CapConsume
  <2>1. /\ eventsQ # << >> /\ eventsQ' = Tail(eventsQ) /\ main \in {"consume", "capConsume"}
        /\ \/ wire' = wire
           \/ \E next : Deliver(Head(eventsQ), next, TRUE)
    BY <1>7 DEF Consume, CapConsume
  <2>2. Head(eventsQ).kind \in EventKinds BY <2>1, EventTaken DEF Events
  <2>3. CASE connected /\ Head(eventsQ).kind \in {"sentence", "frame"}
    <3>1. wire' = Append(wire, Head(eventsQ)) BY <1>7, <2>3 DEF Consume, CapConsume, Deliver
    <3> QED BY <2>1, <2>3, <3>1, EventIsAllowed, AllowedIsSent
  <2>4. CASE ~connected BY <2>1, <2>4 DEF Deliver
  <2>5. CASE Head(eventsQ).kind \in {"tts_start", "none"}
    <3>1. CASE Consume BY <2>5, <3>1 DEF Consume
    <3>2. CASE CapConsume
      <4>1. Head(eventsQ) = eventsQ[1] /\ 1 \in 1 .. Len(eventsQ) BY <2>1, EventTaken
      <4>2. Head(eventsQ).kind # "tts_start"
        BY <3>2, <4>1 DEF CapConsume, Inv, NoneIsLast, Capped
      <4> QED BY <2>5, <3>2, <4>2 DEF CapConsume
    <3> QED BY <1>7, <3>1, <3>2
  <2> QED BY <1>0, <2>2, <2>3, <2>4, <2>5 DEF EventKinds
<1>8. CASE LlmStep \/ TtsStep
  BY <1>8 DEF LlmStep, TtsStep, LlmContent, LlmToolDelta, LlmEnd, LlmRaise, TtsTake, TtsFrame,
              TtsSpoken, TtsFault, TtsCancelled
<1>9. CASE Transcribe \/ StartHop \/ Gather \/ RunTools \/ CapReply \/ Remember
           \/ Finish \/ Recover \/ Disconnect \/ UNCHANGED vars
  BY <1>9 DEF Transcribe, StartHop, Gather, RunTools, CapReply, Remember, Finish, Recover,
              Disconnect, vars
<1> QED BY <1>2, <1>3, <1>4, <1>5, <1>6, <1>7, <1>8, <1>9 DEF Next, MainStep

(* Whatever the providers, the tools, Redis and the device do in a turn,   *)
(* the messages on the WebSocket follow the wire contract.                 *)
THEOREM ImplementsWireContract == Spec => KeepsWireContract
<1>1. Init => Contract!Init BY DEF Init, Contract!Init
<1>2. Inv /\ [Next]_vars => [Contract!Send]_wire BY NextIsContract
<1> QED BY <1>1, <1>2, InvHolds, PTL DEF Spec, KeepsWireContract, Contract!Spec

=============================================================================
