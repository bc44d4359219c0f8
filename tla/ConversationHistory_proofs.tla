---------------------- MODULE ConversationHistory_proofs ----------------------
(***************************************************************************)
(* Proofs about ConversationHistory, for every cap, every number of calls  *)
(* per hop, also more than the cap, and every length of the session.       *)
(*                                                                         *)
(* The log, which nothing truncates, is well paired (Good), and that is    *)
(* inductive on its own.  The list is the end of the log from some cut on; *)
(* what remains to be shown of it is where the cut may fall (CutWell).     *)
(***************************************************************************)
EXTENDS ConversationHistory, TLAPS, SequenceTheorems

-----------------------------------------------------------------------------
(* The pairing, as a predicate of a list h, of the hop being executed hp   *)
(* and of the number p of its results that are still missing.              *)
Complete(h, hp, p) ==
  \A j \in 1 .. Len(h) : h[j].role = "calls" =>
    /\ \A c \in 1 .. h[j].call :
         j + c <= Len(h) => h[j + c] = Message("tool", h[j].hop, c)
    /\ \/ j + h[j].call <= Len(h)
       \/ j + h[j].call = Len(h) + p /\ h[j] = hp

Located(h, hp, p) ==
  p > 0 => LET j == Len(h) - (hp.call - p) IN j \in 1 .. Len(h) /\ h[j] = hp

Paired(h) == \A i \in 1 .. Len(h) : h[i].role = "tool" => Answers(h, i)

Good(h, hp, p) == Paired(h) /\ Complete(h, hp, p) /\ Located(h, hp, p)

(* How many messages of the log the list has lost. *)
Lost == Len(log) - Len(history)

(* The list begins with a message that is no result, or with a result past *)
(* the cap; when it is empty the open hop has as many results as that.     *)
CutWell ==
  Lost > 0 =>
    /\ Lost < Len(log) => log[Lost + 1].role # "tool" \/ log[Lost + 1].call > MaxHistory
    /\ Lost = Len(log) /\ pending > 0 => hop.call - pending >= MaxHistory

Inv ==
  /\ TypeOK
  /\ Good(log, hop, pending)
  /\ ~inTurn => pending = 0
  /\ EvictsOnlyTheOldest /\ CutWell

-----------------------------------------------------------------------------
(* The numbers in the proofs are naturals.                                 *)
LEMMA Numbers ==
  /\ MaxHistory \in Nat /\ MaxHistory > 0
  /\ MaxCalls \in Nat /\ 0 < MaxCalls
  /\ \A m \in Messages : m.call \in Nat /\ m.call <= MaxCalls /\ m.hop \in Nat
  /\ \A h \in Seq(Messages) :
       Len(h) \in Nat /\ \A i \in 1 .. Len(h) :
         h[i] \in Messages /\ h[i].call \in Nat /\ h[i].call <= MaxCalls
<1>1. MaxHistory \in Nat /\ MaxHistory > 0
  BY MaxHistoryAssumption
<1>2. MaxCalls \in Nat /\ 0 < MaxCalls
  BY CallsAssumption
<1>3. \A m \in Messages : m.call \in Nat /\ m.call <= MaxCalls /\ m.hop \in Nat
  BY <1>2 DEF Messages
<1>4. ASSUME NEW h \in Seq(Messages) PROVE Len(h) \in Nat /\ \A i \in 1 .. Len(h) : h[i] \in Messages
  BY LenProperties, ElementOfSeq
<1> QED BY <1>1, <1>2, <1>3, <1>4

(* Facts about the truncation.                                             *)

(* Dropping the leading tool results leaves what starts at the first       *)
(* message that is none.                                                   *)
LEMMA DropsExactlyTheLeadingTools ==
  ASSUME NEW h \in Seq(Messages), NEW n \in 0 .. Len(h),
         \A i \in 1 .. n : h[i].role = "tool",
         n < Len(h) => h[n + 1].role # "tool"
  PROVE  DropLeadingTools(h) = SubSeq(h, n + 1, Len(h))
<1>0. Len(h) \in Nat
  BY LenProperties
<1>1. CASE n = Len(h)
  <2>1. NonTool(h) = {}
    BY <1>0, <1>1 DEF NonTool
  <2>2. SubSeq(h, n + 1, Len(h)) = << >>
    BY <1>0, <1>1, SubSeqEmpty
  <2> QED BY <2>1, <2>2 DEF DropLeadingTools
<1>2. CASE n < Len(h)
  <2>1. n + 1 \in NonTool(h) /\ \A j \in NonTool(h) : n + 1 <= j
    BY <1>0, <1>2 DEF NonTool
  <2>2. \A i \in NonTool(h) : (\A j \in NonTool(h) : i <= j) => i = n + 1
    BY <1>0, <2>1 DEF NonTool
  <2>3. (CHOOSE i \in NonTool(h) : \A j \in NonTool(h) : i <= j) = n + 1
    BY <2>1, <2>2
  <2> QED BY <2>1, <2>3 DEF DropLeadingTools
<1> QED BY <1>0, <1>1, <1>2

(* The elements of a suffix. *)
LEMMA Suffix ==
  ASSUME NEW h \in Seq(Messages), NEW f \in 1 .. Len(h) + 1
  PROVE  /\ SubSeq(h, f, Len(h)) \in Seq(Messages)
         /\ Len(SubSeq(h, f, Len(h))) = Len(h) - f + 1
         /\ \A i \in 1 .. Len(h) - f + 1 : SubSeq(h, f, Len(h))[i] = h[f + i - 1]
<1>0. Len(h) \in Nat /\ \A i \in 1 .. Len(h) : h[i] \in Messages
  BY LenProperties, ElementOfSeq
<1>1. \A i \in f .. Len(h) : h[i] \in Messages
  BY <1>0
<1> QED BY <1>0, <1>1, SubSeqProperties

(* A suffix of a suffix. *)
LEMMA SuffixOfSuffix ==
  ASSUME NEW h \in Seq(Messages), NEW f \in 1 .. Len(h) + 1,
         NEW n \in 0 .. Len(h) - f + 1
  PROVE  SubSeq(SubSeq(h, f, Len(h)), n + 1, Len(h) - f + 1)
           = SubSeq(h, f + n, Len(h))
<1> DEFINE s == SubSeq(h, f, Len(h))
           t == SubSeq(s, n + 1, Len(s))
           u == SubSeq(h, f + n, Len(h))
<1>0. Len(h) \in Nat
  BY LenProperties
<1>1. s \in Seq(Messages) /\ Len(s) = Len(h) - f + 1
  BY Suffix
<1>2. \A i \in 1 .. Len(s) : s[i] = h[f + i - 1]
  BY <1>1, Suffix
<1>3. n + 1 \in 1 .. Len(s) + 1 /\ f + n \in 1 .. Len(h) + 1
  BY <1>0, <1>1
<1> HIDE DEF s
<1>4. /\ t \in Seq(Messages) /\ Len(t) = Len(s) - (n + 1) + 1
      /\ \A i \in 1 .. Len(s) - (n + 1) + 1 : t[i] = s[n + 1 + i - 1]
  BY <1>1, <1>3, Suffix
<1>5. /\ u \in Seq(Messages) /\ Len(u) = Len(h) - (f + n) + 1
      /\ \A i \in 1 .. Len(h) - (f + n) + 1 : u[i] = h[f + n + i - 1]
  BY <1>3, Suffix
<1>6. Len(t) = Len(u)
  BY <1>0, <1>1, <1>4, <1>5
<1>7. \A i \in 1 .. Len(t) : t[i] = u[i]
  BY <1>0, <1>1, <1>2, <1>4, <1>5
<1>8. t = u
  BY <1>4, <1>5, <1>6, <1>7, SeqEqual
<1> QED BY <1>1, <1>8 DEF s

-----------------------------------------------------------------------------
(* The log stays well paired.                                              *)

(* What answers a call still does so in a longer list. *)
LEMMA AnswersIsLocal ==
  ASSUME NEW h \in Seq(Messages), NEW g, NEW i \in 1 .. Len(h),
         \A x \in 1 .. Len(h) : g[x] = h[x],
         Answers(h, i)
  PROVE  Answers(g, i)
<1>1. Len(h) \in Nat
  BY Numbers
<1>2. PICK c \in Nat : c = h[i].call
  BY Numbers
<1>3. 0 < c /\ c < i /\ h[i - c].role = "calls" /\ h[i - c].hop = h[i].hop
      /\ c <= h[i - c].call /\ \A d \in 1 .. c - 1 : h[i - d].role = "tool"
  BY <1>2 DEF Answers
<1>4. i - c \in 1 .. Len(h) /\ \A d \in 1 .. c - 1 : i - d \in 1 .. Len(h)
  BY <1>1, <1>2, <1>3
<1>5. g[i] = h[i] /\ g[i - c] = h[i - c]
  BY <1>4
<1>6. \A d \in 1 .. c - 1 : g[i - d].role = "tool"
  BY <1>3, <1>4
<1> QED BY <1>2, <1>3, <1>5, <1>6 DEF Answers

(* A user or assistant text after complete hops. *)
LEMMA TextIsGood ==
  ASSUME NEW h \in Seq(Messages), NEW hp \in Messages, Good(h, hp, 0),
         NEW role \in {"user", "assistant"}
  PROVE  Text(role) \in Messages /\ Good(Append(h, Text(role)), hp, 0)
<1> DEFINE m == Text(role)
           g == Append(h, m)
<1>1. m \in Messages /\ m.role = role
  BY Numbers DEF Text, Message, Messages
<1>2. Len(h) \in Nat /\ \A i \in 1 .. Len(h) : h[i].call \in Nat
  BY Numbers
<1>3. /\ Len(g) = Len(h) + 1 /\ g[Len(h) + 1].role = role
      /\ \A i \in 1 .. Len(h) : g[i] = h[i]
  BY <1>1, AppendProperties
<1> HIDE DEF g, m
<1>4. Paired(g)
  <2> SUFFICES ASSUME NEW i \in 1 .. Len(g), g[i].role = "tool"
               PROVE  Answers(g, i)
    BY DEF Paired
  <2>1. i \in 1 .. Len(h) /\ g[i] = h[i]
    BY <1>2, <1>3
  <2> QED BY <1>3, <2>1, AnswersIsLocal DEF Good, Paired
<1>5. Complete(g, hp, 0)
  <2> SUFFICES ASSUME NEW j \in 1 .. Len(g), g[j].role = "calls"
               PROVE  /\ \A c \in 1 .. g[j].call :
                           j + c <= Len(g) => g[j + c] = Message("tool", g[j].hop, c)
                      /\ j + g[j].call <= Len(g)
    BY DEF Complete
  <2>1. j \in 1 .. Len(h) /\ g[j] = h[j]
    BY <1>2, <1>3
  <2>2. PICK k \in Nat : k = h[j].call
    BY <1>2, <2>1
  <2>3. \A c \in 1 .. k : j + c <= Len(h) => h[j + c] = Message("tool", h[j].hop, c)
    BY <2>1, <2>2 DEF Good, Complete
  <2>4. j + k <= Len(h)
    BY <1>2, <2>1, <2>2 DEF Good, Complete
  <2>5. \A c \in 1 .. k : j + c \in 1 .. Len(h) /\ j + c <= Len(h)
    BY <1>2, <2>1, <2>4
  <2>6. \A c \in 1 .. k : g[j + c] = Message("tool", g[j].hop, c)
    BY <1>3, <2>1, <2>3, <2>5
  <2>7. j + k <= Len(g)
    BY <1>2, <1>3, <2>1, <2>4
  <2> QED BY <2>1, <2>2, <2>6, <2>7
<1>6. Located(g, hp, 0)
  BY DEF Located
<1> QED BY <1>1, <1>4, <1>5, <1>6 DEF Good, g, m

(* The assistant message of a new hop, all of whose results are missing. *)
LEMMA CallsIsGood ==
  ASSUME NEW h \in Seq(Messages), NEW hp \in Messages, Good(h, hp, 0),
         NEW m \in Messages, m.role = "calls"
  PROVE  Good(Append(h, m), m, m.call)
<1> DEFINE g == Append(h, m)
<1>2. Len(h) \in Nat /\ m.call \in Nat /\ \A i \in 1 .. Len(h) : h[i].call \in Nat
  BY Numbers
<1>3. /\ Len(g) = Len(h) + 1 /\ g[Len(h) + 1] = m
      /\ \A i \in 1 .. Len(h) : g[i] = h[i]
  BY AppendProperties
<1> HIDE DEF g
<1>4. Paired(g)
  <2> SUFFICES ASSUME NEW i \in 1 .. Len(g), g[i].role = "tool"
               PROVE  Answers(g, i)
    BY DEF Paired
  <2>1. i \in 1 .. Len(h) /\ g[i] = h[i]
    BY <1>2, <1>3
  <2> QED BY <1>3, <2>1, AnswersIsLocal DEF Good, Paired
<1>5. Complete(g, m, m.call)
  <2> SUFFICES ASSUME NEW j \in 1 .. Len(g), g[j].role = "calls"
               PROVE  /\ \A c \in 1 .. g[j].call :
                           j + c <= Len(g) => g[j + c] = Message("tool", g[j].hop, c)
                      /\ \/ j + g[j].call <= Len(g)
                         \/ j + g[j].call = Len(g) + m.call /\ g[j] = m
    BY DEF Complete
  <2>1. CASE j \in 1 .. Len(h)
    <3>1. g[j] = h[j]
      BY <1>3, <2>1
    <3>2. PICK k \in Nat : k = h[j].call
      BY <1>2, <2>1
    <3>3. \A c \in 1 .. k : j + c <= Len(h) => h[j + c] = Message("tool", h[j].hop, c)
      BY <2>1, <3>1, <3>2 DEF Good, Complete
    <3>4. j + k <= Len(h)
      BY <1>2, <2>1, <3>1, <3>2 DEF Good, Complete
    <3>5. \A c \in 1 .. k : j + c \in 1 .. Len(h) /\ j + c <= Len(h)
      BY <1>2, <2>1, <3>4
    <3>6. \A c \in 1 .. k : g[j + c] = Message("tool", g[j].hop, c)
      BY <1>3, <3>1, <3>3, <3>5
    <3>7. j + k <= Len(g)
      BY <1>2, <1>3, <2>1, <3>4
    <3> QED BY <3>1, <3>2, <3>6, <3>7
  <2>2. CASE j = Len(h) + 1
    <3>1. g[j] = m /\ j = Len(g)
      BY <1>3, <2>2
    <3>2. \A c \in 1 .. m.call : ~ (j + c <= Len(g))
      BY <1>2, <1>3, <2>2
    <3> QED BY <3>1, <3>2
  <2> QED BY <1>2, <1>3, <2>1, <2>2
<1>6. Located(g, m, m.call)
  BY <1>2, <1>3 DEF Located
<1> QED BY <1>4, <1>5, <1>6 DEF Good, g

(* The next result of the open hop. *)
LEMMA ResultIsGood ==
  ASSUME NEW h \in Seq(Messages), NEW hp \in Messages, hp.role = "calls",
         NEW p \in 1 .. hp.call, Good(h, hp, p)
  PROVE  LET m == Message("tool", hp.hop, hp.call - p + 1)
         IN  m \in Messages /\ Good(Append(h, m), hp, p - 1)
<1>1. PICK k \in Nat : k = hp.call
  BY Numbers
<1>2. Len(h) \in Nat /\ p \in Nat /\ 0 < p /\ p <= k
  BY <1>1, Numbers
<1>3. PICK n \in Nat : n = k - p + 1 /\ 0 < n /\ n <= k
  BY <1>1, <1>2
<1> DEFINE m == Message("tool", hp.hop, n)
           g == Append(h, m)
<1>4. /\ m \in Messages /\ m.role = "tool" /\ m.hop = hp.hop /\ m.call = n
  <2>1. n \in 0 .. MaxCalls
    BY <1>1, <1>3, Numbers
  <2> QED BY <2>1, Numbers DEF Message, Messages
<1>5. /\ Len(g) = Len(h) + 1 /\ g[Len(h) + 1] = m
      /\ \A i \in 1 .. Len(h) : g[i] = h[i]
  BY <1>4, AppendProperties
<1> DEFINE o == Len(h) - (k - p)
<1>6. o \in 1 .. Len(h) /\ h[o] = hp /\ o + n = Len(h) + 1
  BY <1>1, <1>2, <1>3 DEF Good, Located
<1>7. /\ \A c \in 1 .. k : o + c <= Len(h) => h[o + c] = Message("tool", hp.hop, c)
  BY <1>1, <1>6 DEF Good, Complete
<1> HIDE DEF g, m, o
<1>8. Paired(g)
  <2> SUFFICES ASSUME NEW i \in 1 .. Len(g), g[i].role = "tool"
               PROVE  Answers(g, i)
    BY DEF Paired
  <2>1. CASE i \in 1 .. Len(h)
    BY <1>5, <2>1, AnswersIsLocal DEF Good, Paired
  <2>2. CASE i = Len(h) + 1
    <3>1. g[i] = m /\ i - n = o /\ g[o] = hp
      BY <1>2, <1>3, <1>5, <1>6, <2>2
    <3>2. ASSUME NEW d \in 1 .. n - 1 PROVE g[i - d].role = "tool"
      <4>1. n - d \in 1 .. k /\ o + (n - d) = i - d /\ i - d \in 1 .. Len(h)
        <5>1. o \in Nat /\ 0 < o /\ i = o + n /\ i = Len(h) + 1
          BY <1>6, <2>2
        <5> QED BY <1>2, <1>3, <5>1
      <4>2. g[i - d] = h[o + (n - d)] /\ o + (n - d) <= Len(h)
        BY <1>2, <1>5, <4>1
      <4>3. h[o + (n - d)] = Message("tool", hp.hop, n - d)
        BY <1>7, <4>1, <4>2
      <4> QED BY <4>2, <4>3 DEF Message
    <3>3. 0 < n /\ n < i
      BY <1>2, <1>3, <1>6, <2>2
    <3> QED BY <1>1, <1>3, <1>4, <3>1, <3>2, <3>3 DEF Answers
  <2> QED BY <1>2, <1>5, <2>1, <2>2
<1>9. Complete(g, hp, p - 1)
  <2> SUFFICES ASSUME NEW j \in 1 .. Len(g), g[j].role = "calls"
               PROVE  /\ \A c \in 1 .. g[j].call :
                           j + c <= Len(g) => g[j + c] = Message("tool", g[j].hop, c)
                      /\ \/ j + g[j].call <= Len(g)
                         \/ j + g[j].call = Len(g) + (p - 1) /\ g[j] = hp
    BY DEF Complete
  <2>1. j \in 1 .. Len(h) /\ g[j] = h[j] /\ j \in Nat
    BY <1>2, <1>4, <1>5
  <2>2. PICK x \in Nat : x = h[j].call
    BY <2>1, Numbers
  <2>3. /\ \A c \in 1 .. x : j + c <= Len(h) => h[j + c] = Message("tool", h[j].hop, c)
        /\ j + x <= Len(h) \/ (j + x = Len(h) + p /\ h[j] = hp)
    BY <2>1, <2>2 DEF Good, Complete
  <2>4. \A c \in 1 .. x : j + c <= Len(h) => j + c \in 1 .. Len(h)
    BY <1>2, <2>1
  <2>5. \A c \in 1 .. x : j + c <= Len(h) => g[j + c] = Message("tool", g[j].hop, c)
    BY <1>5, <2>1, <2>3, <2>4
  <2>6. CASE j + x <= Len(h)
    <3>1. \A c \in 1 .. x : j + c <= Len(h)
      BY <1>2, <2>1, <2>6
    <3>2. j + x <= Len(g)
      BY <1>2, <1>5, <2>1, <2>6
    <3> QED BY <2>1, <2>2, <2>5, <3>1, <3>2
  <2>7. CASE j + x = Len(h) + p /\ h[j] = hp
    <3>1. x = k /\ j = o
      <4>1. x = k
        BY <1>1, <2>2, <2>7
      <4>2. o = Len(h) - (k - p)
        BY DEF o
      <4>3. j + k = Len(h) + p /\ j \in Nat
        BY <2>1, <2>7, <4>1
      <4> QED BY <1>2, <4>1, <4>2, <4>3
    <3>2. ASSUME NEW c \in 1 .. x, j + c <= Len(g)
          PROVE  g[j + c] = Message("tool", g[j].hop, c)
      <4>1. CASE j + c <= Len(h)
        BY <2>5, <4>1
      <4>2. CASE j + c = Len(h) + 1
        <5>1. c = n
          BY <1>2, <1>3, <1>6, <2>1, <3>1, <4>2
        <5> QED BY <1>5, <2>1, <2>7, <4>2, <5>1 DEF m
      <4> QED BY <1>2, <1>5, <2>1, <2>2, <3>2, <4>1, <4>2
    <3>3. j + x = Len(g) + (p - 1)
      BY <1>2, <1>5, <2>7
    <3> QED BY <2>1, <2>2, <2>7, <3>2, <3>3
  <2> QED BY <2>3, <2>6, <2>7
<1>10. Located(g, hp, p - 1)
  <2>1. Len(g) - (k - (p - 1)) = o
    BY <1>2, <1>5 DEF o
  <2>2. o \in 1 .. Len(g) /\ g[o] = hp
    BY <1>2, <1>5, <1>6
  <2> QED BY <1>1, <2>1, <2>2 DEF Located
<1>11. m = Message("tool", hp.hop, hp.call - p + 1)
  BY <1>1, <1>3 DEF m
<1> QED BY <1>4, <1>8, <1>9, <1>10, <1>11 DEF Good, g

(* A list that is the end of the log still is after both grow by m and the *)
(* list loses its head.                                                    *)
LEMMA SuffixOfTheLog ==
  ASSUME NEW h \in Seq(Messages), NEW whole \in Seq(Messages), NEW m \in Messages,
         Len(h) <= Len(whole),
         h = SubSeq(whole, Len(whole) - Len(h) + 1, Len(whole)),
         NEW f \in 1 .. Len(h) + 2
  PROVE  SubSeq(Append(h, m), f, Len(h) + 1)
           = SubSeq(Append(whole, m), Len(whole) - Len(h) + f, Len(whole) + 1)
<1>1. Len(h) \in Nat /\ Len(whole) \in Nat
  BY Numbers
<1> DEFINE g == Append(h, m)
           w == Append(whole, m)
           s == Len(whole) - Len(h) + 1
<1>2. /\ g \in Seq(Messages) /\ Len(g) = Len(h) + 1 /\ g[Len(h) + 1] = m
      /\ \A i \in 1 .. Len(h) : g[i] = h[i]
  BY AppendProperties
<1>3. /\ w \in Seq(Messages) /\ Len(w) = Len(whole) + 1 /\ w[Len(whole) + 1] = m
      /\ \A i \in 1 .. Len(whole) : w[i] = whole[i]
  BY AppendProperties
<1>4. s \in Nat /\ s > 0 /\ s + Len(h) = Len(whole) + 1
  BY <1>1
<1> HIDE DEF g, w, s
<1>5. \A i \in 1 .. Len(h) : h[i] = whole[s + i - 1]
  <2>1. s \in 1 .. Len(whole) + 1 /\ Len(whole) - s + 1 = Len(h)
    BY <1>1, <1>4
  <2>2. \A i \in 1 .. Len(whole) - s + 1 : SubSeq(whole, s, Len(whole))[i] = whole[s + i - 1]
    BY <2>1, Suffix
  <2>3. h = SubSeq(whole, s, Len(whole))
    BY DEF s
  <2> QED BY <2>1, <2>2, <2>3
<1>6. \A i \in 1 .. Len(g) : g[i] = w[s + i - 1]
  <2> SUFFICES ASSUME NEW i \in 1 .. Len(g) PROVE g[i] = w[s + i - 1]
    OBVIOUS
  <2>1. CASE i \in 1 .. Len(h)
    <3>1. s + i - 1 \in 1 .. Len(whole)
      BY <1>1, <1>4, <2>1
    <3> QED BY <1>2, <1>3, <1>5, <2>1, <3>1
  <2>2. CASE i = Len(h) + 1
    <3>1. s + i - 1 = Len(whole) + 1
      BY <1>1, <1>4, <2>2
    <3> QED BY <1>2, <1>3, <2>2, <3>1
  <2> QED BY <1>1, <1>2, <2>1, <2>2
<1>7. g = SubSeq(w, s, Len(w))
  <2>1. s \in 1 .. Len(w) + 1 /\ Len(w) - s + 1 = Len(g)
    BY <1>1, <1>2, <1>3, <1>4
  <2>2. /\ SubSeq(w, s, Len(w)) \in Seq(Messages) /\ Len(SubSeq(w, s, Len(w))) = Len(g)
        /\ \A i \in 1 .. Len(g) : SubSeq(w, s, Len(w))[i] = w[s + i - 1]
    BY <1>3, <2>1, Suffix
  <2> QED BY <1>2, <1>6, <2>2, SeqEqual
<1>8. PICK n \in Nat : f = n + 1
  BY <1>1
<1>9. /\ s \in 1 .. Len(w) + 1 /\ n \in 0 .. Len(w) - s + 1
      /\ Len(w) - s + 1 = Len(h) + 1
  BY <1>1, <1>3, <1>4, <1>8
<1>10. SubSeq(SubSeq(w, s, Len(w)), n + 1, Len(h) + 1) = SubSeq(w, s + n, Len(w))
  BY <1>3, <1>9, SuffixOfSuffix
<1>11. s + n = Len(whole) - Len(h) + f
  BY <1>1, <1>8 DEF s
<1> QED BY <1>3, <1>7, <1>8, <1>10, <1>11 DEF g, w

-----------------------------------------------------------------------------
(* Where the cut falls.                                                    *)

(* A result in a well paired list belongs to an assistant message before   *)
(* it, and what is between them are the earlier results of that message.   *)
LEMMA ResultsOfAHop ==
  ASSUME NEW h \in Seq(Messages), NEW hp, NEW p, Good(h, hp, p),
         NEW o \in 1 .. Len(h), h[o].role = "tool"
  PROVE  \E j \in 1 .. o - 1 :
           /\ h[j].role = "calls" /\ h[o].call = o - j
           /\ \A i \in j + 1 .. o : h[i] = Message("tool", h[j].hop, i - j)
           /\ \A i \in 1 .. h[j].call :
                j + i <= Len(h) => h[j + i] = Message("tool", h[j].hop, i)
<1>1. Len(h) \in Nat /\ o \in Nat /\ 0 < o /\ o <= Len(h)
  BY Numbers
<1>2. PICK c \in Nat : c = h[o].call
  BY Numbers
<1>3. 0 < c /\ c < o /\ h[o - c].role = "calls" /\ c <= h[o - c].call
  BY <1>2 DEF Good, Paired, Answers
<1>4. PICK j \in Nat : j = o - c
  BY <1>1, <1>2, <1>3
<1>5. j \in 1 .. o - 1 /\ j \in 1 .. Len(h) /\ j + c = o
  BY <1>1, <1>3, <1>4
<1>6. PICK k \in Nat : k = h[j].call
  BY <1>5, Numbers
<1>7. \A i \in 1 .. k : j + i <= Len(h) => h[j + i] = Message("tool", h[j].hop, i)
  BY <1>3, <1>4, <1>5, <1>6 DEF Good, Complete
<1>8. ASSUME NEW i \in j + 1 .. o
      PROVE  h[i] = Message("tool", h[j].hop, i - j)
  <2>1. i - j \in 1 .. k /\ j + (i - j) = i /\ i <= Len(h)
    BY <1>1, <1>3, <1>4, <1>5, <1>6, <1>8
  <2> QED BY <1>7, <2>1
<1>9. h[j].role = "calls" /\ h[o].call = o - j /\ h[j].call = k
  BY <1>1, <1>2, <1>3, <1>4, <1>5, <1>6
<1> QED BY <1>5, <1>7, <1>8, <1>9

(* From any place on, the results come to an end. *)
LEMMA FirstThatIsNoResult ==
  ASSUME NEW h \in Seq(Messages), NEW hp, NEW p, Good(h, hp, p),
         NEW o \in 1 .. Len(h)
  PROVE  \E n \in 0 .. Len(h) - o + 1 :
           /\ \A i \in o .. o + n - 1 : h[i].role = "tool"
           /\ o + n <= Len(h) => h[o + n].role # "tool"
<1>1. Len(h) \in Nat /\ o \in Nat /\ 0 < o /\ o <= Len(h)
  BY Numbers
<1>2. CASE h[o].role # "tool"
  <2>1. 0 \in 0 .. Len(h) - o + 1 /\ o + 0 = o /\ \A i \in o .. o + 0 - 1 : FALSE
    BY <1>1
  <2> QED BY <1>2, <2>1
<1>3. CASE h[o].role = "tool"
  <2>1. PICK j \in 1 .. o - 1 :
          /\ h[j].role = "calls" /\ h[o].call = o - j
          /\ \A i \in j + 1 .. o : h[i] = Message("tool", h[j].hop, i - j)
          /\ \A i \in 1 .. h[j].call :
               j + i <= Len(h) => h[j + i] = Message("tool", h[j].hop, i)
    BY <1>3, ResultsOfAHop
  <2>2. j \in 1 .. Len(h) /\ j \in Nat
    BY <1>1
  <2>3. PICK k \in Nat : k = h[j].call
    BY <2>2, Numbers
  <2>r. \A a, b : Message("tool", a, b).role = "tool"
    BY DEF Message
  <2>4. \A i \in 1 .. k : j + i <= Len(h) => h[j + i].role = "tool"
    BY <2>1, <2>3, <2>r
  <2>5. o - j <= k
    <3>1. Answers(h, o)
      BY <1>3 DEF Good, Paired
    <3>2. o - h[o].call = j
      BY <1>1, <2>1, <2>2
    <3>3. h[o].call <= h[o - h[o].call].call
      BY <3>1 DEF Answers
    <3> QED BY <2>1, <2>3, <3>2, <3>3
  <2>6. PICK x \in Nat : o <= x /\ x <= Len(h) /\ x <= j + k /\ (x = j + k \/ x = Len(h))
    <3>1. CASE j + k <= Len(h)
      <4>1. j + k \in Nat /\ o <= j + k
        BY <1>1, <2>2, <2>3, <2>5
      <4> QED BY <3>1, <4>1
    <3>2. CASE j + k > Len(h)
      BY <1>1, <2>2, <2>3, <3>2
    <3> QED BY <1>1, <2>2, <2>3, <3>1, <3>2
  <2>7. ASSUME NEW i \in j + 1 .. x PROVE h[i].role = "tool"
    <3>1. i - j \in 1 .. k /\ j + (i - j) = i /\ i <= Len(h)
      BY <1>1, <2>2, <2>3, <2>6, <2>7
    <3> QED BY <2>4, <3>1
  <2>8. ASSUME x + 1 <= Len(h), h[x + 1].role = "tool" PROVE FALSE
    <3>1. x = j + k /\ x + 1 \in 1 .. Len(h)
      BY <1>1, <2>2, <2>3, <2>6, <2>8
    <3>2. PICK q \in 1 .. (x + 1) - 1 :
            /\ h[q].role = "calls" /\ h[x + 1].call = (x + 1) - q
            /\ \A i \in q + 1 .. x + 1 : h[i] = Message("tool", h[q].hop, i - q)
      BY <2>8, <3>1, ResultsOfAHop
    <3>3. q \in Nat /\ q <= x
      BY <2>6
    <3>4. CASE q < j
      <4>1. j \in q + 1 .. x + 1
        BY <1>1, <2>2, <2>6, <3>3, <3>4
      <4>2. h[j].role = "tool"
        BY <3>2, <4>1, <2>r
      <4> QED BY <2>1, <4>2
    <3>5. CASE q > j
      <4>1. q \in j + 1 .. x
        BY <2>2, <2>6, <3>3, <3>5
      <4> QED BY <2>7, <3>2, <4>1
    <3>6. CASE q = j
      <4>1. Answers(h, x + 1)
        BY <2>8, <3>1 DEF Good, Paired
      <4>2. PICK c \in Nat : c = h[x + 1].call
        BY <3>1, Numbers
      <4>5. c = (x + 1) - j
        BY <3>2, <3>6, <4>2
      <4>3. c = k + 1 /\ (x + 1) - c = j
        BY <2>2, <3>1, <4>5
      <4>4. c <= h[(x + 1) - c].call
        BY <4>1, <4>2 DEF Answers
      <4> QED BY <2>3, <4>3, <4>4
    <3> QED BY <2>2, <3>3, <3>4, <3>5, <3>6
  <2>9. PICK n \in Nat : n = x + 1 - o
    BY <1>1, <2>6
  <2>10. n \in 0 .. Len(h) - o + 1 /\ o + n = x + 1
    BY <1>1, <2>6, <2>9
  <2>11. \A i \in o .. o + n - 1 : i \in j + 1 .. x
    BY <1>1, <2>2, <2>6, <2>10
  <2> QED BY <2>7, <2>8, <2>10, <2>11
<1> QED BY <1>2, <1>3

(* The list h, the end of the log w after its first b messages, and the    *)
(* log grow by m: the list is then the end of the log after e messages. *)
CutAt(h, w, m, b, e) ==
  /\ AddMessage(h, m) = SubSeq(Append(w, m), e + 1, Len(w) + 1)
  /\ \/ e = b /\ Len(h) < MaxHistory
     \/ /\ b < e /\ Len(h) = MaxHistory
        /\ \A i \in b + 2 .. e : Append(w, m)[i].role = "tool"
        /\ e <= Len(w) => Append(w, m)[e + 1].role # "tool"

LEMMA AddMessageCuts ==
  ASSUME NEW h \in Seq(Messages), Len(h) <= MaxHistory, NEW w \in Seq(Messages),
         NEW m \in Messages, Len(h) <= Len(w),
         h = SubSeq(w, Len(w) - Len(h) + 1, Len(w)),
         NEW hp, NEW p, Good(Append(w, m), hp, p)
  PROVE  \E e \in 0 .. Len(w) + 1 : CutAt(h, w, m, Len(w) - Len(h), e)
<1> DEFINE g == Append(h, m)
           W == Append(w, m)
           b == Len(w) - Len(h)
<1>1. /\ Len(h) \in Nat /\ Len(w) \in Nat /\ b \in Nat /\ b <= Len(w) /\ b + Len(h) = Len(w)
      /\ MaxHistory \in Nat /\ MaxHistory > 0
  <2>1. Len(h) \in Nat /\ Len(w) \in Nat
    BY Numbers
  <2> QED BY <2>1, Numbers
<1>2. /\ g \in Seq(Messages) /\ Len(g) = Len(h) + 1
      /\ W \in Seq(Messages) /\ Len(W) = Len(w) + 1
  BY AppendProperties
<1>3. \A f \in 1 .. Len(h) + 2 :
        SubSeq(g, f, Len(h) + 1) = SubSeq(W, b + f, Len(w) + 1)
  BY SuffixOfTheLog
<1>g. Good(W, hp, p)
  OBVIOUS
<1>4. CASE Len(h) < MaxHistory
  <2>1. AddMessage(h, m) = SubSeq(g, 1, Len(h) + 1)
    <3>1. ~(Len(g) > MaxHistory)
      BY <1>1, <1>2, <1>4
    <3>2. AddMessage(h, m) = g
      BY <3>1 DEF AddMessage
    <3> HIDE DEF g
    <3> QED BY <1>2, <3>2, SubSeqFull
  <2>2. AddMessage(h, m) = SubSeq(W, b + 1, Len(w) + 1)
    <3>1. 1 \in 1 .. Len(h) + 2
      BY <1>1
    <3> HIDE DEF g, W, b
    <3> QED BY <1>3, <2>1, <3>1
  <2>3. b \in 0 .. Len(w) + 1
    BY <1>1
  <2>4. CutAt(h, w, m, b, b)
    BY <1>4, <2>2 DEF CutAt
  <2> QED BY <2>3, <2>4
<1>5. CASE Len(h) = MaxHistory
  <2> DEFINE s == SubSeq(W, b + 2, Len(W))
  <2>1. AddMessage(h, m) = DropLeadingTools(s)
    <3>1. Len(g) > MaxHistory /\ Len(g) - MaxHistory + 1 = 2
      BY <1>1, <1>2, <1>5
    <3>2. AddMessage(h, m) = DropLeadingTools(SubSeq(g, 2, Len(g)))
      BY <3>1 DEF AddMessage, SafeTruncate, LastMessages
    <3>3. SubSeq(g, 2, Len(h) + 1) = s
      <4>1. 2 \in 1 .. Len(h) + 2
        BY <1>1
      <4> QED BY <1>2, <1>3, <4>1
    <3> QED BY <1>2, <3>2, <3>3
  <2> HIDE DEF W
  <2>2. b + 2 \in 1 .. Len(W) /\ b + 2 \in 1 .. Len(W) + 1
    BY <1>1, <1>2, <1>5
  <2>3. /\ s \in Seq(Messages) /\ Len(s) = Len(W) - (b + 2) + 1
        /\ \A i \in 1 .. Len(W) - (b + 2) + 1 : s[i] = W[b + 2 + i - 1]
    BY <1>2, <2>2, Suffix
  <2>4. PICK n \in 0 .. Len(W) - (b + 2) + 1 :
          /\ \A i \in b + 2 .. b + 2 + n - 1 : W[i].role = "tool"
          /\ b + 2 + n <= Len(W) => W[b + 2 + n].role # "tool"
    BY <1>2, <1>g, <2>2, FirstThatIsNoResult
  <2>5. n \in Nat /\ n \in 0 .. Len(s) /\ b + 2 + n <= Len(W) + 1
    BY <1>1, <1>2, <2>3
  <2>6. \A i \in 1 .. n : s[i].role = "tool"
    <3> SUFFICES ASSUME NEW i \in 1 .. n PROVE s[i].role = "tool"
      OBVIOUS
    <3>1. i \in 1 .. Len(W) - (b + 2) + 1 /\ b + 2 + i - 1 \in b + 2 .. b + 2 + n - 1
      BY <1>1, <1>2, <2>3, <2>5
    <3> HIDE DEF s, b
    <3> QED BY <2>3, <2>4, <3>1
  <2>7. n < Len(s) => s[n + 1].role # "tool"
    <3> SUFFICES ASSUME n < Len(s) PROVE s[n + 1].role # "tool"
      OBVIOUS
    <3>1. /\ n + 1 \in 1 .. Len(W) - (b + 2) + 1 /\ b + 2 + (n + 1) - 1 = b + 2 + n
          /\ b + 2 + n <= Len(W)
      BY <1>1, <1>2, <2>3, <2>5
    <3> HIDE DEF s, b
    <3> QED BY <2>3, <2>4, <3>1
  <2>8. DropLeadingTools(s) = SubSeq(s, n + 1, Len(s))
    <3> HIDE DEF s
    <3> QED BY <2>3, <2>5, <2>6, <2>7, DropsExactlyTheLeadingTools
  <2>9. SubSeq(s, n + 1, Len(s)) = SubSeq(W, b + 2 + n, Len(W))
    <3>1. n \in 0 .. Len(W) - (b + 2) + 1
      OBVIOUS
    <3>2. SubSeq(SubSeq(W, b + 2, Len(W)), n + 1, Len(W) - (b + 2) + 1) = SubSeq(W, (b + 2) + n, Len(W))
      BY <1>2, <2>2, <3>1, SuffixOfSuffix
    <3> QED BY <2>3, <3>2
  <2>e. b + 1 + n \in Nat
    BY <1>1, <2>5
  <2>10. PICK e \in Nat : e = b + 1 + n
    BY <2>e
  <2>11. e + 1 = b + 2 + n /\ b < e /\ e \in 0 .. Len(w) + 1
    BY <1>1, <1>2, <2>5, <2>10
  <2>12. AddMessage(h, m) = SubSeq(W, e + 1, Len(w) + 1)
    BY <1>2, <2>1, <2>8, <2>9, <2>11
  <2>13. \A i \in b + 2 .. e : W[i].role = "tool"
    <3>1. e = b + 2 + n - 1
      BY <1>1, <2>5, <2>10
    <3> QED BY <2>4, <3>1
  <2>14. e <= Len(w) => W[e + 1].role # "tool"
    <3>1. e <= Len(w) => b + 2 + n <= Len(W)
      BY <1>1, <1>2, <2>10
    <3>2. W[e + 1] = W[b + 2 + n]
      BY <2>11
    <3> QED BY <2>4, <3>1, <3>2
  <2>15. CutAt(h, w, m, b, e)
    BY <1>5, <2>11, <2>12, <2>13, <2>14 DEF CutAt, W
  <2> QED BY <2>11, <2>15
<1>6. Len(h) < MaxHistory \/ Len(h) = MaxHistory
  <2>1. \A a, c \in Nat : a <= c => a < c \/ a = c
    OBVIOUS
  <2> HIDE DEF g, W, b
  <2> QED BY <1>1, <2>1
<1> QED BY <1>4, <1>5, <1>6

-----------------------------------------------------------------------------
(* The invariant is inductive.                                             *)

LEMMA Initialization == Init => Inv
<1> SUFFICES ASSUME Init PROVE Inv
  OBVIOUS
<1>1. hop \in Messages /\ hop.role = "calls" /\ hop.call = 0
  BY Numbers DEF Init, Text, Message, Messages
<1>2. << >> \in Seq(Messages) /\ Len(<< >>) = 0
  BY EmptySeq
<1>3. TypeOK
  <2>1. history \in Seq(Messages) /\ Len(history) = 0 /\ log \in Seq(Messages)
    BY <1>2 DEF Init
  <2>2. pending \in 0 .. hop.call
    <3>1. pending = 0
      BY DEF Init
    <3> QED BY <1>1, <3>1
  <2>3. inTurn \in BOOLEAN
    BY DEF Init
  <2>4. Len(history) <= MaxHistory
    BY <2>1, Numbers
  <2> QED BY <1>1, <2>1, <2>2, <2>3, <2>4 DEF TypeOK
<1>4. Good(log, hop, pending)
  BY <1>2 DEF Init, Good, Paired, Complete, Located
<1>5. EvictsOnlyTheOldest /\ CutWell
  <2>1. history = << >> /\ log = << >> /\ Len(<< >>) = 0
    BY DEF Init
  <2>2. SubSeq(<< >>, 0 - 0 + 1, 0) = << >>
    BY SubSeqEmpty
  <2>3. Lost = 0
    BY <2>1 DEF Lost
  <2> QED BY <2>1, <2>2, <2>3 DEF EvictsOnlyTheOldest, CutWell
<1> QED BY <1>3, <1>4, <1>5 DEF Inv, Init

(* A step appends nothing, or one message that fits the log; a result is   *)
(* the next one of the open hop.                                           *)
Fits(m) ==
  /\ Remember(m)
  /\ hop' \in Messages /\ hop'.role = "calls" /\ pending' \in 0 .. hop'.call
  /\ Good(Append(log, m), hop', pending')
  /\ inTurn' \in BOOLEAN /\ (~inTurn' => pending' = 0)
  /\ m.role = "tool" => pending > 0 /\ m.call = hop.call - pending + 1

LEMMA InvParts ==
  Inv => /\ history \in Seq(Messages) /\ Len(history) <= MaxHistory
         /\ log \in Seq(Messages) /\ inTurn \in BOOLEAN
         /\ hop \in Messages /\ hop.role = "calls" /\ pending \in 0 .. hop.call
         /\ Good(log, hop, pending) /\ (~inTurn => pending = 0)
BY DEF Inv, TypeOK

LEMMA Steps ==
  ASSUME Inv, Next
  PROVE  \/ /\ UNCHANGED <<history, hop, pending, log>>
            /\ inTurn' = FALSE /\ pending = 0
         \/ \E m \in Messages : Fits(m)
<1>t. /\ history \in Seq(Messages) /\ log \in Seq(Messages) /\ inTurn \in BOOLEAN
      /\ hop \in Messages /\ hop.role = "calls" /\ pending \in 0 .. hop.call
      /\ Good(log, hop, pending) /\ (~inTurn => pending = 0)
  BY InvParts
<1>n. Len(log) \in Nat /\ hop.call \in Nat
  BY <1>t, Numbers
<1>1. ASSUME NEW role \in {"user", "assistant"}, pending = 0, Remember(Text(role)),
             inTurn' \in BOOLEAN, UNCHANGED <<hop, pending>>
      PROVE  \E m \in Messages : Fits(m)
  <2>1. Text(role) \in Messages /\ Good(Append(log, Text(role)), hop, 0)
    BY <1>1, <1>t, TextIsGood
  <2>2. Text(role).role # "tool"
    BY DEF Text, Message
  <2> QED BY <1>1, <1>t, <2>1, <2>2 DEF Fits
<1>2. CASE UserTurn
  BY <1>1, <1>2, <1>t DEF UserTurn
<1>3. CASE BeginHop
  <2>1. PICK k \in 1 .. MaxCalls : hop' = Message("calls", Len(log) + 1, k) /\ pending' = k
    BY <1>3 DEF BeginHop
  <2>2. hop' \in Messages /\ hop'.role = "calls" /\ hop'.call = k /\ pending' \in 0 .. hop'.call
    BY <1>n, <2>1, Numbers DEF Message, Messages
  <2>3. Good(Append(log, hop'), hop', hop'.call)
    <3>1. Good(log, hop, 0)
      BY <1>3, <1>t DEF BeginHop
    <3> QED BY <1>t, <2>2, <3>1, CallsIsGood
  <2>4. Remember(hop') /\ inTurn' = inTurn /\ inTurn
    BY <1>3 DEF BeginHop
  <2> QED BY <1>t, <2>1, <2>2, <2>3, <2>4 DEF Fits
<1>4. CASE ToolResult
  <2>1. /\ pending \in 1 .. hop.call /\ pending' = pending - 1
        /\ hop' = hop /\ inTurn' = inTurn
        /\ Remember(Message("tool", hop.hop, hop.call - pending + 1))
    BY <1>4, <1>n, <1>t DEF ToolResult
  <2>2. LET m == Message("tool", hop.hop, hop.call - pending + 1)
        IN  /\ m \in Messages /\ Good(Append(log, m), hop, pending - 1)
            /\ m.call = hop.call - pending + 1
    BY <1>t, <2>1, ResultIsGood DEF Message
  <2>3. pending - 1 \in 0 .. hop.call /\ inTurn /\ pending > 0
    BY <1>n, <1>t, <2>1
  <2> QED BY <1>t, <2>1, <2>2, <2>3 DEF Fits
<1>5. CASE AssistantTurn
  BY <1>1, <1>5 DEF AssistantTurn
<1>6. CASE TurnFails
  BY <1>6 DEF TurnFails
<1> QED BY <1>2, <1>3, <1>4, <1>5, <1>6 DEF Next

(* What the cut leaves is the end of the log, and the cut falls well.      *)
LEMMA CutIsWell ==
  ASSUME Inv, NEW m \in Messages, Fits(m)
  PROVE  /\ history' \in Seq(Messages) /\ Len(history') <= MaxHistory
         /\ EvictsOnlyTheOldest' /\ CutWell'
<1> DEFINE W == Append(log, m)
<1>t. /\ history \in Seq(Messages) /\ Len(history) <= MaxHistory /\ log \in Seq(Messages)
      /\ hop \in Messages /\ pending \in 0 .. hop.call
  BY InvParts
<1>s. history' = AddMessage(history, m) /\ log' = W
  BY DEF Fits, Remember
<1>e. /\ Len(history) <= Len(log)
      /\ history = SubSeq(log, Len(log) - Len(history) + 1, Len(log))
      /\ \A j \in 1 .. Len(log) - Len(history) : j > Len(log) - MaxHistory => log[j].role = "tool"
  BY DEF Inv, EvictsOnlyTheOldest
<1>w. /\ W \in Seq(Messages) /\ Len(W) = Len(log) + 1 /\ W[Len(log) + 1] = m
      /\ \A i \in 1 .. Len(log) : W[i] = log[i]
  BY <1>t, AppendProperties
<1>1. PICK e \in 0 .. Len(log) + 1 : CutAt(history, log, m, Len(log) - Len(history), e)
  <2>1. Good(W, hop', pending')
    BY DEF Fits
  <2> QED BY <1>t, <1>e, <2>1, AddMessageCuts
<1>l. Len(history) \in Nat /\ Len(log) \in Nat /\ MaxHistory \in Nat /\ MaxHistory > 0
  BY <1>t, Numbers
<1>b. PICK b \in Nat : b = Len(log) - Len(history) /\ b <= Len(log)
  BY <1>l, <1>e
<1>g. Good(W, hop', pending') /\ hop' \in Messages /\ pending' \in 0 .. hop'.call /\ hop'.role = "calls"
      /\ (m.role = "tool" => pending > 0 /\ m.call = hop.call - pending + 1)
  BY DEF Fits
<1>k. hop.call \in Nat /\ hop'.call \in Nat /\ pending \in Nat /\ pending' \in Nat
  <2>1. hop.call \in Nat /\ hop'.call \in Nat
    BY <1>t, <1>g, Numbers
  <2> QED BY <1>t, <1>g, <2>1
<1>v. /\ b > 0 /\ b < Len(log) => log[b + 1].role # "tool" \/ log[b + 1].call > MaxHistory
      /\ b > 0 /\ b = Len(log) /\ pending > 0 => hop.call - pending >= MaxHistory
  BY <1>b DEF Inv, CutWell, Lost
<1> HIDE DEF W
<1>2. history' = SubSeq(W, e + 1, Len(W))
  BY <1>s, <1>w, <1>1 DEF CutAt, W
<1>3. /\ history' \in Seq(Messages) /\ Len(history') = Len(log') - e
      /\ e \in Nat /\ e <= Len(log')
  <2>1. e + 1 \in 1 .. Len(W) + 1
    BY <1>l, <1>w
  <2>2. SubSeq(W, e + 1, Len(W)) \in Seq(Messages)
        /\ Len(SubSeq(W, e + 1, Len(W))) = Len(W) - (e + 1) + 1
    BY <1>w, <2>1, Suffix
  <2> QED BY <1>l, <1>s, <1>w, <1>2, <2>2
<1>4. \/ e = b /\ Len(history) < MaxHistory
      \/ /\ b < e /\ Len(history) = MaxHistory
         /\ \A i \in b + 2 .. e : W[i].role = "tool"
         /\ e <= Len(log) => W[e + 1].role # "tool"
  BY <1>1, <1>b DEF CutAt, W
<1>5. Len(history') <= MaxHistory
  BY <1>l, <1>s, <1>w, <1>b, <1>3, <1>4
<1>6. /\ Len(log') - Len(history') = e /\ Len(log') = Len(log) + 1
      /\ Len(history') \in Nat /\ Len(history') <= Len(log')
  BY <1>l, <1>s, <1>w, <1>3
<1>7. EvictsOnlyTheOldest'
  <2>1. history' = SubSeq(log', Len(log') - Len(history') + 1, Len(log'))
    BY <1>s, <1>2, <1>6
  <2>2. ASSUME NEW j \in 1 .. e, j > Len(log') - MaxHistory
        PROVE  log'[j].role = "tool"
    <3>1. CASE e = b
      <4>1. j \in 1 .. Len(log) /\ j > Len(log) - MaxHistory /\ j \in 1 .. Len(log) - Len(history)
        BY <1>l, <1>b, <1>6, <2>2, <3>1
      <4> QED BY <1>e, <1>s, <1>w, <4>1
    <3>2. CASE Len(history) = MaxHistory /\ \A i \in b + 2 .. e : W[i].role = "tool"
      <4>1. j \in b + 2 .. e
        BY <1>l, <1>b, <1>6, <2>2, <3>2
      <4> QED BY <1>s, <3>2, <4>1
    <3> QED BY <1>4, <3>1, <3>2
  <2> QED BY <1>6, <2>1, <2>2 DEF EvictsOnlyTheOldest
<1>8. e > 0 /\ e < Len(log') => log'[e + 1].role # "tool" \/ log'[e + 1].call > MaxHistory
  <2> SUFFICES ASSUME e > 0, e < Len(log')
               PROVE  W[e + 1].role # "tool" \/ W[e + 1].call > MaxHistory
    BY <1>s
  <2>1. CASE e = b /\ b < Len(log)
    <3>1. b + 1 \in 1 .. Len(log)
      BY <1>l, <2>1
    <3> QED BY <1>v, <1>w, <2>1, <3>1
  <2>2. CASE e = b /\ b = Len(log)
    <3>1. W[e + 1] = m
      BY <1>w, <2>2
    <3>2. ASSUME m.role = "tool" PROVE m.call > MaxHistory
      <4>1. pending > 0 /\ m.call = hop.call - pending + 1
        BY <1>g, <3>2
      <4>2. hop.call - pending >= MaxHistory
        BY <1>v, <2>2, <4>1
      <4> QED BY <1>k, <1>l, <4>1, <4>2
    <3> QED BY <3>1, <3>2
  <2>3. CASE e <= Len(log) => W[e + 1].role # "tool"
    BY <1>l, <1>3, <1>6, <2>3
  <2> QED BY <1>b, <1>l, <1>4, <2>1, <2>2, <2>3
<1>9. e = Len(log') /\ pending' > 0 => hop'.call - pending' >= MaxHistory
  <2> SUFFICES ASSUME e = Len(log'), pending' > 0, hop'.call - pending' < MaxHistory
               PROVE  FALSE
    BY <1>k, <1>l
  <2>1. /\ Len(history) = MaxHistory /\ \A i \in b + 2 .. e : W[i].role = "tool"
    BY <1>b, <1>l, <1>4, <1>6
  <2> DEFINE j == Len(W) - (hop'.call - pending')
  <2>2. j \in 1 .. Len(W) /\ W[j] = hop'
    BY <1>g DEF Good, Located
  <2>3. j \in b + 2 .. e
    BY <1>b, <1>k, <1>l, <1>w, <1>s, <2>1, <2>2
  <2> HIDE DEF j
  <2> QED BY <1>g, <2>1, <2>2, <2>3
<1>10. CutWell'
  BY <1>6, <1>8, <1>9 DEF CutWell, Lost
<1> QED BY <1>3, <1>5, <1>7, <1>10

(* Every action leaves the log paired for the hop that is open after it.   *)
LEMMA Consecution == Inv /\ [Next]_vars => Inv'
<1> SUFFICES ASSUME Inv, [Next]_vars PROVE Inv'
  OBVIOUS
<1>t. /\ history \in Seq(Messages) /\ Len(history) <= MaxHistory
      /\ log \in Seq(Messages) /\ inTurn \in BOOLEAN
      /\ hop \in Messages /\ hop.role = "calls" /\ pending \in 0 .. hop.call
      /\ Good(log, hop, pending) /\ (~inTurn => pending = 0)
  BY InvParts
<1>1. ASSUME UNCHANGED <<history, hop, pending, log>>,
             inTurn' \in BOOLEAN, ~inTurn' => pending = 0
      PROVE  Inv'
  <2>1. TypeOK'
    BY <1>t, <1>1 DEF TypeOK
  <2>2. Good(log, hop, pending)'
    BY <1>t, <1>1 DEF Good, Paired, Complete, Located, Answers
  <2>3. EvictsOnlyTheOldest' /\ CutWell'
    BY <1>1 DEF Inv, EvictsOnlyTheOldest, CutWell, Lost
  <2> QED BY <1>1, <2>1, <2>2, <2>3 DEF Inv
<1>2. ASSUME NEW m \in Messages, Fits(m)
      PROVE  Inv'
  <2>1. log' = Append(log, m)
    BY <1>2 DEF Fits, Remember
  <2>2. /\ history' \in Seq(Messages) /\ Len(history') <= MaxHistory
        /\ EvictsOnlyTheOldest' /\ CutWell'
    BY <1>2, CutIsWell
  <2>3. log' \in Seq(Messages)
    BY <1>t, <2>1, AppendProperties
  <2>4. Good(log', hop', pending')
    BY <1>2, <2>1 DEF Fits
  <2>5. Good(log, hop, pending)'
    BY <2>4 DEF Good, Paired, Complete, Located, Answers
  <2> QED BY <1>2, <2>2, <2>3, <2>5 DEF Fits, Inv, TypeOK
<1>3. CASE Next
  BY <1>1, <1>2, <1>3, Steps
<1>4. CASE UNCHANGED vars
  BY <1>1, <1>4, <1>t DEF vars
<1> QED BY <1>3, <1>4

(* The inductive invariant holds of every behaviour. *)
LEMMA Invariance == Spec => []Inv
BY Initialization, Consecution, PTL DEF Spec

-----------------------------------------------------------------------------
(* What it is for.                                                         *)

(* DeviceSession's list has the right shape and never exceeds its cap.     *)
THEOREM TypeCorrect == Spec => []TypeOK
<1>1. Inv => TypeOK
  BY DEF Inv
<1> QED BY <1>1, Invariance, PTL

(* What the list holds, read off the log. *)
LEMMA ListIsEndOfLog ==
  ASSUME Inv
  PROVE  /\ Lost \in Nat /\ Len(history) \in Nat /\ Len(log) = Lost + Len(history)
         /\ \A i \in 1 .. Len(history) :
              Lost + i \in 1 .. Len(log) /\ history[i] = log[Lost + i]
<1>1. /\ history \in Seq(Messages) /\ log \in Seq(Messages) /\ Len(history) <= Len(log)
      /\ history = SubSeq(log, Lost + 1, Len(log))
  BY DEF Inv, TypeOK, EvictsOnlyTheOldest, Lost
<1>2. Len(history) \in Nat /\ Len(log) \in Nat
  BY <1>1, Numbers
<1>3. Lost \in Nat /\ Len(log) = Lost + Len(history)
  BY <1>1, <1>2 DEF Lost
<1>4. Lost + 1 \in 1 .. Len(log) + 1 /\ Len(log) - (Lost + 1) + 1 = Len(history)
  BY <1>2, <1>3
<1>5. \A i \in 1 .. Len(log) - (Lost + 1) + 1 :
        SubSeq(log, Lost + 1, Len(log))[i] = log[Lost + 1 + i - 1]
  BY <1>1, <1>4, Suffix
<1>6. ASSUME NEW i \in 1 .. Len(history)
      PROVE  Lost + i \in 1 .. Len(log) /\ history[i] = log[Lost + i]
  <2>1. Lost + i \in 1 .. Len(log) /\ Lost + 1 + i - 1 = Lost + i
    BY <1>2, <1>3
  <2>2. i \in 1 .. Len(log) - (Lost + 1) + 1
    BY <1>4
  <2> QED BY <1>1, <1>5, <2>1, <2>2
<1> QED BY <1>2, <1>3, <1>6

(* _safe_truncate orphans a tool result only past the cap of its own hop,  *)
(* whatever the cap and however many calls a hop has.                      *)
THEOREM NoOrphanedResult == Spec => []EveryResultHasItsCall
<1>1. Inv => EveryResultHasItsCall
  <2> SUFFICES ASSUME Inv, NEW i \in 1 .. Len(history), history[i].role = "tool"
               PROVE  Answers(history, i) \/ Orphaned(history, i)
    BY DEF EveryResultHasItsCall
  <2>1. /\ Lost \in Nat /\ Len(history) \in Nat /\ Len(log) = Lost + Len(history)
        /\ \A x \in 1 .. Len(history) : Lost + x \in 1 .. Len(log) /\ history[x] = log[Lost + x]
    BY ListIsEndOfLog
  <2>2. log \in Seq(Messages) /\ Good(log, hop, pending)
    BY InvParts
  <2>3. PICK o \in Nat : o = Lost + i /\ o \in 1 .. Len(log) /\ history[i] = log[o]
    BY <2>1
  <2>4. PICK j \in 1 .. o - 1 :
          /\ log[j].role = "calls" /\ log[o].call = o - j
          /\ \A x \in j + 1 .. o : log[x] = Message("tool", log[j].hop, x - j)
    BY <2>2, <2>3, ResultsOfAHop
  <2>5. j \in Nat /\ 0 < j /\ j < o /\ i \in Nat /\ i <= Len(history)
    BY <2>1, <2>3
  <2>m. \A n, c : /\ Message("tool", n, c).role = "tool" /\ Message("tool", n, c).hop = n
                  /\ Message("tool", n, c).call = c
    BY DEF Message
  <2>6. CASE j > Lost
    <3>1. PICK c \in Nat : c = o - j /\ 0 < c /\ c < i /\ i - c \in 1 .. Len(history)
                            /\ Lost + (i - c) = j
      BY <2>1, <2>3, <2>5, <2>6
    <3>2. history[i].call = c /\ history[i - c] = log[j]
      BY <2>1, <2>3, <2>4, <3>1
    <3>3. Answers(log, o)
      BY <2>2, <2>3 DEF Good, Paired
    <3>4. /\ log[o - c].role = "calls" /\ log[o - c].hop = log[o].hop /\ c <= log[o - c].call
          /\ \A d \in 1 .. c - 1 : log[o - d].role = "tool"
      <4>1. log[o].call = c
        BY <2>4, <3>1
      <4> QED BY <3>3, <4>1 DEF Answers
    <3>5. o - c = j
      BY <2>5, <3>1
    <3>6. ASSUME NEW d \in 1 .. c - 1 PROVE history[i - d].role = "tool"
      <4>1. i - d \in 1 .. Len(history) /\ Lost + (i - d) = o - d
        BY <2>1, <2>3, <2>5, <3>1
      <4> QED BY <2>1, <3>4, <4>1
    <3> QED BY <2>3, <3>1, <3>2, <3>4, <3>5, <3>6 DEF Answers
  <2>7. CASE j <= Lost
    <3>1. /\ Lost > 0 /\ Lost < Len(log) /\ Lost + 1 \in j + 1 .. o
          /\ \A x \in 1 .. i : x \in 1 .. Len(history) /\ Lost + x \in j + 1 .. o
      BY <2>1, <2>3, <2>5, <2>7
    <3>2. log[Lost + 1] = Message("tool", log[j].hop, (Lost + 1) - j)
      BY <2>4, <3>1
    <3>3. log[Lost + 1].call > MaxHistory
      BY <2>m, <3>1, <3>2 DEF Inv, CutWell
    <3>4. (Lost + 1) - j > MaxHistory
      BY <2>m, <3>2, <3>3
    <3>5. history[i].call > MaxHistory
      <4>1. history[i].call = o - j
        BY <2>3, <2>4
      <4>2. MaxHistory \in Nat
        BY Numbers
      <4> QED BY <2>1, <2>3, <2>5, <3>4, <4>1, <4>2
    <3>6. \A x \in 1 .. i : history[x] = Message("tool", log[j].hop, (Lost + x) - j)
      BY <2>1, <2>4, <3>1
    <3>7. history[i].hop = log[j].hop
      <4>1. i \in 1 .. i
        BY <2>5
      <4> QED BY <2>m, <3>6, <4>1
    <3> QED BY <2>m, <3>5, <3>6, <3>7 DEF Orphaned
  <2> QED BY <2>1, <2>5, <2>6, <2>7
<1> QED BY <1>1, Invariance, PTL

(* No assistant message is left with a call that has no result, other than *)
(* the one whose calls are being executed.                                 *)
THEOREM NoUnansweredCall == Spec => []EveryCallIsAnswered
<1>1. Inv => EveryCallIsAnswered
  <2> SUFFICES ASSUME Inv, NEW j \in 1 .. Len(history), history[j].role = "calls"
               PROVE  LET answered == history[j].call - (IF history[j] = hop THEN pending ELSE 0)
                      IN  /\ j + answered <= Len(history)
                          /\ \A c \in 1 .. answered :
                               history[j + c] = Message("tool", history[j].hop, c)
    BY DEF EveryCallIsAnswered
  <2> DEFINE answered == history[j].call - (IF history[j] = hop THEN pending ELSE 0)
  <2>1. /\ Lost \in Nat /\ Len(history) \in Nat /\ Len(log) = Lost + Len(history)
        /\ \A x \in 1 .. Len(history) : Lost + x \in 1 .. Len(log) /\ history[x] = log[Lost + x]
    BY ListIsEndOfLog
  <2>2. /\ log \in Seq(Messages) /\ hop \in Messages /\ pending \in 0 .. hop.call
        /\ Complete(log, hop, pending)
    BY InvParts DEF Good
  <2>3. PICK o \in Nat : o = Lost + j /\ o \in 1 .. Len(log) /\ history[j] = log[o]
    BY <2>1
  <2>4. PICK k \in Nat : k = log[o].call
    BY <2>2, <2>3, Numbers
  <2>5. /\ \A c \in 1 .. k : o + c <= Len(log) =>
             log[o + c] = Message("tool", log[o].hop, c)
        /\ o + k <= Len(log) \/ (o + k = Len(log) + pending /\ log[o] = hop)
    BY <2>2, <2>3, <2>4 DEF Complete
  <2>6. Len(log) \in Nat /\ hop.call \in Nat /\ pending \in Nat
    <3>1. Len(log) \in Nat /\ hop.call \in Nat
      BY <2>2, Numbers
    <3> QED BY <2>2, <3>1
  <2>7. PICK a \in Int : a = answered /\ a <= k /\ o + a <= Len(log)
    <3>1. CASE history[j] = hop
      <4>1. k - pending \in Int /\ k - pending <= k /\ o + (k - pending) <= Len(log)
        BY <2>5, <2>6
      <4> QED BY <2>3, <2>4, <3>1, <4>1
    <3>2. CASE history[j] # hop
      BY <2>3, <2>4, <2>5, <3>2
    <3> QED BY <3>1, <3>2
  <2>8. ASSUME NEW c \in 1 .. a PROVE history[j + c] = Message("tool", history[j].hop, c)
    <3>1. c \in 1 .. k /\ o + c <= Len(log)
      BY <2>6, <2>7
    <3>2. log[o + c] = Message("tool", log[o].hop, c)
      BY <2>5, <3>1
    <3>3. j + c \in 1 .. Len(history) /\ Lost + (j + c) = o + c
      BY <2>1, <2>3, <3>1
    <3> QED BY <2>1, <2>3, <3>2, <3>3
  <2>9. j + a <= Len(history)
    BY <2>1, <2>3, <2>7
  <2> QED BY <2>7, <2>8, <2>9
<1> QED BY <1>1, Invariance, PTL

(* The list is the end of everything that was said, and of the last        *)
(* messages that the cap allows none but tool results is missing.          *)
THEOREM NothingElseIsEvicted == Spec => []EvictsOnlyTheOldest
<1>1. Inv => EvictsOnlyTheOldest
  BY DEF Inv
<1> QED BY <1>1, Invariance, PTL
=============================================================================
