-------------------------- MODULE ChatSessionProofs --------------------------
(***************************************************************************)
(* Proofs about ChatSession, for any number of questions, tokens and       *)
(* summary tasks, and for every combination of faults.                     *)
(*                                                                         *)
(* Two invariants.  One follows an answer through the stages of its        *)
(* generator: what has been streamed by then, what is kept of it, and what *)
(* is known of its verification.  The other says of every set of turns a   *)
(* summary task carries what is wanted of the stored summary: of the       *)
(* turns in the history it holds the oldest ones, without a gap.           *)
(***************************************************************************)
EXTENDS ChatSession, NaturalsInduction, WellFoundedInduction, SequenceTheorems,
        FiniteSetTheorems, TLAPS

Shown == Pieces \ {"blank"}
Closing == {"end", "error"}

-----------------------------------------------------------------------------
(* Sequences.                                                              *)

\* A set of natural numbers has a smallest, and if it is bounded a largest.
LEMMA MinOfNat ==
    ASSUME NEW S \in SUBSET Nat, S # {}
    PROVE  Min(S) \in S /\ \A x \in S : Min(S) <= x
<1> DEFINE less == OpToRel(<, Nat)
<1>1. IsWellFoundedOn(less, Nat)
  BY NatLessThanWellFounded
<1> HIDE DEF less
<1>2. PICK m \in S : \A x \in S : ~ (<<x, m>> \in less)
  BY <1>1, WFMin
<1>3. \A x \in S : ~ (x < m)
  BY <1>2 DEF less, OpToRel
<1>4. \E x \in S : \A y \in S : x <= y
  BY <1>3
<1> QED
  BY <1>4 DEF Min

LEMMA MaxOfNat ==
    ASSUME NEW n \in Nat, NEW S \in SUBSET (0 .. n), S # {}
    PROVE  Max(S) \in S /\ \A x \in S : x <= Max(S)
<1> DEFINE left == {n - x : x \in S}
<1>1. left \in SUBSET Nat /\ left # {}
  <2>1. \A x \in S : x \in 0 .. n
    OBVIOUS
  <2>2. \A x \in S : n - x \in Nat
    BY <2>1
  <2> QED
    BY <2>2
<1>2. Min(left) \in left /\ \A l \in left : Min(left) <= l
  BY <1>1, MinOfNat
<1>3. PICK m \in S : Min(left) = n - m
  BY <1>2
<1>4. \A x \in S : n - m <= n - x
  BY <1>2, <1>3
<1>5. \E x \in S : \A y \in S : x >= y
  BY <1>4
<1> QED
  BY <1>5 DEF Max

\* What is at which position of a sequence that has been extended.
LEMMA Appended ==
    ASSUME NEW A, NEW s \in Seq(A), NEW e
    PROVE  /\ Len(Append(s, e)) = Len(s) + 1
           /\ DOMAIN Append(s, e) = 1 .. Len(s) + 1
           /\ DOMAIN s = 1 .. Len(s) /\ Len(s) \in Nat
           /\ \A i \in 1 .. Len(s) : Append(s, e)[i] = s[i]
           /\ Append(s, e)[Len(s) + 1] = e
           /\ e \in A => Append(s, e) \in Seq(A)
           /\ Append(s, e) # <<>> /\ Last(Append(s, e)) = e
BY DEF Last

\* What strip leaves is a window of the text: it starts and ends at a piece
\* that is not white space, and leaves none out.
LEMMA Stripped ==
    ASSUME NEW s \in Seq(Generated)
    PROVE  /\ Strip(s) \in Seq(Generated)
           /\ Strip(s) = <<>> => \A i \in DOMAIN s : s[i] = "blank"
           /\ Strip(s) # <<>> =>
                \E m \in Nat :
                  /\ \A i \in DOMAIN Strip(s) : m + i \in DOMAIN s /\ Strip(s)[i] = s[m + i]
                  /\ \A k \in DOMAIN s : s[k] # "blank" => k - m \in DOMAIN Strip(s)
<1> DEFINE solid == {i \in DOMAIN s : s[i] # "blank"}
<1>1. DOMAIN s = 1 .. Len(s) /\ Len(s) \in Nat
  OBVIOUS
<1>2. CASE solid = {}
  BY <1>2 DEF Strip
<1>3. CASE solid # {}
  <2> DEFINE first == Min(solid)
             final == Max(solid)
  <2>1. solid \in SUBSET Nat /\ solid \in SUBSET (0 .. Len(s))
    BY <1>1
  <2>2. first \in solid /\ \A x \in solid : first <= x
    BY <2>1, <1>3, MinOfNat
  <2>3. final \in solid /\ \A x \in solid : x <= final
    BY <2>1, <1>1, <1>3, MaxOfNat
  <2> HIDE DEF first, final
  <2>4. first \in 1 .. Len(s) /\ final \in 1 .. Len(s) /\ first <= final
    BY <2>2, <2>3, <1>1
  <2>5. Strip(s) = SubSeq(s, first, final)
    BY <1>3 DEF Strip, first, final
  <2>6. /\ Strip(s) \in Seq(Generated) /\ Len(Strip(s)) = final - first + 1
        /\ \A i \in 1 .. final - first + 1 : Strip(s)[i] = s[first + i - 1]
    BY <2>4, <2>5, <1>1, SubSeqProperties
  <2>7. DOMAIN Strip(s) = 1 .. final - first + 1
    BY <2>6
  <2>8. Strip(s) # <<>>
    BY <2>4, <2>7
  <2> DEFINE m == first - 1
  <2>9. m \in Nat
    BY <2>4, <1>1
  <2>10. ASSUME NEW i \in DOMAIN Strip(s)
         PROVE  m + i \in DOMAIN s /\ Strip(s)[i] = s[m + i]
    <3>1. i \in 1 .. final - first + 1
      BY <2>7
    <3>2. m + i = first + i - 1 /\ m + i \in 1 .. Len(s)
      BY <3>1, <2>4, <1>1
    <3>3. Strip(s)[i] = s[first + i - 1]
      BY <3>1, <2>6
    <3> QED
      BY <3>2, <3>3, <1>1
  <2>11. \A k \in DOMAIN s : s[k] # "blank" => k - m \in DOMAIN Strip(s)
    BY <2>2, <2>3, <2>4, <2>7, <1>1
  <2> QED
    BY <2>6, <2>8, <2>9, <2>10, <2>11
<1> QED
  BY <1>2, <1>3

-----------------------------------------------------------------------------
(* SameText.                                                               *)

\* An event that is no piece of an answer changes nothing.
LEMMA SameTextExtends ==
    ASSUME NEW s, NEW t \in Seq(Events), NEW e \in Events \ Pieces, SameText(s, t)
    PROVE  SameText(s, Append(t, e))
<1>1. Solid(Append(t, e)) = Solid(t)
  <2>1. \A i : i \in Solid(Append(t, e)) <=> i \in Solid(t)
    BY Appended DEF Solid
  <2> QED
    BY <2>1
<1>2. \A i \in Solid(t) : Append(t, e)[i] = t[i]
  BY Appended DEF Solid
<1>3. PICK f \in [Solid(s) -> Solid(t)] :
        /\ \A i, j \in Solid(s) : i < j => f[i] < f[j]
        /\ \A k \in Solid(t) : \E i \in Solid(s) : f[i] = k
        /\ \A i \in Solid(s) : t[f[i]] = s[i]
  BY DEF SameText
<1>4. \A i \in Solid(s) : Append(t, e)[f[i]] = s[i]
  BY <1>2, <1>3
<1> QED
  BY <1>1, <1>3, <1>4 DEF SameText

\* An answer of one piece, after events that show nothing.
LEMMA SameTextOfOne ==
    ASSUME NEW t \in Seq(Events), Solid(t) = {}, NEW p \in Shown
    PROVE  SameText(<<p>>, Append(t, p))
<1> DEFINE n == Len(t) + 1
           f == [i \in {1} |-> n]
<1>1. Solid(<<p>>) = {1}
  BY DEF Solid, Shown
<1>2. \A i \in 1 .. Len(t) : i \notin Solid(Append(t, p))
  BY Appended DEF Solid
<1>3. n \in Solid(Append(t, p))
  BY Appended DEF Solid, Shown
<1>4. Solid(Append(t, p)) = {n}
  <2>1. \A i \in Solid(Append(t, p)) : i \in 1 .. n
    BY Appended DEF Solid
  <2> QED
    BY <1>2, <1>3, <2>1, Appended
<1>5. f \in [Solid(<<p>>) -> Solid(Append(t, p))] /\ f[1] = n
  BY <1>1, <1>4
<1>6. Append(t, p)[n] = p /\ <<p>>[1] = p
  BY Appended
<1> HIDE DEF f
<1>7. /\ \A i, j \in {1} : i < j => f[i] < f[j]
      /\ \A k \in {n} : \E i \in {1} : f[i] = k
      /\ \A i \in {1} : Append(t, p)[f[i]] = <<p>>[i]
  BY <1>5, <1>6
<1> QED
  BY <1>1, <1>4, <1>5, <1>7 DEF SameText

\* A piece after both.
LEMMA SameTextGrows ==
    ASSUME NEW s \in Seq(Pieces), NEW t \in Seq(Events), SameText(s, t), NEW p \in Shown
    PROVE  SameText(Append(s, p), Append(t, p))
<1> DEFINE s2 == Append(s, p)
           t2 == Append(t, p)
           m  == Len(s) + 1
           n  == Len(t) + 1
<1>1. PICK f \in [Solid(s) -> Solid(t)] :
        /\ \A i, j \in Solid(s) : i < j => f[i] < f[j]
        /\ \A k \in Solid(t) : \E i \in Solid(s) : f[i] = k
        /\ \A i \in Solid(s) : t[f[i]] = s[i]
  BY DEF SameText
<1>2. /\ Len(s) \in Nat /\ Solid(s) \subseteq 1 .. Len(s)
      /\ \A i \in 1 .. Len(s) : s2[i] = s[i]
      /\ s2[m] = p /\ DOMAIN s2 = 1 .. m
  BY Appended DEF Solid
<1>3. /\ Len(t) \in Nat /\ Solid(t) \subseteq 1 .. Len(t)
      /\ \A i \in 1 .. Len(t) : t2[i] = t[i]
      /\ t2[n] = p /\ DOMAIN t2 = 1 .. n
  BY Appended DEF Solid
<1>4. Solid(s2) = Solid(s) \union {m}
  <2>1. \A i : i \in Solid(s2) <=> i \in Solid(s) \/ i = m
    BY <1>2, Appended DEF Solid, Shown
  <2> QED
    BY <2>1
<1>5. Solid(t2) = Solid(t) \union {n}
  <2>1. \A i : i \in Solid(t2) <=> i \in Solid(t) \/ i = n
    BY <1>3, Appended DEF Solid, Shown
  <2> QED
    BY <2>1
<1> HIDE DEF s2, t2
<1> DEFINE g == [i \in Solid(s2) |-> IF i = m THEN n ELSE f[i]]
<1>6. \A i \in Solid(s) : g[i] = f[i] /\ i \in 1 .. Len(s) /\ f[i] \in 1 .. Len(t) /\ f[i] \in Solid(t)
  BY <1>1, <1>2, <1>3, <1>4
<1>7. g[m] = n /\ g \in [Solid(s2) -> Solid(t2)]
  BY <1>4, <1>5, <1>6
<1> HIDE DEF g
<1>8. \A i, j \in Solid(s2) : i < j => g[i] < g[j]
  <2>1. TAKE i, j \in Solid(s2)
  <2>2. HAVE i < j
  <2>3. i \in Solid(s)
    BY <2>2, <1>2, <1>4
  <2>4. CASE j = m
    BY <2>3, <2>4, <1>3, <1>6, <1>7
  <2>5. CASE j \in Solid(s)
    BY <2>2, <2>3, <2>5, <1>1, <1>6
  <2> QED
    BY <2>4, <2>5, <1>4
<1>9. \A k \in Solid(t2) : \E i \in Solid(s2) : g[i] = k
  <2>1. TAKE k \in Solid(t2)
  <2>2. CASE k = n
    BY <2>2, <1>4, <1>7
  <2>3. CASE k \in Solid(t)
    <3>1. PICK i \in Solid(s) : f[i] = k
      BY <2>3, <1>1
    <3> QED
      BY <3>1, <1>4, <1>6
  <2> QED
    BY <2>2, <2>3, <1>5
<1>10. \A i \in Solid(s2) : t2[g[i]] = s2[i]
  <2>1. TAKE i \in Solid(s2)
  <2>2. CASE i = m
    BY <2>2, <1>2, <1>3, <1>7
  <2>3. CASE i \in Solid(s)
    BY <2>3, <1>1, <1>2, <1>3, <1>6
  <2> QED
    BY <2>2, <2>3, <1>4
<1>11. SameText(s2, t2)
  BY <1>7, <1>8, <1>9, <1>10 DEF SameText
<1> QED
  BY <1>11 DEF s2, t2

\* The stripped text of the model, and the stream that was opened by "start".
LEMMA SameTextStripped ==
    ASSUME NEW s \in Seq(Generated), Strip(s) # <<>>
    PROVE  SameText(Strip(s), <<"start">> \o s)
<1> DEFINE a == Strip(s)
           t == <<"start">> \o s
<1>1. PICK m \in Nat :
        /\ \A i \in DOMAIN a : m + i \in DOMAIN s /\ a[i] = s[m + i]
        /\ \A k \in DOMAIN s : s[k] # "blank" => k - m \in DOMAIN a
  BY Stripped
<1>2. a \in Seq(Generated)
  BY Stripped
<1> HIDE DEF a
<1>3. /\ DOMAIN s = 1 .. Len(s) /\ Len(s) \in Nat
      /\ DOMAIN a = 1 .. Len(a) /\ Len(a) \in Nat
  BY <1>2
<1>4. DOMAIN t = 1 .. Len(s) + 1 /\ t[1] = "start" /\ \A k \in DOMAIN s : t[k + 1] = s[k]
  OBVIOUS
<1> HIDE DEF t
<1>5. \A i : i \in Solid(a) <=> i \in DOMAIN a /\ a[i] # "blank"
  BY <1>2 DEF Solid, Pieces, Generated
<1>6. \A k : k \in Solid(t) <=> k - 1 \in DOMAIN s /\ k \in 2 .. Len(s) + 1 /\ s[k - 1] # "blank"
  <2>1. \A k \in DOMAIN s : s[k] \in Generated
    BY <1>3
  <2>2. \A k \in 2 .. Len(s) + 1 : k - 1 \in DOMAIN s /\ t[k] = s[k - 1]
    BY <1>3, <1>4
  <2>3. 1 \notin Solid(t)
    BY <1>4 DEF Solid, Pieces, Generated
  <2> QED
    BY <2>1, <2>2, <2>3, <1>3, <1>4 DEF Solid, Pieces, Generated
<1> DEFINE f == [i \in Solid(a) |-> m + i + 1]
<1>7. \A i \in Solid(a) : f[i] \in Solid(t) /\ t[f[i]] = a[i] /\ f[i] = m + i + 1
  BY <1>1, <1>3, <1>4, <1>5, <1>6
<1>8. f \in [Solid(a) -> Solid(t)]
  BY <1>7
<1> HIDE DEF f
<1>9. \A i, j \in Solid(a) : i < j => f[i] < f[j]
  BY <1>3, <1>5, <1>7
<1>10. ASSUME NEW k \in Solid(t) PROVE \E i \in Solid(a) : f[i] = k
  <2>1. k - 1 \in DOMAIN s /\ s[k - 1] # "blank" /\ k \in Nat
    BY <1>6
  <2>2. (k - 1) - m \in DOMAIN a
    BY <2>1, <1>1
  <2>3. m + ((k - 1) - m) = k - 1 /\ (k - 1) - m \in Nat
    BY <2>1, <2>2, <1>3
  <2>4. a[(k - 1) - m] = s[k - 1]
    BY <2>2, <2>3, <1>1
  <2>5. (k - 1) - m \in Solid(a)
    BY <2>1, <2>2, <2>4, <1>5
  <2> QED
    BY <2>1, <2>3, <2>5, <1>7
<1>11. SameText(a, t)
  BY <1>7, <1>8, <1>9, <1>10 DEF SameText
<1> QED
  BY <1>11 DEF a, t

\* What is shown in the stream is in the answer.
LEMMA SameTextFinds ==
    ASSUME NEW s, NEW t, SameText(s, t), NEW k \in DOMAIN t, t[k] \in Shown
    PROVE  \E i \in DOMAIN s : s[i] = t[k]
<1>1. k \in Solid(t)
  BY DEF Solid, Shown
<1> QED
  BY <1>1 DEF SameText, Solid

-----------------------------------------------------------------------------
(* The invariant of an answer.                                             *)

Early   == {"resolve", "route", "prepare", "faq", "doc"}
Serving == Early \union {"generate", "finalize", "save"}

Unended(o) == \A i \in DOMAIN o : o[i] \notin Closing

\* What has been streamed and kept by the time an answer gets to each stage.
StageInv(l) ==
    /\ l.at \in Serving \union {"finish"} =>
         Unended(l.out) /\ ~l.shown /\ l.hit # "contract_conflict"
    /\ l.at = "resolve" => l.out = <<>>
    /\ l.at \in Early \ {"resolve"} => l.out = <<"start">>
    /\ l.at \in Early => l.answer = <<>> /\ ~l.called /\ l.check = "none"
    /\ l.at \in {"generate", "finalize"} =>
         l.out = <<"start">> \o l.answer /\ l.answer \in Seq(Generated) /\ l.context
    /\ l.at = "finalize" => l.called
    /\ l.at \in {"save", "finish"} =>
         /\ SameText(l.answer, l.out)
         /\ l.called <=> l.check \in Verdicts
         /\ l.called => l.context
         /\ ~l.called => l.check \in {"none", "pending"}

\* How its question stands to the turns T that are stored and the turns K that
\* are or have been: it becomes one of them between "save" and "finish".
AskInv(l, T, K) ==
    /\ l.at \in Serving => l.ask # 0 /\ l.ask \notin K
    /\ l.at = "finish" => l.ask \in K
    /\ Ended(l) => l.at \in {"ready", "closed"}
    /\ l.ask \in T => SameText(l.answer, l.out)

\* What is true of an answer that has ended, in a session whose contract is c.
EndInv(l, K, c) ==
    /\ \A i \in 1 .. Len(l.out) - 1 : l.out[i] \notin Closing
    /\ l.at = "ready" /\ l.out # <<>> => Ended(l)
    /\ Ended(l) /\ l.ask # 0 /\ l.hit # "contract_conflict" =>
         (Last(l.out) = "end" <=> l.ask \in K)
    /\ Ended(l) /\ Last(l.out) = "end" /\ l.hit # "contract_conflict" =>
         /\ l.check \in Verdicts <=> l.called
         /\ ~l.called => l.check = "not_applicable"
         /\ l.called => l.context
    /\ c /\ Ended(l) /\ (\E i \in DOMAIN l.out : l.out[i] = "none_found") => ~l.shown

AnswerOf(l, T, K, c) == l \in Locals /\ StageInv(l) /\ AskInv(l, T, K) /\ EndInv(l, K, c)

\* The turns of history h and those that are gone are n questions, each stored once.
Accounted(h, gone, n) ==
    /\ ToSet(h) \union gone \subseteq 1 .. n
    /\ \A i, j \in DOMAIN h : h[i] = h[j] => i = j

Typed ==
    /\ contract \in BOOLEAN /\ clearing \in BOOLEAN
    /\ asked \in 0 .. MaxAsks
    /\ history \in Seq(Asks)
    /\ summary \subseteq Asks /\ cleared \subseteq Asks
    /\ task \in [Asks -> Tasks]

AnswerInv ==
    /\ Typed
    /\ Accounted(history, cleared, asked) /\ tab.ask <= asked
    /\ AnswerOf(tab, Turns, Turns \union cleared, contract)

-----------------------------------------------------------------------------
(* Steps of the generator.                                                 *)

\* A yielded event is sent and the generator goes on, or it is dropped.
LEMMA Emitted ==
    ASSUME NEW l \in Locals, NEW e \in Events, NEW to \in Stages
    PROVE  /\ Emit(l, e, to) \in Locals
           /\ l.open => Emit(l, e, to).out = Append(l.out, e) /\ Emit(l, e, to).at = to
           /\ ~l.open => Emit(l, e, to).out = l.out /\ Emit(l, e, to).at = "closed"
           /\ Emit(l, e, to).open = l.open /\ Emit(l, e, to).ask = l.ask
           /\ Emit(l, e, to).answer = l.answer /\ Emit(l, e, to).hit = l.hit
           /\ Emit(l, e, to).check = l.check /\ Emit(l, e, to).called = l.called
           /\ Emit(l, e, to).context = l.context /\ Emit(l, e, to).sources = l.sources
           /\ Emit(l, e, to).shown = l.shown
<1>1. Append(l.out, e) \in Seq(Events)
  BY Appended DEF Locals
<1>2. "closed" \in Stages
  BY DEF Stages
<1>3. CASE l.open
  BY <1>1, <1>3 DEF Emit, Locals
<1>4. CASE ~l.open
  BY <1>2, <1>4 DEF Emit, Locals
<1> QED
  BY <1>3, <1>4

\* What has not ended is not Ended, and one more event that is no ending keeps it so.
LEMMA UnendedFacts ==
    ASSUME NEW o \in Seq(Events), Unended(o)
    PROVE  /\ o # <<>> => Last(o) \notin Closing
           /\ \A i \in 1 .. Len(o) - 1 : o[i] \notin Closing
           /\ \A e \in Events \ Closing : Unended(Append(o, e))
           /\ \A e \in Events :
                \A i \in 1 .. Len(Append(o, e)) - 1 : Append(o, e)[i] \notin Closing
<1>1. DOMAIN o = 1 .. Len(o) /\ Len(o) \in Nat
  OBVIOUS
<1>2. o # <<>> => Len(o) \in DOMAIN o
  BY <1>1
<1>3. \A e \in Events \ Closing : Unended(Append(o, e))
  BY Appended DEF Unended
<1>4. \A e \in Events : \A i \in 1 .. Len(Append(o, e)) - 1 : Append(o, e)[i] \notin Closing
  BY Appended DEF Unended
<1> QED
  BY <1>1, <1>2, <1>3, <1>4 DEF Unended, Last

\* At work.
LEMMA AtWork ==
    ASSUME NEW m \in Locals, NEW K, NEW T \in SUBSET K, NEW c,
           m.at \in Serving \union {"finish"}, StageInv(m),
           m.at \in Serving => m.ask # 0 /\ m.ask \notin K,
           m.at = "finish" => m.ask \in K
    PROVE  AnswerOf(m, T, K, c)
<1>1. m.out \in Seq(Events) /\ Unended(m.out)
  BY DEF Locals, StageInv
<1>2. ~Ended(m)
  BY <1>1, UnendedFacts DEF Ended, Closing
<1>3. m.at # "ready"
  BY DEF Serving, Early
<1>4. m.ask \in T => SameText(m.answer, m.out)
  BY DEF StageInv, Serving
<1> QED
  BY <1>1, <1>2, <1>3, <1>4, UnendedFacts DEF AnswerOf, AskInv, EndInv

\* Nothing asked on this connection yet, or the client left before the answer ended.
LEMMA NotEnded ==
    ASSUME NEW m \in Locals, NEW T, NEW K, NEW c,
           m.at = "closed" \/ (m.at = "ready" /\ m.out = <<>>), Unended(m.out),
           m.ask \in T => SameText(m.answer, m.out)
    PROVE  AnswerOf(m, T, K, c)
<1>1. m.out \in Seq(Events)
  BY DEF Locals
<1>2. ~Ended(m)
  BY <1>1, UnendedFacts DEF Ended, Closing
<1>3. StageInv(m)
  BY DEF StageInv, Serving, Early
<1> QED
  BY <1>1, <1>2, <1>3, UnendedFacts DEF AnswerOf, AskInv, EndInv, Serving, Early

\* The answer ends in an error, before it is saved.
LEMMA EndedInError ==
    ASSUME NEW m \in Locals, NEW K, NEW T \in SUBSET K, NEW c,
           NEW o \in Seq(Events), Unended(o), m.out = Append(o, "error"),
           m.at \in {"ready", "closed"}, m.ask \notin K, ~m.shown
    PROVE  AnswerOf(m, T, K, c)
<1>1. Ended(m) /\ Last(m.out) = "error"
  BY Appended DEF Ended
<1>2. StageInv(m)
  BY DEF StageInv, Serving, Early
<1>3. \A i \in 1 .. Len(m.out) - 1 : m.out[i] \notin Closing
  BY UnendedFacts DEF Events
<1> QED
  BY <1>1, <1>2, <1>3 DEF AnswerOf, AskInv, EndInv, Serving, Early

\* It ends well.
LEMMA EndedWell ==
    ASSUME NEW m \in Locals, NEW T, NEW K, NEW c,
           NEW o \in Seq(Events), Unended(o), m.out = Append(o, "end"), m.at = "ready",
           m.hit # "contract_conflict" =>
             /\ m.ask \in K
             /\ m.check \in Verdicts <=> m.called
             /\ ~m.called => m.check = "not_applicable"
             /\ m.called => m.context,
           m.ask \in T => SameText(m.answer, o),
           c /\ (\E i \in DOMAIN o : o[i] = "none_found") => ~m.shown
    PROVE  AnswerOf(m, T, K, c)
<1>1. Ended(m) /\ Last(m.out) = "end"
  BY Appended DEF Ended
<1>2. StageInv(m)
  BY DEF StageInv, Serving, Early
<1>3. \A i \in 1 .. Len(m.out) - 1 : m.out[i] \notin Closing
  BY UnendedFacts DEF Events
<1>4. m.ask \in T => SameText(m.answer, m.out)
  BY SameTextExtends DEF Events, Pieces, Generated
<1>5. (\E i \in DOMAIN m.out : m.out[i] = "none_found") => \E i \in DOMAIN o : o[i] = "none_found"
  BY Appended
<1> QED
  BY <1>1, <1>2, <1>3, <1>4, <1>5 DEF AnswerOf, AskInv, EndInv, Serving, Early

\* To show what an event leads to, it is enough to look at a client that is there.
LEMMA IfOpen ==
    ASSUME NEW l \in Locals, NEW T, NEW K, NEW c, NEW e \in Events, NEW to \in Stages,
           Unended(l.out), l.ask \in T => SameText(l.answer, l.out),
           l.open => AnswerOf(Emit(l, e, to), T, K, c)
    PROVE  AnswerOf(Emit(l, e, to), T, K, c)
<1> DEFINE m == Emit(l, e, to)
<1>1. CASE ~l.open
  <2>1. m \in Locals /\ m.at = "closed" /\ m.out = l.out /\ m.ask = l.ask /\ m.answer = l.answer
    BY <1>1, Emitted
  <2> HIDE DEF m
  <2>2. AnswerOf(m, T, K, c)
    BY <2>1, NotEnded
  <2> QED
    BY <2>2 DEF m
<1> QED
  BY <1>1

\* An answer of one piece is streamed, and then it is saved.
LEMMA Singled ==
    ASSUME NEW l \in Locals, NEW p \in Shown, NEW K, NEW T \in SUBSET K, NEW c,
           Unended(l.out), Solid(l.out) = {}, l.ask # 0, l.ask \notin K,
           ~l.shown, l.hit # "contract_conflict",
           l.called <=> l.check \in Verdicts,
           l.called => l.context, ~l.called => l.check \in {"none", "pending"}
    PROVE  AnswerOf(Single(l, p), T, K, c)
<1> DEFINE k == [l EXCEPT !.answer = <<p>>]
           m == Emit(k, p, "save")
<1>1. /\ k \in Locals /\ k.out = l.out /\ k.ask = l.ask /\ k.answer = <<p>> /\ k.hit = l.hit
      /\ k.check = l.check /\ k.called = l.called /\ k.context = l.context
      /\ k.shown = l.shown /\ k.open = l.open
  <2>1. <<p>> \in Seq(Pieces)
    BY DEF Shown
  <2> QED
    BY <2>1 DEF Locals
<1>2. p \in Events \ Closing /\ "save" \in Stages
  BY DEF Shown, Closing, Events, Pieces, Generated, Stages
<1> HIDE DEF k
<1>3. ASSUME k.open PROVE AnswerOf(m, T, K, c)
  <2>1. /\ m \in Locals /\ m.out = Append(l.out, p) /\ m.at = "save" /\ m.ask = l.ask
        /\ m.answer = <<p>> /\ m.hit = l.hit /\ m.check = l.check /\ m.called = l.called
        /\ m.context = l.context /\ m.shown = l.shown
    BY <1>1, <1>2, <1>3, Emitted
  <2> HIDE DEF m
  <2>2. l.out \in Seq(Events)
    BY DEF Locals
  <2>3. Unended(m.out)
    BY <1>2, <2>1, <2>2, UnendedFacts
  <2>4. SameText(m.answer, m.out)
    BY <2>1, <2>2, SameTextOfOne
  <2>5. StageInv(m)
    BY <2>1, <2>3, <2>4 DEF StageInv, Early
  <2>6. AnswerOf(m, T, K, c)
    BY <2>1, <2>5, AtWork DEF Serving
  <2> QED
    BY <2>6 DEF m
<1>4. AnswerOf(m, T, K, c)
  BY <1>1, <1>2, <1>3, IfOpen
<1> QED
  BY <1>4 DEF m, k, Single

\* What is known of an answer while it is being worked on.
LEMMA Working ==
    ASSUME NEW l, NEW K, NEW T \in SUBSET K, NEW c, AnswerOf(l, T, K, c), l.at \in Serving
    PROVE  /\ l \in Locals /\ l.out \in Seq(Events) /\ Unended(l.out) /\ StageInv(l)
           /\ l.ask # 0 /\ l.ask \notin K /\ l.ask \notin T
           /\ ~l.shown /\ l.hit # "contract_conflict"
BY DEF AnswerOf, StageInv, AskInv, Locals

\* Before anything is generated, only "start" may have been streamed.
LEMMA NothingStreamed ==
    /\ Solid(<<>>) = {} /\ Solid(<<"start">>) = {}
    /\ Unended(<<>>) /\ Unended(<<"start">>)
BY DEF Solid, Unended, Closing, Pieces, Generated

-----------------------------------------------------------------------------
(* The actions that only move the connection.                              *)

LEMMA ConflictKeeps ==
    ASSUME NEW K, NEW T \in SUBSET K, AnswerOf(tab, T, K, contract), Conflict
    PROVE  AnswerOf(tab', T, K, contract)
<1> DEFINE l == [tab EXCEPT !.hit = "contract_conflict", !.shown = TRUE]
           k == Emit(l, "conflict", "ready")
           m == Emit(k, "end", "ready")
<1>1. tab.at = "resolve" /\ tab' = m
  BY DEF Conflict, Become
<1>2. /\ tab \in Locals /\ tab.ask \notin T /\ tab.out = <<>>
  BY <1>1, Working DEF Serving, Early, StageInv
<1>3. /\ l \in Locals /\ l.out = <<>> /\ l.ask = tab.ask /\ l.hit = "contract_conflict"
  BY <1>2 DEF Locals, HitTypes
<1>4. {"conflict", "end"} \subseteq Events /\ "ready" \in Stages
  BY DEF Events, Pieces, Stages
<1> HIDE DEF l
<1>5. /\ k \in Locals /\ k.ask = tab.ask /\ k.hit = "contract_conflict" /\ k.open = l.open
      /\ l.open => k.out = Append(<<>>, "conflict")
      /\ ~l.open => k.out = <<>> /\ k.at = "closed"
  BY <1>3, <1>4, Emitted
<1> HIDE DEF k
<1>6. CASE l.open
  <2>1. k.out \in Seq(Events) /\ Unended(k.out) /\ \A i \in DOMAIN k.out : k.out[i] # "none_found"
    <3>1. Append(<<>>, "conflict") = <<"conflict">>
      OBVIOUS
    <3>2. k.out = <<"conflict">>
      BY <1>5, <1>6, <3>1
    <3>3. <<"conflict">> \in Seq(Events)
      BY <1>4
    <3> QED
      BY <3>2, <3>3 DEF Unended, Closing
  <2>2. m \in Locals /\ m.ask = tab.ask /\ m.hit = "contract_conflict" /\ m.at = "ready"
        /\ m.out = Append(k.out, "end")
    BY <1>4, <1>5, <1>6, Emitted
  <2> HIDE DEF m
  <2>3. AnswerOf(m, T, K, contract)
    BY <1>2, <2>1, <2>2, EndedWell
  <2> QED
    BY <1>1, <2>3
<1>7. CASE ~l.open
  <2>1. m \in Locals /\ m.ask = tab.ask /\ m.at = "closed" /\ m.out = <<>>
    BY <1>4, <1>5, <1>7, Emitted
  <2> HIDE DEF m
  <2>2. AnswerOf(m, T, K, contract)
    BY <1>2, <2>1, NothingStreamed, NotEnded
  <2> QED
    BY <1>1, <2>2
<1> QED
  BY <1>6, <1>7

LEMMA ResolveFailsKeeps ==
    ASSUME NEW K, NEW T \in SUBSET K, AnswerOf(tab, T, K, contract), ResolveFails
    PROVE  AnswerOf(tab', T, K, contract)
<1> DEFINE k == Emit(tab, "error", "closed")
           m == [k EXCEPT !.open = FALSE]
<1>1. tab.at = "resolve" /\ tab' = m
  BY DEF ResolveFails, Become
<1>2. /\ tab \in Locals /\ tab.ask \notin K /\ tab.ask \notin T /\ tab.out = <<>> /\ ~tab.shown
  BY <1>1, Working DEF Serving, Early, StageInv
<1>3. "error" \in Events /\ "closed" \in Stages
  BY DEF Events, Stages
<1>4. /\ k \in Locals /\ k.ask = tab.ask /\ k.at = "closed" /\ k.shown = tab.shown
      /\ tab.open => k.out = Append(<<>>, "error")
      /\ ~tab.open => k.out = <<>>
  BY <1>2, <1>3, Emitted
<1> HIDE DEF k
<1>5. /\ m \in Locals /\ m.ask = k.ask /\ m.at = k.at /\ m.shown = k.shown /\ m.out = k.out
  BY <1>4 DEF Locals
<1> HIDE DEF m
<1>6. CASE tab.open
  <2>1. AnswerOf(m, T, K, contract)
    <3>1. <<>> \in Seq(Events) /\ m.out = Append(<<>>, "error")
      BY <1>4, <1>5, <1>6
    <3> QED
      BY <1>2, <1>4, <1>5, <3>1, NothingStreamed, EndedInError
  <2> QED
    BY <1>1, <2>1
<1>7. CASE ~tab.open
  <2>1. AnswerOf(m, T, K, contract)
    BY <1>2, <1>4, <1>5, <1>7, NothingStreamed, NotEnded
  <2> QED
    BY <1>1, <2>1
<1> QED
  BY <1>6, <1>7

LEMMA StartKeeps ==
    ASSUME NEW K, NEW T \in SUBSET K, AnswerOf(tab, T, K, contract), Start
    PROVE  AnswerOf(tab', T, K, contract)
<1> DEFINE m == Emit(tab, "start", "route")
<1>1. tab.at = "resolve" /\ tab' = m
  BY DEF Start, Become
<1>2. /\ tab \in Locals /\ tab.ask \notin K /\ tab.ask \notin T /\ tab.out = <<>> /\ ~tab.shown
      /\ tab.ask # 0 /\ tab.hit # "contract_conflict" /\ tab.answer = <<>> /\ ~tab.called
      /\ tab.check = "none"
  BY <1>1, Working DEF Serving, Early, StageInv
<1>3. "start" \in Events /\ "route" \in Stages
  BY DEF Events, Stages
<1>4. ASSUME tab.open PROVE AnswerOf(m, T, K, contract)
  <2>1. /\ m \in Locals /\ m.ask = tab.ask /\ m.at = "route" /\ m.shown = tab.shown
        /\ m.out = Append(<<>>, "start") /\ m.answer = <<>> /\ m.called = tab.called
        /\ m.hit = tab.hit /\ m.check = tab.check
    BY <1>2, <1>3, <1>4, Emitted
  <2>2. Append(<<>>, "start") = <<"start">>
    OBVIOUS
  <2> HIDE DEF m
  <2>3. StageInv(m)
    BY <1>2, <2>1, <2>2, NothingStreamed DEF StageInv, Early
  <2>4. AnswerOf(m, T, K, contract)
    BY <1>2, <2>1, <2>3, AtWork DEF Serving, Early
  <2> QED
    BY <2>4 DEF m
<1>5. AnswerOf(m, T, K, contract)
  BY <1>2, <1>3, <1>4, NothingStreamed, IfOpen
<1> QED
  BY <1>1, <1>5

\* The stages in which "start" is all that has been streamed.
LEMMA Opened ==
    ASSUME NEW K, NEW T \in SUBSET K, AnswerOf(tab, T, K, contract),
           tab.at \in {"route", "prepare", "faq", "doc"}
    PROVE  /\ tab \in Locals /\ tab.out = <<"start">> /\ tab.answer = <<>>
           /\ ~tab.called /\ tab.check = "none" /\ ~tab.shown /\ tab.hit # "contract_conflict"
           /\ tab.ask # 0 /\ tab.ask \notin K /\ tab.ask \notin T
           /\ Unended(tab.out) /\ Solid(tab.out) = {}
BY Working, NothingStreamed DEF Serving, Early, StageInv

\* On to the next of them.
LEMMA GoesOn ==
    ASSUME NEW K, NEW T \in SUBSET K, AnswerOf(tab, T, K, contract),
           tab.at \in {"route", "prepare", "faq", "doc"},
           NEW to \in {"prepare", "faq", "doc"}
    PROVE  AnswerOf([tab EXCEPT !.at = to], T, K, contract)
<1> DEFINE m == [tab EXCEPT !.at = to]
<1>1. /\ m \in Locals /\ m.at = to /\ m.out = tab.out /\ m.answer = tab.answer /\ m.ask = tab.ask
      /\ m.called = tab.called /\ m.check = tab.check /\ m.shown = tab.shown /\ m.hit = tab.hit
  BY Opened DEF Locals, Stages
<1> HIDE DEF m
<1>2. StageInv(m)
  BY <1>1, Opened DEF StageInv, Early
<1>3. AnswerOf(m, T, K, contract)
  BY <1>1, <1>2, Opened, AtWork DEF Serving, Early
<1> QED
  BY <1>3 DEF m

\* A rule, the FAQ, or the lack of context answers.
LEMMA AnswersAtOnce ==
    ASSUME NEW K, NEW T \in SUBSET K, AnswerOf(tab, T, K, contract),
           tab.at \in {"route", "prepare", "faq", "doc"},
           NEW p \in Shown, NEW l \in Locals,
           l.out = tab.out, l.ask = tab.ask, l.called = tab.called, l.shown = tab.shown,
           l.hit # "contract_conflict", l.check \in {"none", "pending"}
    PROVE  AnswerOf(Single(l, p), T, K, contract)
BY Opened, Singled DEF Verdicts

LEMMA RouteKeeps ==
    ASSUME NEW K, NEW T \in SUBSET K, AnswerOf(tab, T, K, contract),
           Route \/ PrepareRetrieval \/ SearchFaq
    PROVE  AnswerOf(tab', T, K, contract)
<1>1. {"rule", "faq", "none_found"} \subseteq Shown
  BY DEF Shown, Pieces, Generated
<1>2. tab.at \in {"route", "prepare", "faq", "doc"} /\ tab \in Locals /\ tab.check = "none"
  BY Opened DEF Route, PrepareRetrieval, SearchFaq
<1>3. CASE tab' = Single([tab EXCEPT !.hit = "rule"], "rule")
  <2> DEFINE l == [tab EXCEPT !.hit = "rule"]
  <2>1. /\ l \in Locals /\ l.out = tab.out /\ l.ask = tab.ask /\ l.called = tab.called
        /\ l.shown = tab.shown /\ l.hit = "rule" /\ l.check = tab.check
    BY <1>2 DEF Locals, HitTypes
  <2> HIDE DEF l
  <2>2. AnswerOf(Single(l, "rule"), T, K, contract)
    BY <1>1, <1>2, <2>1, AnswersAtOnce
  <2> QED
    BY <1>3, <2>2 DEF l
<1>4. ASSUME NEW s \in BOOLEAN,
             tab' = Single([tab EXCEPT !.hit = "faq_direct", !.sources = s, !.check = "pending"], "faq")
      PROVE  AnswerOf(tab', T, K, contract)
  <2> DEFINE l == [tab EXCEPT !.hit = "faq_direct", !.sources = s, !.check = "pending"]
  <2>1. /\ l \in Locals /\ l.out = tab.out /\ l.ask = tab.ask /\ l.called = tab.called
        /\ l.shown = tab.shown /\ l.hit = "faq_direct" /\ l.check = "pending"
    BY <1>2 DEF Locals, HitTypes, Checks
  <2> HIDE DEF l
  <2>2. AnswerOf(Single(l, "faq"), T, K, contract)
    BY <1>1, <1>2, <2>1, AnswersAtOnce
  <2> QED
    BY <1>4, <2>2 DEF l
<1>5. ASSUME NEW to \in {"prepare", "faq", "doc"}, tab' = [tab EXCEPT !.at = to]
      PROVE  AnswerOf(tab', T, K, contract)
  BY <1>2, <1>5, GoesOn
<1> QED
  BY <1>3, <1>4, <1>5 DEF Route, PrepareRetrieval, SearchFaq, Become

LEMMA SearchDocKeeps ==
    ASSUME NEW K, NEW T \in SUBSET K, AnswerOf(tab, T, K, contract), SearchDoc
    PROVE  AnswerOf(tab', T, K, contract)
<1>1. tab.at = "doc" /\ tab \in Locals /\ tab.out = <<"start">> /\ tab.answer = <<>> /\ tab.ask # 0
      /\ tab.ask \notin K /\ ~tab.called /\ ~tab.shown
  BY Opened DEF SearchDoc
<1>2. ASSUME NEW s \in BOOLEAN,
             tab' = Single([tab EXCEPT !.hit = "insufficient_context", !.sources = s,
                                       !.check = "pending"], "none_found")
      PROVE  AnswerOf(tab', T, K, contract)
  <2> DEFINE l == [tab EXCEPT !.hit = "insufficient_context", !.sources = s, !.check = "pending"]
  <2>1. /\ l \in Locals /\ l.out = tab.out /\ l.ask = tab.ask /\ l.called = tab.called
        /\ l.shown = tab.shown /\ l.hit = "insufficient_context" /\ l.check = "pending"
    BY <1>1 DEF Locals, HitTypes, Checks
  <2>2. "none_found" \in Shown
    BY DEF Shown, Pieces, Generated
  <2> HIDE DEF l
  <2>3. AnswerOf(Single(l, "none_found"), T, K, contract)
    BY <1>1, <2>1, <2>2, AnswersAtOnce
  <2> QED
    BY <1>2, <2>3 DEF l
<1>3. CASE tab' = [tab EXCEPT !.at = "generate", !.hit = "rag", !.sources = TRUE,
                              !.context = TRUE, !.check = "pending"]
  <2>1. /\ tab' \in Locals /\ tab'.at = "generate" /\ tab'.out = <<"start">> /\ tab'.answer = <<>>
        /\ tab'.ask = tab.ask /\ tab'.hit = "rag" /\ tab'.context /\ ~tab'.shown
    BY <1>1, <1>3 DEF Locals, HitTypes, Checks, Stages
  <2>2. <<"start">> \o <<>> = <<"start">> /\ <<>> \in Seq(Generated)
    OBVIOUS
  <2>3. StageInv(tab')
    BY <2>1, <2>2, NothingStreamed DEF StageInv, Early
  <2> QED
    BY <1>1, <2>1, <2>3, AtWork DEF Serving, Early
<1> QED
  BY <1>2, <1>3 DEF SearchDoc, Become

\* What is known while the model's text is streamed.
LEMMA Generating ==
    ASSUME NEW K, NEW T \in SUBSET K, AnswerOf(tab, T, K, contract),
           tab.at \in {"generate", "finalize"}
    PROVE  /\ tab \in Locals /\ tab.out = <<"start">> \o tab.answer
           /\ tab.answer \in Seq(Generated) /\ tab.context /\ Unended(tab.out)
           /\ tab.out \in Seq(Events) /\ ~tab.shown /\ tab.hit # "contract_conflict"
           /\ tab.ask # 0 /\ tab.ask \notin K /\ tab.ask \notin T
           /\ tab.at = "finalize" => tab.called
BY Working DEF Serving, Early, StageInv

LEMMA TokenKeeps ==
    ASSUME NEW K, NEW T \in SUBSET K, AnswerOf(tab, T, K, contract), Token
    PROVE  AnswerOf(tab', T, K, contract)
<1>1. PICK p \in Generated :
        tab' = Emit([tab EXCEPT !.answer = Append(@, p), !.called = TRUE], p, "generate")
  BY DEF Token, Become
<1> DEFINE l == [tab EXCEPT !.answer = Append(@, p), !.called = TRUE]
           m == Emit(l, p, "generate")
<1>2. tab.at = "generate"
  BY DEF Token
<1>3. Append(tab.answer, p) \in Seq(Generated) /\ Append(tab.answer, p) \in Seq(Pieces)
  BY <1>2, Generating DEF Pieces
<1>4. /\ l \in Locals /\ l.out = tab.out /\ l.answer = Append(tab.answer, p) /\ l.ask = tab.ask
      /\ l.context = tab.context /\ l.shown = tab.shown /\ l.hit = tab.hit /\ l.open = tab.open
  BY <1>2, <1>3, Generating DEF Locals
<1>5. p \in Events \ Closing /\ "generate" \in Stages
  BY DEF Events, Pieces, Generated, Closing, Stages
<1> HIDE DEF l
<1>6. ASSUME l.open PROVE AnswerOf(m, T, K, contract)
  <2>1. /\ m \in Locals /\ m.out = Append(tab.out, p) /\ m.at = "generate"
        /\ m.answer = Append(tab.answer, p) /\ m.ask = tab.ask /\ m.context = tab.context
        /\ m.shown = tab.shown /\ m.hit = tab.hit
    BY <1>4, <1>5, <1>6, Emitted
  <2> HIDE DEF m
  <2>2. Unended(m.out)
    BY <1>2, <1>5, <2>1, Generating, UnendedFacts
  <2>3. m.out = <<"start">> \o m.answer
    <3>1. Append(<<"start">> \o tab.answer, p) = <<"start">> \o Append(tab.answer, p)
      BY <1>2, Generating
    <3> QED
      BY <1>2, <2>1, <3>1, Generating
  <2>4. StageInv(m)
    BY <1>2, <1>3, <2>1, <2>2, <2>3, Generating DEF StageInv, Early
  <2>5. AnswerOf(m, T, K, contract)
    BY <1>2, <2>1, <2>4, Generating, AtWork DEF Serving
  <2> QED
    BY <2>5 DEF m
<1>7. AnswerOf(m, T, K, contract)
  BY <1>2, <1>4, <1>5, <1>6, Generating, IfOpen
<1> QED
  BY <1>1, <1>7 DEF m, l

LEMMA StreamEndsKeeps ==
    ASSUME NEW K, NEW T \in SUBSET K, AnswerOf(tab, T, K, contract), StreamEnds
    PROVE  AnswerOf(tab', T, K, contract)
<1>1. tab.at = "generate" /\ tab' = [tab EXCEPT !.at = "finalize", !.called = TRUE]
  BY DEF StreamEnds, Become
<1>2. /\ tab' \in Locals /\ tab'.at = "finalize" /\ tab'.called /\ tab'.out = tab.out
      /\ tab'.answer = tab.answer /\ tab'.ask = tab.ask /\ tab'.context = tab.context
      /\ tab'.shown = tab.shown /\ tab'.hit = tab.hit
  BY <1>1, Generating DEF Locals, Stages
<1>3. StageInv(tab')
  BY <1>1, <1>2, Generating DEF StageInv, Early
<1> QED
  BY <1>1, <1>2, <1>3, Generating, AtWork DEF Serving

\* An answer that has been verified and, as streamed, is ready to be saved.
LEMMA Verified ==
    ASSUME NEW K, NEW T \in SUBSET K, NEW c, NEW m \in Locals, m.at = "save",
           m.ask # 0, m.ask \notin K, ~m.shown, m.hit # "contract_conflict",
           m.called, m.context, m.check \in Verdicts,
           Unended(m.out), SameText(m.answer, m.out)
    PROVE  AnswerOf(m, T, K, c)
<1>1. StageInv(m)
  BY DEF StageInv, Early
<1> QED
  BY <1>1, AtWork DEF Serving

LEMMA FinalizeKeeps ==
    ASSUME NEW K, NEW T \in SUBSET K, AnswerOf(tab, T, K, contract), Finalize
    PROVE  AnswerOf(tab', T, K, contract)
<1> DEFINE answer == Strip(tab.answer)
<1>1. tab.at = "finalize" /\ tab.called
  BY Generating DEF Finalize
<1>2. answer \in Seq(Generated) /\ answer \in Seq(Pieces)
  BY <1>1, Generating, Stripped DEF Pieces
<1>3. ASSUME answer = <<>>, tab' = Single([tab EXCEPT !.check = "failed"], "fixed")
      PROVE  AnswerOf(tab', T, K, contract)
  <2> DEFINE l == [tab EXCEPT !.check = "failed"]
  <2>1. /\ l \in Locals /\ l.out = tab.out /\ l.ask = tab.ask /\ l.called = tab.called
        /\ l.context = tab.context /\ l.shown = tab.shown /\ l.hit = tab.hit /\ l.check = "failed"
    BY <1>1, Generating DEF Locals, Checks, Verdicts
  <2> HIDE DEF l
  <2>2. Solid(l.out) = {}
    <3>1. \A i \in DOMAIN tab.answer : tab.answer[i] = "blank"
      BY <1>1, <1>3, Generating, Stripped
    <3>2. \A i \in DOMAIN tab.out : tab.out[i] \in {"start", "blank"}
      BY <1>1, <3>1, Generating
    <3> QED
      BY <2>1, <3>2 DEF Solid, Pieces, Generated
  <2>3. "fixed" \in Shown /\ "failed" \in Verdicts
    BY DEF Shown, Pieces, Verdicts
  <2>4. AnswerOf(Single(l, "fixed"), T, K, contract)
    BY <1>1, <2>1, <2>2, <2>3, Generating, Singled
  <2> QED
    BY <1>3, <2>4 DEF l
<1>4. ASSUME NEW v \in Verdicts, answer # <<>>
      PROVE  LET l == [tab EXCEPT !.check = v, !.answer = answer] IN
             /\ AnswerOf([l EXCEPT !.at = "save"], T, K, contract)
             /\ AnswerOf(Emit([l EXCEPT !.answer = answer \o <<"refs">>], "refs", "save"),
                         T, K, contract)
  <2> DEFINE l == [tab EXCEPT !.check = v, !.answer = answer]
             m == [l EXCEPT !.at = "save"]
             r == [l EXCEPT !.answer = answer \o <<"refs">>]
             e == Emit(r, "refs", "save")
  <2>1. SameText(answer, tab.out)
    <3>1. tab.answer \in Seq(Generated) /\ tab.out = <<"start">> \o tab.answer
      BY <1>1, Generating
    <3>2. SameText(Strip(tab.answer), <<"start">> \o tab.answer)
      BY <1>4, <3>1, SameTextStripped
    <3> QED
      BY <3>1, <3>2
  <2>2. /\ l \in Locals /\ l.out = tab.out /\ l.answer = answer /\ l.ask = tab.ask
        /\ l.called = tab.called /\ l.context = tab.context /\ l.shown = tab.shown
        /\ l.hit = tab.hit /\ l.check = v
    BY <1>1, <1>2, Generating DEF Locals, Checks
  <2> HIDE DEF l, answer
  <2>3. AnswerOf(m, T, K, contract)
    <3>1. /\ m \in Locals /\ m.at = "save" /\ m.out = l.out /\ m.answer = l.answer /\ m.ask = l.ask
          /\ m.called = l.called /\ m.context = l.context /\ m.shown = l.shown
          /\ m.hit = l.hit /\ m.check = l.check
      BY <2>2 DEF Locals, Stages
    <3> HIDE DEF m
    <3> QED
      BY <1>1, <2>1, <2>2, <3>1, Generating, Verified
  <2>4. answer \o <<"refs">> = Append(answer, "refs") /\ "refs" \in Shown
    BY <1>2 DEF Shown, Pieces, Generated
  <2>5. Append(answer, "refs") \in Seq(Pieces)
    BY <1>2, <2>4, Appended DEF Shown
  <2>6. /\ r \in Locals /\ r.out = l.out /\ r.answer = Append(answer, "refs") /\ r.ask = l.ask
        /\ r.called = l.called /\ r.context = l.context /\ r.shown = l.shown
        /\ r.hit = l.hit /\ r.check = l.check /\ r.open = l.open
    BY <2>2, <2>4, <2>5 DEF Locals
  <2> HIDE DEF r
  <2>7. "refs" \in Events \ Closing /\ "save" \in Stages
    BY DEF Events, Pieces, Closing, Stages
  <2>8. ASSUME r.open PROVE AnswerOf(e, T, K, contract)
    <3>1. /\ e \in Locals /\ e.at = "save" /\ e.out = Append(tab.out, "refs")
          /\ e.answer = Append(answer, "refs") /\ e.ask = l.ask
          /\ e.called = l.called /\ e.context = l.context /\ e.shown = l.shown
          /\ e.hit = l.hit /\ e.check = l.check
      BY <2>2, <2>6, <2>7, <2>8, Emitted
    <3> HIDE DEF e
    <3>2. Unended(e.out)
      BY <1>1, <2>7, <3>1, Generating, UnendedFacts
    <3>3. SameText(e.answer, e.out)
      BY <1>1, <1>2, <2>1, <2>4, <3>1, Generating, SameTextGrows
    <3>4. AnswerOf(e, T, K, contract)
      BY <1>1, <2>2, <3>1, <3>2, <3>3, Generating, Verified
    <3> QED
      BY <3>4 DEF e
  <2>9. AnswerOf(e, T, K, contract)
    BY <1>1, <2>2, <2>6, <2>7, <2>8, Generating, IfOpen
  <2> QED
    BY <2>3, <2>9 DEF e, r, l, answer
<1>5. \/ answer = <<>> /\ tab' = Single([tab EXCEPT !.check = "failed"], "fixed")
      \/ \E v \in Verdicts :
           /\ answer # <<>>
           /\ LET l == [tab EXCEPT !.check = v, !.answer = answer] IN
                \/ tab' = [l EXCEPT !.at = "save"]
                \/ tab' = Emit([l EXCEPT !.answer = answer \o <<"refs">>], "refs", "save")
  BY DEF Finalize, Become
<1> HIDE DEF answer
<1> QED
  BY <1>3, <1>4, <1>5

LEMMA FailsKeeps ==
    ASSUME NEW K, NEW T \in SUBSET K, AnswerOf(tab, T, K, contract), Fails
    PROVE  AnswerOf(tab', T, K, contract)
<1> DEFINE m == Emit(tab, "error", "ready")
<1>1. tab.at \in Serving /\ tab' = m
  BY DEF Fails, Become, Serving, Early
<1>2. "error" \in Events /\ "ready" \in Stages
  BY DEF Events, Stages
<1>3. /\ tab \in Locals /\ tab.out \in Seq(Events) /\ Unended(tab.out)
      /\ tab.ask \notin K /\ tab.ask \notin T /\ ~tab.shown
  BY <1>1, Working
<1>4. ASSUME tab.open PROVE AnswerOf(m, T, K, contract)
  <2>1. /\ m \in Locals /\ m.at = "ready" /\ m.out = Append(tab.out, "error")
        /\ m.ask = tab.ask /\ m.shown = tab.shown
    BY <1>2, <1>3, <1>4, Emitted
  <2> HIDE DEF m
  <2>2. AnswerOf(m, T, K, contract)
    BY <1>3, <2>1, EndedInError
  <2> QED
    BY <2>2 DEF m
<1>5. AnswerOf(m, T, K, contract)
  BY <1>2, <1>3, <1>4, IfOpen
<1> QED
  BY <1>1, <1>5

LEMMA LeaveKeeps ==
    ASSUME NEW K, NEW T \in SUBSET K, AnswerOf(tab, T, K, contract), Leave
    PROVE  AnswerOf(tab', T, K, contract)
<1>1. tab \in Locals /\ tab' = [tab EXCEPT !.open = FALSE,
                                           !.at = IF @ = "ready" THEN "closed" ELSE @]
  BY DEF Leave, Become, AnswerOf
<1>2. /\ tab' \in Locals /\ tab'.out = tab.out /\ tab'.answer = tab.answer /\ tab'.ask = tab.ask
      /\ tab'.hit = tab.hit /\ tab'.check = tab.check /\ tab'.called = tab.called
      /\ tab'.context = tab.context /\ tab'.shown = tab.shown
      /\ tab'.at = IF tab.at = "ready" THEN "closed" ELSE tab.at
  BY <1>1 DEF Locals, Stages
<1>3. Ended(tab') = Ended(tab)
  BY <1>2 DEF Ended
<1>4. StageInv(tab')
  BY <1>2 DEF AnswerOf, StageInv, Serving, Early
<1>5. AskInv(tab', T, K)
  BY <1>2, <1>3 DEF AnswerOf, AskInv, Serving, Early
<1>6. EndInv(tab', K, contract)
  BY <1>2, <1>3 DEF AnswerOf, EndInv
<1> QED
  BY <1>2, <1>4, <1>5, <1>6 DEF AnswerOf

\* A new connection, and one that has only been told off.
LEMMA FreshIsFine ==
    ASSUME NEW K, NEW T \in SUBSET K, 0 \notin K, NEW c
    PROVE  /\ Fresh \in Locals /\ AnswerOf(Fresh, T, K, c)
           /\ AnswerOf([Fresh EXCEPT !.out = <<"error">>], T, K, c)
           /\ \A a \in Asks \ K : AnswerOf([Fresh EXCEPT !.at = "resolve", !.ask = a], T, K, c)
<1>1. /\ Fresh \in Locals /\ Fresh.at = "ready" /\ Fresh.out = <<>> /\ Fresh.ask = 0
      /\ ~Fresh.shown /\ Fresh.answer = <<>> /\ ~Fresh.called /\ Fresh.check = "none"
      /\ Fresh.hit = "unknown"
  BY SessionAssumption DEF Fresh, Locals, Stages, HitTypes, Checks
<1>2. AnswerOf(Fresh, T, K, c)
  BY <1>1, NothingStreamed, NotEnded
<1> DEFINE m == [Fresh EXCEPT !.out = <<"error">>]
<1>3. /\ m \in Locals /\ m.at = "ready" /\ m.out = <<"error">> /\ m.ask = 0 /\ ~m.shown
  <2>1. <<"error">> \in Seq(Events)
    BY DEF Events
  <2> QED
    BY <1>1, <2>1 DEF Locals
<1> HIDE DEF m
<1>4. AnswerOf(m, T, K, c)
  <2>1. <<>> \in Seq(Events) /\ Append(<<>>, "error") = <<"error">>
    OBVIOUS
  <2> QED
    BY <1>3, <2>1, NothingStreamed, EndedInError
<1>5. ASSUME NEW a \in Asks \ K
      PROVE  AnswerOf([Fresh EXCEPT !.at = "resolve", !.ask = a], T, K, c)
  <2> DEFINE r == [Fresh EXCEPT !.at = "resolve", !.ask = a]
  <2>1. /\ r \in Locals /\ r.at = "resolve" /\ r.out = <<>> /\ r.ask = a /\ ~r.shown
        /\ r.answer = <<>> /\ ~r.called /\ r.check = "none" /\ r.hit = "unknown"
    <3>1. a \in 0 .. MaxAsks
      BY SessionAssumption DEF Asks
    <3> QED
      BY <1>1, <3>1 DEF Locals, Stages
  <2>2. a # 0
    BY SessionAssumption DEF Asks
  <2> HIDE DEF r
  <2>3. StageInv(r)
    BY <2>1, NothingStreamed DEF StageInv, Early
  <2>4. AnswerOf(r, T, K, c)
    BY <2>1, <2>2, <2>3, AtWork DEF Serving, Early
  <2> QED
    BY <2>4 DEF r
<1> QED
  BY <1>1, <1>2, <1>4, <1>5 DEF m

\* The turn is stored.
LEMMA SaveKeeps ==
    ASSUME NEW K, NEW T \in SUBSET K, NEW c, AnswerOf(tab, T, K, c),
           tab.at = "save", tab' = [tab EXCEPT !.at = "finish"]
    PROVE  AnswerOf(tab', T \union {tab.ask}, K \union {tab.ask}, c)
<1>1. tab \in Locals /\ StageInv(tab)
  BY DEF AnswerOf
<1>2. /\ tab' \in Locals /\ tab'.at = "finish" /\ tab'.out = tab.out /\ tab'.answer = tab.answer
      /\ tab'.ask = tab.ask /\ tab'.hit = tab.hit /\ tab'.check = tab.check
      /\ tab'.called = tab.called /\ tab'.context = tab.context /\ tab'.shown = tab.shown
  BY <1>1 DEF Locals, Stages
<1>3. StageInv(tab')
  BY <1>1, <1>2 DEF StageInv, Serving, Early
<1> QED
  BY <1>2, <1>3, AtWork DEF Serving, Early

\* It is graded, and the end is sent.
LEMMA FinishKeeps ==
    ASSUME NEW K, NEW T \in SUBSET K, AnswerOf(tab, T, K, contract), Finish
    PROVE  AnswerOf(tab', T, K, contract)
<1> DEFINE l == [tab EXCEPT !.check = Verification(tab), !.shown = ShowsSources(tab)]
           m == Emit(l, "end", "ready")
<1>1. tab.at = "finish" /\ tab' = m
  BY DEF Finish, Become
<1>2. /\ tab \in Locals /\ Unended(tab.out) /\ tab.out \in Seq(Events) /\ tab.ask \in K
      /\ SameText(tab.answer, tab.out) /\ tab.answer \in Seq(Pieces)
      /\ tab.called <=> tab.check \in Verdicts
      /\ tab.called => tab.context
      /\ ~tab.called => tab.check \in {"none", "pending"}
  BY <1>1 DEF AnswerOf, StageInv, AskInv, Locals
<1>3. /\ Verification(tab) \in Checks
      /\ ~tab.called => Verification(tab) = "not_applicable"
      /\ tab.called => Verification(tab) = tab.check
  BY <1>2 DEF Verification, Checks, Locals
<1>4. ShowsSources(tab) \in BOOLEAN
  BY <1>2 DEF ShowsSources, Locals
<1>5. contract /\ (\E i \in DOMAIN tab.out : tab.out[i] = "none_found") => ~ShowsSources(tab)
  <2>1. "none_found" \in Shown
    BY DEF Shown, Pieces, Generated
  <2>2. (\E i \in DOMAIN tab.out : tab.out[i] = "none_found")
          => \E i \in DOMAIN tab.answer : tab.answer[i] = "none_found"
    BY <1>2, <2>1, SameTextFinds
  <2> QED
    BY <2>2 DEF ShowsSources
<1>6. /\ l \in Locals /\ l.out = tab.out /\ l.answer = tab.answer /\ l.ask = tab.ask
      /\ l.hit = tab.hit /\ l.check = Verification(tab) /\ l.called = tab.called
      /\ l.context = tab.context /\ l.shown = ShowsSources(tab)
  BY <1>2, <1>3, <1>4 DEF Locals
<1>7. "end" \in Events /\ "ready" \in Stages
  BY DEF Events, Stages
<1> HIDE DEF l
<1>8. ASSUME l.open PROVE AnswerOf(m, T, K, contract)
  <2>1. /\ m \in Locals /\ m.at = "ready" /\ m.out = Append(tab.out, "end")
        /\ m.answer = tab.answer /\ m.ask = tab.ask /\ m.check = Verification(tab)
        /\ m.called = tab.called /\ m.context = tab.context /\ m.shown = ShowsSources(tab)
    BY <1>6, <1>7, <1>8, Emitted
  <2>2. "not_applicable" \notin Verdicts
    BY DEF Verdicts
  <2> HIDE DEF m
  <2>3. /\ m.check \in Verdicts <=> m.called
        /\ ~m.called => m.check = "not_applicable"
        /\ m.called => m.context
    BY <1>2, <1>3, <2>1, <2>2
  <2>4. contract /\ (\E i \in DOMAIN tab.out : tab.out[i] = "none_found") => ~m.shown
    BY <1>5, <2>1
  <2>5. AnswerOf(m, T, K, contract)
    BY <1>2, <2>1, <2>3, <2>4, EndedWell
  <2> QED
    BY <2>5 DEF m
<1>9. AnswerOf(m, T, K, contract)
  BY <1>2, <1>6, <1>7, <1>8, IfOpen
<1> QED
  BY <1>1, <1>9

\* What happens to other turns of the history is nothing to this answer; that
\* its own turn is cleared neither.
LEMMA OthersKeep ==
    ASSUME NEW T, NEW K, NEW T2, NEW K2, NEW c, NEW l, AnswerOf(l, T, K, c),
           l.ask \in T2 => l.ask \in T, l.ask \in K2 <=> l.ask \in K
    PROVE  AnswerOf(l, T2, K2, c)
<1>1. AskInv(l, T2, K2)
  BY DEF AnswerOf, AskInv
<1>2. EndInv(l, K2, c)
  BY DEF AnswerOf, EndInv
<1> QED
  BY <1>1, <1>2 DEF AnswerOf

-----------------------------------------------------------------------------
(* The history.                                                            *)

\* One more turn.
LEMMA TurnsGrow ==
    ASSUME NEW h \in Seq(Asks), NEW a \in Asks
    PROVE  /\ Append(h, a) \in Seq(Asks)
           /\ ToSet(Append(h, a)) = ToSet(h) \union {a}
<1>1. Append(h, a) \in Seq(Asks)
  BY Appended
<1>2. \A x : x \in ToSet(Append(h, a)) <=> x \in ToSet(h) \/ x = a
  BY Appended DEF ToSet
<1> QED
  BY <1>1, <1>2

\* A new turn is stored once.
LEMMA AccountedGrows ==
    ASSUME NEW h \in Seq(Asks), NEW gone, NEW n \in Nat, NEW k \in Nat, n <= k,
           Accounted(h, gone, n), NEW a \in Asks, a \in 1 .. k, a \notin ToSet(h)
    PROVE  Accounted(Append(h, a), gone, k)
<1>1. ToSet(Append(h, a)) \union gone \subseteq 1 .. k
  BY TurnsGrow DEF Accounted
<1>2. \A i \in 1 .. Len(h) : h[i] # a
  BY Appended DEF ToSet
<1>3. \A i, j \in DOMAIN Append(h, a) : Append(h, a)[i] = Append(h, a)[j] => i = j
  <2>1. TAKE i, j \in DOMAIN Append(h, a)
  <2>2. HAVE Append(h, a)[i] = Append(h, a)[j]
  <2>3. CASE i = Len(h) + 1 \/ j = Len(h) + 1
    BY <1>2, <2>2, <2>3, Appended
  <2>4. CASE i \in 1 .. Len(h) /\ j \in 1 .. Len(h)
    BY <2>2, <2>4, Appended DEF Accounted
  <2> QED
    BY <2>3, <2>4, Appended
<1> QED
  BY <1>1, <1>3 DEF Accounted

-----------------------------------------------------------------------------
(* The answer, in every step.                                              *)

LEMMA AnswerInvInit == Init => AnswerInv
<1> SUFFICES ASSUME Init PROVE AnswerInv
  OBVIOUS
<1>1. Turns = {} /\ cleared = {} /\ history = <<>>
  BY DEF Init, Turns, ToSet
<1>2. \A a \in Asks : Idle \in Tasks
  BY DEF Idle, Tasks
<1>3. Typed
  <2>1. 0 \in 0 .. MaxAsks /\ <<>> \in Seq(Asks)
    BY SessionAssumption
  <2>2. [a \in Asks |-> Idle] \in [Asks -> Tasks]
    BY <1>2
  <2> QED
    BY <2>1, <2>2 DEF Init, Typed
<1>4. Accounted(history, cleared, asked)
  BY <1>1 DEF Accounted, Turns
<1>5. AnswerOf(tab, Turns, Turns \union cleared, contract)
  BY <1>1, FreshIsFine DEF Init
<1>6. tab.ask <= asked
  BY DEF Init, Fresh
<1> QED
  BY <1>3, <1>4, <1>5, <1>6 DEF AnswerInv

\* A summary task is started.
LEMMA DueIsTyped ==
    ASSUME task \in [Asks -> Tasks], NEW a \in Asks
    PROVE  [task EXCEPT ![a].at = "due"] \in [Asks -> Tasks]
BY DEF Tasks

\* A summary task keeps to its type.
LEMMA TasksAreTyped ==
    ASSUME Typed, NEW a \in Asks, Summarise(a)
    PROVE  /\ task' \in [Asks -> Tasks] /\ summary' \subseteq Asks
           /\ history' = history /\ cleared' = cleared
           /\ UNCHANGED <<contract, tab, clearing, asked>>
<1>1. /\ task \in [Asks -> Tasks] /\ summary \subseteq Asks /\ Turns \subseteq Asks
      /\ task[a].older \subseteq Asks /\ task[a].base \subseteq Asks
  BY DEF Typed, Turns, ToSet, Tasks
<1>2. CASE ReadMessages(a)
  <2>1. Turns \ RecentTurns \in SUBSET Asks
    BY <1>1
  <2> QED
    BY <1>1, <1>2, <2>1 DEF ReadMessages, Background, store, Tasks, Idle
<1>3. CASE ReadSummary(a)
  <2>1. task' = [task EXCEPT ![a] = [task[a] EXCEPT !.at = "llm", !.base = summary]]
    BY <1>1, <1>3 DEF ReadSummary
  <2>2. [task[a] EXCEPT !.at = "llm", !.base = summary] \in Tasks
    <3>1. task[a] \in Tasks /\ summary \in SUBSET Asks
      BY <1>1
    <3> QED
      BY <3>1 DEF Tasks
  <2> QED
    BY <1>1, <1>3, <2>1, <2>2 DEF ReadSummary, Background, store
<1>4. CASE SaveSummary(a)
  BY <1>1, <1>4 DEF SaveSummary, Background, Tasks, Idle
<1>5. CASE NoSummary(a)
  BY <1>1, <1>5 DEF NoSummary, Background, store, Tasks, Idle
<1> QED
  BY <1>2, <1>3, <1>4, <1>5 DEF Summarise

\* Only the connection moves: enough that its locals stay as they have to be.
LEMMA PrivateStep ==
    ASSUME AnswerInv, Privately, tab'.ask <= asked,
           AnswerOf(tab', Turns, Turns \union cleared, contract)
    PROVE  AnswerInv'
<1>1. Turns' = Turns
  BY DEF Privately, store, Turns
<1>2. UNCHANGED <<contract, history, summary, cleared, task, clearing, asked>>
  BY DEF Privately, store
<1> QED
  BY <1>1, <1>2 DEF AnswerInv, Typed

LEMMA AskIsKept ==
    ASSUME tab \in Locals,
           \/ Conflict \/ ResolveFails \/ Start \/ Route \/ PrepareRetrieval \/ SearchFaq
           \/ SearchDoc \/ Token \/ StreamEnds \/ Finalize \/ Fails
    PROVE  tab'.ask = tab.ask
<1> USE DEF Become, Single, Emit, Locals
<1>1. CASE Conflict
  BY <1>1 DEF Conflict
<1>2. CASE ResolveFails
  BY <1>2 DEF ResolveFails
<1>3. CASE Start \/ Fails
  BY <1>3 DEF Start, Fails
<1>4. CASE Route
  BY <1>4 DEF Route
<1>5. CASE PrepareRetrieval \/ StreamEnds
  BY <1>5 DEF PrepareRetrieval, StreamEnds
<1>6. CASE SearchFaq
  BY <1>6 DEF SearchFaq
<1>7. CASE SearchDoc
  BY <1>7 DEF SearchDoc
<1>8. CASE Token
  BY <1>8 DEF Token
<1>9. CASE Finalize
  BY <1>9 DEF Finalize
<1> QED
  BY <1>1, <1>2, <1>3, <1>4, <1>5, <1>6, <1>7, <1>8, <1>9

LEMMA AnswerInvAfter ==
    ASSUME Typed', Accounted(history', cleared', asked'), tab'.ask <= asked',
           AnswerOf(tab', ToSet(history'), ToSet(history') \union cleared', contract')
    PROVE  AnswerInv'
BY DEF AnswerInv, Turns

LEMMA AnswerInvKept ==
    ASSUME Typed', UNCHANGED <<contract, history, cleared>>,
           Accounted(history, cleared, asked'), tab'.ask <= asked',
           AnswerOf(tab', Turns, Turns \union cleared, contract)
    PROVE  AnswerInv'
BY DEF AnswerInv, Turns

LEMMA AnswerInvStep == AnswerInv /\ [Next]_vars => AnswerInv'
<1> SUFFICES ASSUME AnswerInv, [Next]_vars PROVE AnswerInv'
  OBVIOUS
<1> DEFINE T == Turns
           K == Turns \union cleared
<1>1. /\ Typed /\ Accounted(history, cleared, asked) /\ tab.ask <= asked
      /\ AnswerOf(tab, T, K, contract) /\ tab \in Locals
      /\ asked \in Nat /\ T \in SUBSET K /\ 0 \notin K /\ K \subseteq 1 .. asked
      /\ T = ToSet(history)
  <2>1. asked \in Nat
    BY SessionAssumption DEF AnswerInv, Typed
  <2> QED
    BY <2>1 DEF AnswerInv, Accounted, AnswerOf, Turns
<1> HIDE DEF T, K
<1>2. CASE Leave \/ Connect \/ Refuse
  <2>1. Privately
    BY <1>2 DEF Leave, Connect, Refuse
  <2>2. AnswerOf(tab', T, K, contract)
    <3>1. CASE Leave
      BY <1>1, <3>1, LeaveKeeps
    <3>2. CASE Connect \/ Refuse
      <4> DEFINE told == [Fresh EXCEPT !.out = <<"error">>]
      <4>1. tab' = Fresh \/ tab' = told
        BY <3>2 DEF Connect, Refuse, Become
      <4>2. AnswerOf(Fresh, T, K, contract) /\ AnswerOf(told, T, K, contract)
        BY <1>1, FreshIsFine
      <4> HIDE DEF told
      <4> QED
        BY <4>1, <4>2
    <3> QED
      BY <1>2, <3>1, <3>2
  <2>3. tab'.ask <= asked
    <3>1. Leave => tab'.ask = tab.ask
      BY <1>1 DEF Leave, Become, Locals
    <3>2. Connect \/ Refuse => tab'.ask = 0
      BY DEF Connect, Refuse, Become, Fresh
    <3> QED
      BY <1>1, <1>2, <3>1, <3>2
  <2> QED
    BY <2>1, <2>2, <2>3, PrivateStep DEF T, K
<1>3. CASE \/ Conflict \/ ResolveFails \/ Start \/ Route \/ PrepareRetrieval \/ SearchFaq
           \/ SearchDoc \/ Token \/ StreamEnds \/ Finalize \/ Fails
  <2>1. Privately
    BY <1>3 DEF Conflict, ResolveFails, Start, Route, PrepareRetrieval, SearchFaq, SearchDoc,
                Token, StreamEnds, Finalize, Fails
  <2>2. AnswerOf(tab', T, K, contract)
    BY <1>1, <1>3, ConflictKeeps, ResolveFailsKeeps, StartKeeps, RouteKeeps, SearchDocKeeps,
       TokenKeeps, StreamEndsKeeps, FinalizeKeeps, FailsKeeps
  <2>3. tab'.ask = tab.ask
    BY <1>1, <1>3, AskIsKept
  <2> QED
    BY <1>1, <2>1, <2>2, <2>3, PrivateStep DEF T, K
<1>4. CASE Ask
  <2>1. /\ asked' = asked + 1 /\ asked < MaxAsks
        /\ tab' = [Fresh EXCEPT !.at = "resolve", !.ask = asked + 1]
        /\ UNCHANGED <<contract, history, summary, cleared, task, clearing>>
    BY <1>4 DEF Ask, Become, store
  <2>2. asked + 1 \in Asks \ K /\ asked' \in 0 .. MaxAsks
    BY <1>1, <2>1, SessionAssumption DEF Asks
  <2>3. AnswerOf(tab', T, K, contract)
    BY <1>1, <2>1, <2>2, FreshIsFine
  <2>4. tab'.ask = asked + 1
    BY <2>1 DEF Fresh
  <2>5. Accounted(history, cleared, asked + 1)
    BY <1>1 DEF Accounted
  <2>6. Typed'
    BY <1>1, <2>1, <2>2 DEF Typed
  <2> QED
    BY <1>1, <2>1, <2>3, <2>4, <2>5, <2>6, AnswerInvKept DEF T, K
<1>5. CASE Save
  <2>1. /\ tab.at = "save" /\ history' = Append(history, tab.ask)
        /\ tab' = [tab EXCEPT !.at = "finish"]
        /\ UNCHANGED <<contract, summary, cleared, task, clearing, asked>>
    BY <1>5 DEF Save, Become
  <2>2. tab.ask # 0 /\ tab.ask \notin K /\ tab.ask \in 0 .. MaxAsks
    BY <1>1, <2>1, Working DEF Serving, Locals
  <2>3. tab.ask \in Asks /\ tab.ask \in 1 .. asked /\ history \in Seq(Asks)
    BY <1>1, <2>2, SessionAssumption DEF Asks, Typed
  <2>4. history' \in Seq(Asks) /\ ToSet(history') = T \union {tab.ask}
    BY <1>1, <2>1, <2>3, TurnsGrow
  <2>5. AnswerOf(tab', T \union {tab.ask}, K \union {tab.ask}, contract)
    BY <1>1, <2>1, SaveKeeps
  <2>6. K \union {tab.ask} = ToSet(history') \union cleared'
    BY <2>1, <2>4 DEF K, T
  <2>7. Accounted(history', cleared', asked')
    <3>1. tab.ask \notin ToSet(history)
      BY <1>1, <2>2
    <3> QED
      BY <1>1, <2>1, <2>3, <3>1, AccountedGrows
  <2>8. Typed'
    BY <1>1, <2>1, <2>4 DEF Typed
  <2>9. tab'.ask <= asked'
    BY <1>1, <2>1 DEF Locals
  <2> QED
    BY <2>1, <2>4, <2>5, <2>6, <2>7, <2>8, <2>9, AnswerInvAfter
<1>6. CASE Elsewhere
  <2>1. /\ asked' = asked + 1 /\ asked < MaxAsks
        /\ history' = Append(history, asked + 1)
        /\ task' = [task EXCEPT ![asked + 1].at = "due"]
        /\ UNCHANGED <<contract, summary, cleared, tab, clearing>>
    BY <1>6 DEF Elsewhere
  <2>2. /\ asked + 1 \in Asks \ K /\ asked' \in 0 .. MaxAsks /\ tab.ask # asked + 1
        /\ history \in Seq(Asks) /\ asked + 1 \in 1 .. asked + 1
    <3>1. tab.ask \in Nat
      BY <1>1, SessionAssumption DEF Locals
    <3> QED
      BY <1>1, <2>1, <3>1, SessionAssumption DEF Asks, Typed
  <2>3. history' \in Seq(Asks) /\ ToSet(history') = T \union {asked + 1}
    BY <1>1, <2>1, <2>2, TurnsGrow
  <2>4. AnswerOf(tab, T \union {asked + 1}, K \union {asked + 1}, contract)
    BY <1>1, <2>2, OthersKeep
  <2>5. K \union {asked + 1} = ToSet(history') \union cleared'
    BY <2>1, <2>3 DEF K, T
  <2>6. Accounted(history', cleared', asked')
    <3>1. asked + 1 \notin ToSet(history)
      BY <1>1, <2>2
    <3> QED
      BY <1>1, <2>1, <2>2, <3>1, AccountedGrows
  <2>7. Typed'
    <3>1. task' \in [Asks -> Tasks]
      BY <1>1, <2>1, <2>2, DueIsTyped DEF Typed
    <3> QED
      BY <1>1, <2>1, <2>2, <2>3, <3>1 DEF Typed
  <2>8. tab'.ask <= asked'
    <3>1. tab.ask \in Nat
      BY <1>1, SessionAssumption DEF Locals
    <3> QED
      BY <1>1, <2>1, <3>1
  <2> QED
    BY <2>1, <2>3, <2>4, <2>5, <2>6, <2>7, <2>8, AnswerInvAfter
<1>7. CASE Finish
  <2>1. /\ tab.at = "finish" /\ UNCHANGED <<contract, history, summary, cleared, clearing, asked>>
        /\ task' = task \/ task' = [task EXCEPT ![tab.ask].at = "due"]
    <3>1. tab.at = "finish" /\ UNCHANGED <<contract, history, summary, cleared, clearing, asked>>
      BY <1>7 DEF Finish, store
    <3>2. [tab EXCEPT !.check = Verification(tab), !.shown = ShowsSources(tab)].ask = tab.ask
      BY <1>1 DEF Locals
    <3>3. task' = task \/ task' = [task EXCEPT ![tab.ask].at = "due"]
      BY <1>7, <3>2 DEF Finish
    <3> QED
      BY <3>1, <3>3
  <2>2. AnswerOf(tab', T, K, contract)
    BY <1>1, <1>7, FinishKeeps
  <2>3. tab'.ask = tab.ask
    BY <1>1, <1>7 DEF Finish, Become, Emit, Locals
  <2>4. tab.ask \in Asks
    BY <1>1, <2>1, SessionAssumption DEF AnswerOf, AskInv, Asks, Typed
  <2>5. Typed'
    <3>1. task' \in [Asks -> Tasks]
      BY <1>1, <2>1, <2>4, DueIsTyped DEF Typed
    <3> QED
      BY <1>1, <2>1, <3>1 DEF Typed
  <2> QED
    BY <1>1, <2>1, <2>2, <2>3, <2>5, AnswerInvKept DEF T, K
<1>8. CASE \E a \in Asks : Summarise(a)
  <2>1. /\ task' \in [Asks -> Tasks] /\ summary' \subseteq Asks
        /\ UNCHANGED <<contract, tab, clearing, asked, history, cleared>>
    BY <1>1, <1>8, TasksAreTyped
  <2>2. Typed'
    BY <1>1, <2>1 DEF Typed
  <2> QED
    BY <1>1, <2>1, <2>2, AnswerInvKept DEF T, K
<1>9. CASE ClearMessages
  <2>1. /\ history' = <<>> /\ cleared' = cleared \union T /\ clearing' = TRUE
        /\ UNCHANGED <<contract, summary, tab, task, asked>>
    BY <1>9 DEF ClearMessages, T
  <2>2. ToSet(history') = {} /\ ToSet(history') \union cleared' = K
    BY <2>1 DEF ToSet, K, T
  <2>3. AnswerOf(tab, {}, K, contract)
    BY <1>1, OthersKeep
  <2>4. Accounted(history', cleared', asked')
    BY <1>1, <2>1, <2>2 DEF Accounted
  <2>5. Typed'
    <3>1. \A x \in T : x \in Asks
      BY <1>1 DEF Typed, ToSet
    <3>2. <<>> \in Seq(Asks)
      OBVIOUS
    <3> QED
      BY <1>1, <2>1, <3>1, <3>2 DEF Typed
  <2>6. AnswerOf(tab', ToSet(history'), ToSet(history') \union cleared', contract')
    BY <2>1, <2>2, <2>3
  <2> QED
    BY <1>1, <2>1, <2>4, <2>5, <2>6, AnswerInvAfter
<1>10. CASE DeleteSummary \/ UNCHANGED vars
  <2>1. /\ summary' \subseteq Asks /\ clearing' \in BOOLEAN
        /\ UNCHANGED <<contract, tab, task, asked, history, cleared>>
    BY <1>1, <1>10 DEF DeleteSummary, vars, store, Typed
  <2>2. Typed'
    BY <1>1, <2>1 DEF Typed
  <2> QED
    BY <1>1, <2>1, <2>2, AnswerInvKept DEF T, K
<1> QED
  BY <1>2, <1>3, <1>4, <1>5, <1>6, <1>7, <1>8, <1>9, <1>10 DEF Next, Serve

\* The properties are there in the invariant.
LEMMA AnswerInvImplies == AnswerInv => AnswersAreFaithful
<1> SUFFICES ASSUME AnswerInv PROVE AnswersAreFaithful
  OBVIOUS
<1>1. /\ Typed /\ Accounted(history, cleared, asked) /\ tab \in Locals
      /\ AskInv(tab, Turns, Turns \union cleared) /\ EndInv(tab, Turns \union cleared, contract)
  BY DEF AnswerInv, AnswerOf
<1>2. TypeOK
  BY <1>1 DEF TypeOK, Typed
<1>3. OneEnding
  BY <1>1 DEF OneEnding, EndInv, Closing
<1>4. SavedIsWhatWasStreamed
  BY <1>1 DEF SavedIsWhatWasStreamed, AskInv
<1>5. EndMeansSaved
  <2>1. Cardinality({i \in DOMAIN history : history[i] = tab.ask}) <= 1
    <3> DEFINE places == {i \in DOMAIN history : history[i] = tab.ask}
    <3>1. \A i, j \in places : i = j
      BY <1>1 DEF Accounted
    <3>2. CASE places = {}
      BY <3>2, FS_EmptySet
    <3>3. CASE places # {}
      <4>1. PICK i \in places : places = {i}
        BY <3>1, <3>3
      <4> QED
        BY <4>1, FS_Singleton
    <3> QED
      BY <3>2, <3>3
  <2> QED
    BY <1>1, <2>1 DEF EndMeansSaved, EndInv
<1>6. GradedAsProduced
  BY <1>1 DEF GradedAsProduced, EndInv
<1>7. SilenceHasNoSources
  BY <1>1 DEF SilenceHasNoSources, EndInv
<1> QED
  BY <1>2, <1>3, <1>4, <1>5, <1>6, <1>7 DEF AnswersAreFaithful

LEMMA AnswerInvAlways == Spec => []AnswerInv
BY AnswerInvInit, AnswerInvStep, PTL DEF Spec

\* One answer ends once, what was streamed is what is graded and saved, in that
\* order, and an answer that finds the contract silent shows no sources: for
\* any number of questions and tokens, whichever exceptions strike, and whenever
\* the client leaves or the session is cleared.
THEOREM AnswersStayFaithful == Spec => []AnswersAreFaithful
BY AnswerInvAlways, AnswerInvImplies, PTL

-----------------------------------------------------------------------------
(* The summary.                                                            *)

\* The turns of history h that the prompt shows word for word.
ShownOf(h) == {h[i] : i \in {j \in DOMAIN h : j > Len(h) - Recent}}

\* Of the turns of h, S holds the oldest ones and none of those; and it holds
\* nothing but turns that are stored or gone.
OldestOf(S, h, gone) ==
    /\ S \cap ShownOf(h) = {}
    /\ \A i, j \in DOMAIN h : i < j /\ h[j] \in S => h[i] \in S
    /\ S \subseteq ToSet(h) \union gone

\* Nothing, and what two such sets hold together.
LEMMA OldestOfTwo ==
    ASSUME NEW h, NEW gone, NEW S, NEW R, OldestOf(S, h, gone), OldestOf(R, h, gone)
    PROVE  OldestOf({}, h, gone) /\ OldestOf(S \union R, h, gone)
<1>1. \A x : x \in S \union R <=> x \in S \/ x \in R
  OBVIOUS
<1> QED
  BY <1>1 DEF OldestOf

\* A turn nobody has seen yet is stored: what was old stays old.
LEMMA OldestGrows ==
    ASSUME NEW h \in Seq(Asks), NEW gone, NEW S, OldestOf(S, h, gone),
           NEW a \in Asks, a \notin ToSet(h), a \notin gone
    PROVE  OldestOf(S, Append(h, a), gone)
<1> DEFINE g == Append(h, a)
<1>1. a \notin S
  BY DEF OldestOf
<1>2. /\ Len(h) \in Nat /\ DOMAIN h = 1 .. Len(h) /\ DOMAIN g = 1 .. Len(h) + 1
      /\ Len(g) = Len(h) + 1 /\ g[Len(h) + 1] = a
      /\ \A i \in 1 .. Len(h) : g[i] = h[i]
  BY Appended
<1>3. ToSet(g) = ToSet(h) \union {a}
  BY TurnsGrow
<1> HIDE DEF g
<1>4. \A x \in ShownOf(g) : x = a \/ x \in ShownOf(h)
  <2>1. TAKE x \in ShownOf(g)
  <2>2. PICK i \in DOMAIN g : i > Len(g) - Recent /\ x = g[i]
    BY DEF ShownOf
  <2>3. i \in 1 .. Len(h) + 1 /\ i > Len(h) + 1 - Recent /\ x = g[i]
    BY <1>2, <2>2, SessionAssumption
  <2>4. CASE i = Len(h) + 1
    BY <1>2, <2>3, <2>4
  <2>5. CASE i \in 1 .. Len(h)
    <3>1. i > Len(h) - Recent /\ x = h[i]
      BY <1>2, <2>3, <2>5, SessionAssumption
    <3> QED
      BY <1>2, <2>5, <3>1 DEF ShownOf
  <2> QED
    BY <2>3, <2>4, <2>5
<1>5. S \cap ShownOf(g) = {}
  BY <1>1, <1>4 DEF OldestOf
<1>6. ASSUME NEW i \in DOMAIN g, NEW j \in DOMAIN g, i < j, g[j] \in S
      PROVE  g[i] \in S
  <2>1. j \in 1 .. Len(h)
    BY <1>1, <1>2, <1>6
  <2>2. i \in 1 .. Len(h)
    BY <1>2, <1>6, <2>1
  <2> QED
    BY <1>2, <1>6, <2>1, <2>2 DEF OldestOf
<1>7. OldestOf(S, g, gone)
  BY <1>3, <1>5, <1>6 DEF OldestOf
<1> QED
  BY <1>7 DEF g

\* The messages are deleted.
LEMMA OldestIsCleared ==
    ASSUME NEW h, NEW gone, NEW S, OldestOf(S, h, gone)
    PROVE  OldestOf(S, <<>>, gone \union ToSet(h))
<1>1. ShownOf(<<>>) = {}
  BY DEF ShownOf
<1> QED
  BY <1>1 DEF OldestOf

\* What a task reads: all but the turns that are shown.
LEMMA OldestIsRead ==
    ASSUME NEW h \in Seq(Asks), NEW gone, NEW n, Accounted(h, gone, n)
    PROVE  OldestOf(ToSet(h) \ ShownOf(h), h, gone)
<1> DEFINE S == ToSet(h) \ ShownOf(h)
<1>1. ASSUME NEW i \in DOMAIN h, NEW j \in DOMAIN h, i < j, h[j] \in S
      PROVE  h[i] \in S
  <2>1. ~(j > Len(h) - Recent)
    BY <1>1 DEF ShownOf
  <2>2. ~(i > Len(h) - Recent)
    BY <1>1, <2>1, SessionAssumption
  <2>3. h[i] \notin ShownOf(h)
    BY <2>2 DEF ShownOf, Accounted
  <2> QED
    BY <2>3 DEF ToSet
<1> QED
  BY <1>1 DEF OldestOf

\* Everything a task carries is what the stored summary may be.
SummaryInv ==
    /\ OldestOf(summary, history, cleared)
    /\ \A a \in Asks :
         /\ task[a].at \in {"read", "llm"} => OldestOf(task[a].older, history, cleared)
         /\ task[a].at = "llm" => OldestOf(task[a].base, history, cleared)

LEMMA SummaryInvInit == Init => SummaryInv
<1> SUFFICES ASSUME Init PROVE SummaryInv
  OBVIOUS
<1>1. history = <<>> /\ summary = {} /\ \A a \in Asks : task[a].at = "none"
  BY DEF Init, Idle
<1> QED
  BY <1>1 DEF SummaryInv, OldestOf, ShownOf

\* The history becomes another for which all that was old is old: the summary
\* and the tasks stay, or a task is started.
LEMMA SummaryInvMoves ==
    ASSUME SummaryInv, AnswerInv, summary' = summary,
           \/ task' = task
           \/ \E a \in Asks : task' = [task EXCEPT ![a].at = "due"],
           \A S : OldestOf(S, history, cleared) => OldestOf(S, history', cleared')
    PROVE  SummaryInv'
<1>1. task \in [Asks -> Tasks]
  BY DEF AnswerInv, Typed
<1>2. ASSUME NEW a \in Asks
      PROVE  task'[a] = task[a] \/ task'[a].at = "due"
  BY <1>1 DEF Tasks
<1> QED
  BY <1>2 DEF SummaryInv

LEMMA SummaryInvStep == AnswerInv /\ SummaryInv /\ [Next]_vars => SummaryInv'
<1> SUFFICES ASSUME AnswerInv, SummaryInv, [Next]_vars PROVE SummaryInv'
  OBVIOUS
<1>1. /\ Typed /\ Accounted(history, cleared, asked) /\ history \in Seq(Asks)
      /\ task \in [Asks -> Tasks] /\ asked \in Nat /\ tab \in Locals
      /\ AnswerOf(tab, Turns, Turns \union cleared, contract)
      /\ Turns = ToSet(history) /\ RecentTurns = ShownOf(history)
  BY SessionAssumption DEF AnswerInv, AnswerOf, Typed, Turns, RecentTurns, ShownOf
<1>2. CASE UNCHANGED <<history, cleared, summary, task>>
  BY <1>2, SummaryInvMoves
<1>3. CASE Save
  <2>1. /\ tab.at = "save" /\ history' = Append(history, tab.ask)
        /\ UNCHANGED <<summary, cleared, task>>
    BY <1>3 DEF Save
  <2>2. tab.ask \notin Turns \union cleared /\ tab.ask \in Asks
    <3>1. tab.ask # 0 /\ tab.ask \notin Turns \union cleared /\ tab.ask \in 0 .. MaxAsks
      BY <1>1, <2>1, Working DEF Serving, Locals
    <3> QED
      BY <3>1, SessionAssumption DEF Asks
  <2>3. \A S : OldestOf(S, history, cleared) => OldestOf(S, Append(history, tab.ask), cleared)
    BY <1>1, <2>2, OldestGrows
  <2> QED
    BY <2>1, <2>3, SummaryInvMoves
<1>4. CASE Elsewhere
  <2>1. /\ asked < MaxAsks /\ history' = Append(history, asked + 1)
        /\ task' = [task EXCEPT ![asked + 1].at = "due"]
        /\ UNCHANGED <<summary, cleared>>
    BY <1>4 DEF Elsewhere
  <2>2. asked + 1 \in Asks /\ asked + 1 \notin ToSet(history) /\ asked + 1 \notin cleared
    BY <1>1, <2>1, SessionAssumption DEF Accounted, Asks
  <2>3. \A S : OldestOf(S, history, cleared) => OldestOf(S, Append(history, asked + 1), cleared)
    BY <1>1, <2>2, OldestGrows
  <2> QED
    BY <2>1, <2>2, <2>3, SummaryInvMoves
<1>5. CASE Finish
  <2>1. /\ UNCHANGED <<history, summary, cleared>>
        /\ task' = task \/ task' = [task EXCEPT ![tab.ask].at = "due"]
    <3>1. [tab EXCEPT !.check = Verification(tab), !.shown = ShowsSources(tab)].ask = tab.ask
      BY <1>1 DEF Locals
    <3> QED
      BY <1>5, <3>1 DEF Finish, store
  <2>2. tab.at = "finish" /\ tab.ask \in Asks
    <3>1. tab.at = "finish" /\ tab.ask \in Turns \union cleared
      BY <1>1, <1>5 DEF Finish, AnswerOf, AskInv
    <3>2. \A x \in ToSet(history) \union cleared : x \in Asks
      BY <1>1 DEF Typed, ToSet
    <3> QED
      BY <1>1, <3>1, <3>2
  <2> QED
    BY <2>1, <2>2, SummaryInvMoves
<1>6. CASE ClearMessages
  <2>1. /\ history' = <<>> /\ cleared' = cleared \union ToSet(history)
        /\ UNCHANGED <<summary, task>>
    BY <1>1, <1>6 DEF ClearMessages
  <2>2. \A S : OldestOf(S, history, cleared) => OldestOf(S, <<>>, cleared \union ToSet(history))
    BY OldestIsCleared
  <2> QED
    BY <2>1, <2>2, SummaryInvMoves
<1>7. CASE DeleteSummary
  <2>1. /\ summary' = {} /\ UNCHANGED <<history, cleared, task>>
    BY <1>7 DEF DeleteSummary
  <2>2. OldestOf({}, history, cleared)
    BY OldestOfTwo DEF SummaryInv
  <2> QED
    BY <2>1, <2>2 DEF SummaryInv
<1>8. ASSUME NEW a \in Asks, Summarise(a)
      PROVE  SummaryInv'
  <2>1. UNCHANGED <<history, cleared>>
    BY <1>8, <1>1, TasksAreTyped
  <2>2. ASSUME NEW b \in Asks, b # a, \E r : task' = [task EXCEPT ![a] = r]
        PROVE  task'[b] = task[b]
    BY <1>1, <2>2
  <2>3. CASE ReadMessages(a)
    <3> DEFINE old  == [at |-> "read", older |-> ToSet(history) \ ShownOf(history), base |-> {}]
               over == [Idle EXCEPT !.at = "over"]
    <3>1. summary' = summary /\ (task' = [task EXCEPT ![a] = old] \/ task' = [task EXCEPT ![a] = over])
      BY <1>1, <2>3 DEF ReadMessages, store
    <3>2. over.at = "over" /\ old.at = "read" /\ OldestOf(old.older, history, cleared)
      BY <1>1, OldestIsRead DEF Idle
    <3>3. task'[a] = over \/ task'[a] = old
      BY <1>1, <3>1
    <3> HIDE DEF old, over
    <3> QED
      BY <2>1, <2>2, <3>1, <3>2, <3>3 DEF SummaryInv
  <2>4. CASE ReadSummary(a)
    <3> DEFINE next == [task[a] EXCEPT !.at = "llm", !.base = summary]
    <3>1. summary' = summary /\ task' = [task EXCEPT ![a] = next] /\ task[a].at = "read"
      BY <1>1, <2>4 DEF ReadSummary, store
    <3>2. next.at = "llm" /\ next.older = task[a].older /\ next.base = summary
      BY <1>1 DEF Tasks
    <3>3. task'[a] = next
      BY <1>1, <3>1
    <3> HIDE DEF next
    <3> QED
      BY <2>1, <2>2, <3>1, <3>2, <3>3 DEF SummaryInv
  <2>5. CASE SaveSummary(a) \/ NoSummary(a)
    <3> DEFINE over == [Idle EXCEPT !.at = "over"]
    <3>1. /\ task[a].at = "llm" /\ task' = [task EXCEPT ![a] = over]
          /\ summary' = summary \/ summary' = task[a].base \union task[a].older
      BY <2>5 DEF SaveSummary, NoSummary, store
    <3>2. over.at = "over" /\ task'[a] = over
      BY <1>1, <3>1 DEF Idle
    <3>3. OldestOf(task[a].base \union task[a].older, history, cleared)
      BY <3>1, OldestOfTwo DEF SummaryInv
    <3> HIDE DEF over
    <3>4. OldestOf(summary', history', cleared')
      BY <2>1, <3>1, <3>3 DEF SummaryInv
    <3> QED
      BY <2>1, <2>2, <3>1, <3>2, <3>4 DEF SummaryInv
  <2> QED
    BY <1>8, <2>3, <2>4, <2>5 DEF Summarise
<1>9. CASE Ask \/ Refuse \/ Leave \/ Connect \/ UNCHANGED vars
  <2>1. UNCHANGED <<history, cleared, summary, task>>
    BY <1>9 DEF Ask, Refuse, Leave, Connect, Privately, vars, store
  <2> QED
    BY <1>2, <2>1
<1>10. CASE \/ Conflict \/ ResolveFails \/ Start \/ Route \/ PrepareRetrieval \/ SearchFaq
            \/ SearchDoc \/ Token \/ StreamEnds \/ Finalize \/ Fails
  <2>1. UNCHANGED <<history, cleared, summary, task>>
    BY <1>10 DEF Conflict, ResolveFails, Start, Route, PrepareRetrieval, SearchFaq, SearchDoc,
                 Token, StreamEnds, Finalize, Fails, Privately, store
  <2> QED
    BY <1>2, <2>1
<1> QED
  BY <1>3, <1>4, <1>5, <1>6, <1>7, <1>8, <1>9, <1>10 DEF Next, Serve

LEMMA SummaryInvImplies == SummaryInv => SummaryIsOfOlderTurns
BY DEF SummaryInv, SummaryIsOfOlderTurns, OldestOf, ShownOf, RecentTurns

\* Whatever tasks race, and whenever the session is cleared, the summary holds
\* the oldest of the stored turns, without a gap, and none of those that the
\* prompt shows word for word: for any number of tasks and turns shown.
THEOREM SummaryStaysOfOlderTurns == Spec => []SummaryIsOfOlderTurns
BY AnswerInvAlways, SummaryInvInit, SummaryInvStep, SummaryInvImplies, PTL DEF Spec
=============================================================================
