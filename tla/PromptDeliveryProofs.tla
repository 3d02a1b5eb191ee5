------------------------ MODULE PromptDeliveryProofs ------------------------
(***************************************************************************)
(* Proofs about the delivery of prompts and frames, for any set of         *)
(* prompts, any length of output and any number of restarts, turns and     *)
(* soiled lines.                                                           *)
(*                                                                         *)
(* The argument: a prompt is in at most one place, and the handlers of     *)
(* frames move it between places but never drop it (Keeps), unless a       *)
(* frame says that OMP has dealt with it; and whatever OMP says of that    *)
(* is true (PipeTrue), however the lines are cut into pieces, reassembled  *)
(* from chunks or dropped by a failed decoder (PushFacts).  An answer is   *)
(* under way at most once, and only for a command that OMP has read        *)
(* (AnsweredOnce), so no draft is given back of a prompt that was taken.   *)
(* The timeout is armed for a runtime that has work or whose end of work   *)
(* is still under way (ArmedForWork).                                      *)
(*                                                                         *)
(* For the order of the frames the invariant is about the future: read     *)
(* from the decoder as it stands, the lines in the pipe give the frames    *)
(* that were written and not handled, and every beginning of the lines     *)
(* gives a beginning of the frames (ReadsAll), as long as none throws.     *)
(* OMP extends both at the end, a line that is no frame cuts them short,   *)
(* and a piece takes a beginning away from both (CutRead).  An open run    *)
(* of chunks is always followed by its end or by a line that throws, so    *)
(* the host never holds half of a frame nobody completes.                  *)
(*                                                                         *)
(* push, the settling of answers and the removal of drafts are folds over  *)
(* sequences of any length.  What a fold computes is shown from the values *)
(* it passes (IterExists): if one of them broke the claim there would be a *)
(* least one (Least), which the step before it excludes (Along).           *)
(***************************************************************************)
EXTENDS PromptDelivery, FiniteSetTheorems, SequenceTheorems, TLAPS

\* The frames under way on lines of one kind.
Carried(lines, kind) ==
  {lines[i].frame : i \in {j \in DOMAIN lines : lines[j].kind = kind}}
\* The frames under way on whole lines.
WholeUnder(lines) == Carried(lines, "whole")

\* What OMP says of the end of a turn or a prompt is true: it has dealt with it.
ToldTruly(f) ==
  /\ f.type = "agent_end" => f.of \cap Prompts \subseteq finished
  /\ f.type = "prompt_result" => f.id \in finished
PipeTrue ==
  /\ Carried(pipe, "chunk") \subseteq {Output}
  /\ \A f \in WholeUnder(pipe) : f \in PromptFrames /\ (f # Negotiated => ToldTruly(f))

\* A prompt has one draft at most, and that, what a restart will give back and what the
\* composer has are one or none: none before it is sent, one until OMP has dealt with it.
OneDraft(ds) == \A i, j \in DOMAIN ds : ds[i] = ds[j] => i = j
PlacesKept ==
  /\ OneDraft(drafts)
  /\ \A p \in Prompts :
       /\ InPlaces(p) <= 1
       /\ stage[p] \in {"unsent", "preparing"} => InPlaces(p) = 0 /\ p \notin dropped
  /\ PromptKept

\* A command reaches OMP once, and OMP answers it once.
Answers(f, p) == f # Negotiated /\ f.type = "response" /\ f.id = p
AnsweredOnce ==
  /\ \A i, j \in DOMAIN cmds : cmds[i] = cmds[j] /\ cmds[i] \in Prompts => i = j
  /\ \A p \in Prompts :
       /\ p \in Range(cmds) => \A f \in WholeUnder(pipe) : ~Answers(f, p)
       /\ p \in Range(cmds) \/ (\E f \in WholeUnder(pipe) : Answers(f, p))
            => stage[p] \notin {"unsent", "preparing", "announcing"}
       /\ \A f, g \in WholeUnder(pipe) : Answers(f, p) /\ Answers(g, p) => f = g

\* The timeout belongs to a runtime: one that is armed has work, or what clears it is
\* under way, the end of a turn, a result, or a refusal somebody waits for.
Clears(f) ==
  f # Negotiated /\
    \/ f.type \in {"agent_end", "prompt_result"}
    \/ f.type = "response" /\ ~f.ok /\ f.id \in pending \cap watched
ArmedForWork ==
  /\ \A p \in Prompts : stage[p] = "announcing" => p \in watched /\ (p \in stale \/ up)
  /\ armed => up \/ ~running
  /\ armed /\ up /\ running /\ ~failed =>
       \/ turn # {}
       \/ Range(cmds) \cap pending \cap watched # {}
       \/ \E f \in WholeUnder(pipe) : Clears(f)

\* The inductive invariant.
IInv == DeliveryTypeOK /\ PipeTrue /\ PlacesKept /\ AnsweredOnce /\ ArmedForWork

-----------------------------------------------------------------------------
\* Folds over sequences of any length.

\* A set of numbers that is not empty has a least element.
LEMMA Least ==
  ASSUME NEW T \in SUBSET Nat, T # {}
  PROVE  \E n \in T : \A m \in T : n <= m
<1> DEFINE R == StrictSubsetOrdering(Nat)
           U == {1..n : n \in T}
<1>1. U \subseteq FiniteSubsetsOf(Nat) /\ U # {}
  <2>1. \A n \in T : IsFiniteSet(1..n) /\ 1..n \in SUBSET Nat
    BY FS_Interval
  <2>2. QED
    BY <2>1 DEF FiniteSubsetsOf
<1>2. \A m, n \in T : m < n => <<1..m, 1..n>> \in R
  <2>1. \A m, n \in T : m < n => 1..m \subseteq 1..n /\ n \in 1..n /\ n \notin 1..m
    OBVIOUS
  <2>2. \A m \in T : 1..m \in SUBSET Nat
    OBVIOUS
  <2>3. QED
    BY <2>1, <2>2 DEF StrictSubsetOrdering
<1>3. IsWellFoundedOn(R, FiniteSubsetsOf(Nat))
  BY FS_StrictSubsetOrderingWellFounded
<1> HIDE DEF R
<1>4. \E x \in U : \A y \in U : <<y, x>> \notin R
  BY <1>1, <1>3, WFMin
<1>5. PICK n \in T : \A y \in U : <<y, 1..n>> \notin R
  BY <1>4
<1>6. \A m \in T : ~(m < n)
  BY <1>2, <1>5
<1>7. QED
  BY <1>6

\* What holds at the start of a fold and passes from each of its values to the next
\* holds of all of them.
LEMMA Along ==
  ASSUME NEW n \in Nat, NEW g, NEW S, g[0] \in S[0],
         \A i \in 1..n : g[i - 1] \in S[i - 1] => g[i] \in S[i]
  PROVE  \A i \in 0..n : g[i] \in S[i]
<1> DEFINE T == {i \in 0..n : g[i] \notin S[i]}
<1>1. SUFFICES ASSUME T # {} PROVE FALSE
  OBVIOUS
<1>2. PICK i \in T : \A j \in T : i <= j
  <2>1. T \in SUBSET Nat
    OBVIOUS
  <2>2. QED
    BY <1>1, <2>1, Least
<1>3. i \in 1..n /\ i - 1 \in 0..n /\ ~(i <= i - 1)
  OBVIOUS
<1>4. i - 1 \notin T
  BY <1>2, <1>3
<1>5. QED
  BY <1>3, <1>4

\* The greatest number of a set, as the folds take it.
LEMMA MaxOf ==
  ASSUME NEW k \in Nat, NEW s \in SUBSET (1..k), k \in s
  PROVE  Max(s) = k
<1>1. \A y \in s : k >= y
  OBVIOUS
<1>2. Max(s) \in s /\ \A y \in s : Max(s) >= y
  BY <1>1, Zenon DEF Max
<1>3. Max(s) \in 1..k /\ Max(s) >= k
  BY <1>2
<1>4. QED
  BY <1>3

\* The equation of the function of which FoldLeft takes the value, for steps that are
\* functions; and there is such a function.
Iterates(it, n, base, step) ==
  \A s \in SUBSET (1..n) :
    it[s] = IF s = {} THEN base ELSE step[Max(s)][it[s \ {Max(s)}]]
\* The values of a fold, one for each number of elements taken: each from the one before.
LEMMA IterExists ==
  ASSUME NEW n \in Nat, NEW A, NEW base \in A, NEW step \in [1..n -> [A -> A]]
  PROVE  \E it \in [SUBSET (1..n) -> A] : Iterates(it, n, base, step)
<1> DEFINE Good(k) ==
      \E it \in [SUBSET (1..k) -> A] :
        \A s \in SUBSET (1..k) :
          it[s] = IF s = {} THEN base ELSE step[Max(s)][it[s \ {Max(s)}]]
<1> DEFINE T == {k \in 0..n : ~Good(k)}
<1>1. Good(0)
  <2> DEFINE it == [s \in SUBSET (1..0) |-> base]
  <2>1. it \in [SUBSET (1..0) -> A]
    OBVIOUS
  <2>2. \A s \in SUBSET (1..0) : s = {} /\ it[s] = base
    OBVIOUS
  <2>3. QED
    BY <2>1, <2>2
<1>2. ASSUME NEW k \in 1..n, Good(k - 1) PROVE Good(k)
  <2>1. PICK it \in [SUBSET (1..(k - 1)) -> A] :
          \A s \in SUBSET (1..(k - 1)) :
            it[s] = IF s = {} THEN base ELSE step[Max(s)][it[s \ {Max(s)}]]
    BY <1>2
  <2> DEFINE new == [s \in SUBSET (1..k) |->
                       IF k \in s THEN step[k][it[s \ {k}]] ELSE it[s]]
  <2>2. \A s \in SUBSET (1..k) :
          /\ s \ {k} \in SUBSET (1..(k - 1))
          /\ k \notin s => s \in SUBSET (1..(k - 1)) /\ s \ {k} = s
          /\ \A x : k \notin s \ {x} \/ x # k
    OBVIOUS
  <2>3. new \in [SUBSET (1..k) -> A]
    <3>1. \A s \in SUBSET (1..k) : it[s \ {k}] \in A /\ (k \notin s => it[s] \in A)
      BY <2>2
    <3>2. QED
      BY <3>1
  <2>4. ASSUME NEW s \in SUBSET (1..k)
        PROVE  new[s] = IF s = {} THEN base ELSE step[Max(s)][new[s \ {Max(s)}]]
    <3>1. CASE k \in s
      <4>1. Max(s) = k
        BY <3>1, MaxOf
      <4>2. new[s] = step[k][it[s \ {k}]]
        BY <3>1
      <4>3. s \ {k} \in SUBSET (1..k) /\ k \notin s \ {k}
        OBVIOUS
      <4>4. new[s \ {k}] = it[s \ {k}]
        BY <4>3
      <4>5. QED
        BY <3>1, <4>1, <4>2, <4>4
    <3>2. CASE k \notin s
      <4>1. new[s] = it[s] /\ s \in SUBSET (1..(k - 1))
        BY <2>2, <3>2
      <4>2. \A x : s \ {x} \in SUBSET (1..k) /\ k \notin s \ {x}
        BY <3>2
      <4>3. \A x : new[s \ {x}] = it[s \ {x}]
        BY <4>2
      <4> HIDE DEF new
      <4>4. QED
        BY <2>1, <4>1, <4>3
    <3>3. QED
      BY <3>1, <3>2
  <2> HIDE DEF new
  <2>5. QED
    BY <2>3, <2>4
<1> HIDE DEF Good
<1>3. SUFFICES ASSUME T # {} PROVE FALSE
  <2>1. n \in 0..n
    OBVIOUS
  <2>2. T = {} => Good(n)
    BY <2>1
  <2>3. QED
    BY <2>2 DEF Good, Iterates
<1>4. PICK k \in T : \A j \in T : k <= j
  <2>1. T \in SUBSET Nat
    OBVIOUS
  <2>2. QED
    BY <1>3, <2>1, Least
<1>5. k \in 1..n /\ k - 1 \in 0..n /\ ~(k <= k - 1)
  BY <1>1
<1>6. Good(k - 1)
  BY <1>4, <1>5
<1>7. QED
  BY <1>2, <1>4, <1>5, <1>6

\* What Max chooses from a set of positive numbers up to a bound is one of them.
LEMMA MaxIn ==
  ASSUME NEW n \in Nat, NEW s \in SUBSET (1..n), s # {}
  PROVE  Max(s) \in s
<1> DEFINE T == {m \in 0..n : \A y \in s : y <= m}
<1>1. T \in SUBSET Nat /\ n \in T
  OBVIOUS
<1>2. PICK m \in T : \A k \in T : m <= k
  BY <1>1, Least
<1>3. m \in s
  <2>1. SUFFICES ASSUME m \notin s PROVE FALSE
    OBVIOUS
  <2>2. m # 0 /\ m - 1 \in 0..n
    <3>1. PICK y \in s : y \in 1..n /\ y <= m
      OBVIOUS
    <3>2. QED
      BY <3>1
  <2>3. \A y \in s : y <= m - 1
    BY <2>1
  <2>4. m - 1 \in T
    BY <2>2, <2>3
  <2>5. QED
    BY <1>2, <2>4
<1>4. \A y \in s : m >= y
  OBVIOUS
<1>5. QED
  BY <1>3, <1>4, Zenon DEF Max

\* The first numbers, as a fold goes over them.
LEMMA Initial ==
  ASSUME NEW n \in Nat, NEW i \in 1..n
  PROVE  /\ 1..i \in SUBSET (1..n) /\ 1..i # {} /\ (1..i) \ {i} = 1..(i - 1)
         /\ Max(1..i) = i
<1>1. \A j \in 1..i : j \in 1..n
  OBVIOUS
<1>2. i \in 1..i /\ i \in Nat /\ (1..i) \ {i} = 1..(i - 1)
  OBVIOUS
<1>3. Max(1..i) = i
  BY <1>2, MaxOf
<1>4. QED
  BY <1>1, <1>2, <1>3

\* The drafts but some of them: in a sequence, none of those removed, and all others.
LEMMA WithoutTrace ==
  ASSUME NEW ds \in Seq(Prompts), NEW ps
  PROVE  \E g : /\ g[0] = <<>>
                /\ \A i \in 1..Len(ds) :
                     g[i] = IF ds[i] \in ps THEN g[i - 1] ELSE Append(g[i - 1], ds[i])
                /\ Without(ds, ps) = g[Len(ds)]
<1> DEFINE n == Len(ds)
           A == Seq(Prompts)
           Step(kept, p) == IF p \in ps THEN kept ELSE Append(kept, p)
           step == [i \in 1..n |-> [kept \in A |-> Step(kept, ds[i])]]
           Body(it) == [s \in SUBSET DOMAIN ds |->
                          IF s = {} THEN <<>> ELSE Step(it[s \ {Max(s)}], ds[Max(s)])]
           iter == CHOOSE it : it = Body(it)
<1>1. n \in Nat /\ DOMAIN ds = 1..n /\ \A i \in 1..n : ds[i] \in Prompts
  OBVIOUS
<1>2. Without(ds, ps) = iter[DOMAIN ds]
  BY DEF Without, FoldLeft, MapThenFoldSet
<1>3. iter = Body(iter)
  <2>1. step \in [1..n -> [A -> A]]
    <3>1. \A i \in 1..n, kept \in A : Step(kept, ds[i]) \in A
      BY <1>1
    <3> HIDE DEF Step, A
    <3>2. QED
      BY <3>1
  <2>2. PICK it \in [SUBSET (1..n) -> A] : Iterates(it, n, <<>>, step)
    <3>1. <<>> \in A
      OBVIOUS
    <3> HIDE DEF step, A, n
    <3>2. QED
      BY <1>1, <2>1, <3>1, IterExists
  <2>3. it = Body(it)
    <3>1. ASSUME NEW s \in SUBSET (1..n), s # {}
          PROVE  Max(s) \in 1..n
      BY <1>1, <3>1, MaxIn
    <3>2. \A s \in SUBSET (1..n) : s # {} =>
            step[Max(s)][it[s \ {Max(s)}]] = Step(it[s \ {Max(s)}], ds[Max(s)])
      <4>1. \A s \in SUBSET (1..n) : it[s \ {Max(s)}] \in A
        BY <2>2
      <4> HIDE DEF Step, A
      <4>2. QED
        BY <3>1, <4>1
    <3> HIDE DEF step, Step, A
    <3>3. QED
      BY <1>1, <2>2, <3>2 DEF Iterates
  <2> HIDE DEF Body
  <2>4. QED
    BY <2>3, Zenon
<1>4. iter[{}] = <<>> /\ \A i \in 1..n : iter[1..i] = Step(iter[1..(i - 1)], ds[i])
  <2> HIDE DEF iter, Step
  <2>1. \A s \in SUBSET (1..n) :
          iter[s] = IF s = {} THEN <<>> ELSE Step(iter[s \ {Max(s)}], ds[Max(s)])
    BY <1>1, <1>3
  <2> HIDE DEF n
  <2>2. QED
    BY <1>1, <2>1, Initial
<1> DEFINE g == [i \in 0..n |-> iter[1..i]]
<1>5. QED
  <2> HIDE DEF iter, n
  <2>1. g[0] = <<>>
    BY <1>1, <1>4
  <2>2. \A i \in 1..n : g[i] = Step(g[i - 1], ds[i])
    BY <1>1, <1>4
  <2>3. Without(ds, ps) = g[n]
    BY <1>1, <1>2
  <2> HIDE DEF g
  <2>4. QED
    BY <2>1, <2>2, <2>3 DEF n

\* What Without leaves: the other drafts, each as often as before.
LEMMA WithoutFacts ==
  ASSUME NEW ds \in Seq(Prompts), NEW ps
  PROVE  /\ Without(ds, ps) \in Seq(Prompts)
         /\ Range(Without(ds, ps)) = Range(ds) \ ps
         /\ OneDraft(ds) => OneDraft(Without(ds, ps))
<1> DEFINE n == Len(ds)
<1>1. PICK g : /\ g[0] = <<>>
               /\ \A i \in 1..n :
                    g[i] = IF ds[i] \in ps THEN g[i - 1] ELSE Append(g[i - 1], ds[i])
               /\ Without(ds, ps) = g[n]
  BY WithoutTrace
<1> DEFINE First(i) == {ds[j] : j \in 1..i}
           Fits(k, i) == /\ Range(k) = First(i) \ ps
                         /\ OneDraft(ds) => OneDraft(k)
           S == [i \in 0..n |-> {k \in Seq(Prompts) : Fits(k, i)}]
<1>2. n \in Nat /\ DOMAIN ds = 1..n /\ \A i \in 1..n : ds[i] \in Prompts
  OBVIOUS
<1>3. g[0] \in S[0]
  <2>1. First(0) = {} /\ Range(<<>>) = {} /\ OneDraft(<<>>) /\ <<>> \in Seq(Prompts)
    BY DEF Range, OneDraft
  <2>2. Fits(<<>>, 0)
    BY <2>1
  <2> HIDE DEF Fits
  <2>3. QED
    BY <1>1, <1>2, <2>1, <2>2
<1>4. ASSUME NEW i \in 1..n, g[i - 1] \in S[i - 1] PROVE g[i] \in S[i]
  <2> DEFINE k == g[i - 1]
  <2>1. i \in 0..n /\ i - 1 \in 0..n
    BY <1>2
  <2>2. k \in Seq(Prompts) /\ Fits(k, i - 1)
    <3> HIDE DEF Fits
    <3>1. QED
      BY <1>4, <2>1
  <2>3. First(i) = First(i - 1) \cup {ds[i]}
    <3>1. \A j \in 1..i : j = i \/ j \in 1..(i - 1)
      BY <1>2
    <3>2. \A j \in 1..(i - 1) : j \in 1..i
      BY <1>2
    <3>3. i \in 1..i
      BY <1>2
    <3>4. QED
      BY <3>1, <3>2, <3>3
  <2>4. CASE ds[i] \in ps
    <3>1. g[i] = k
      BY <1>1, <2>4
    <3>2. Fits(k, i)
      <4> HIDE DEF First, k
      <4>1. QED
        BY <2>2, <2>3, <2>4
    <3> HIDE DEF Fits, k
    <3>3. QED
      BY <2>1, <2>2, <3>1, <3>2
  <2>5. CASE ds[i] \notin ps
    <3> DEFINE e == ds[i]
               new == Append(k, e)
    <3>1. g[i] = new
      BY <1>1, <2>5
    <3> HIDE DEF k
    <3>2. /\ new \in Seq(Prompts) /\ Len(k) \in Nat /\ DOMAIN k = 1..Len(k)
          /\ DOMAIN new = 1..(Len(k) + 1) /\ new[Len(k) + 1] = e
          /\ \A a \in 1..Len(k) : new[a] = k[a]
      BY <1>2, <2>2
    <3>3. Range(new) = Range(k) \cup {e}
      <4>1. \A a \in 1..(Len(k) + 1) : a = Len(k) + 1 \/ a \in 1..Len(k)
        BY <3>2
      <4>2. Len(k) + 1 \in 1..(Len(k) + 1) /\ \A a \in 1..Len(k) : a \in 1..(Len(k) + 1)
        BY <3>2
      <4> HIDE DEF new, e
      <4>3. QED
        BY <3>2, <4>1, <4>2 DEF Range
    <3>4. ASSUME OneDraft(ds) PROVE OneDraft(new)
      <4>1. e \notin Range(k)
        <5>1. SUFFICES ASSUME e \in First(i - 1) PROVE FALSE
          BY <2>2
        <5>2. PICK j \in 1..(i - 1) : ds[j] = ds[i]
          BY <5>1
        <5>3. j \in 1..n /\ j # i
          BY <1>2
        <5>4. QED
          BY <1>2, <3>4, <5>2, <5>3 DEF OneDraft
      <4>2. OneDraft(k)
        BY <2>2, <3>4
      <4>3. \A a \in 1..(Len(k) + 1) : a = Len(k) + 1 \/ a \in 1..Len(k)
        BY <3>2
      <4> HIDE DEF new, e
      <4>4. QED
        BY <3>2, <4>1, <4>2, <4>3 DEF OneDraft, Range
    <3>5. Fits(new, i)
      <4> HIDE DEF First, new
      <4>1. QED
        BY <2>2, <2>3, <2>5, <3>3, <3>4
    <3> HIDE DEF Fits, new
    <3>6. QED
      BY <2>1, <3>1, <3>2, <3>5
  <2>6. QED
    BY <2>4, <2>5
<1>5. g[n] \in S[n]
  <2> HIDE DEF S, n
  <2>1. \A i \in 0..n : g[i] \in S[i]
    BY <1>2, <1>3, <1>4, Along
  <2>2. QED
    BY <1>2, <2>1
<1>6. Fits(g[n], n) /\ g[n] \in Seq(Prompts)
  <2> HIDE DEF Fits
  <2>1. QED
    BY <1>2, <1>5
<1>7. First(n) = Range(ds)
  BY <1>2 DEF Range
<1> HIDE DEF First, n
<1>8. QED
  BY <1>1, <1>6, <1>7

-----------------------------------------------------------------------------
\* What the handlers of frames return.

\* What the handling of frames holds.
PromptAnswers ==
  {Answer(p, ok, invoked) : p \in Prompts, ok \in BOOLEAN, invoked \in BOOLEAN}
\* The records the handlers of frames are given and return.
Handlings ==
  [pending : SUBSET Prompts, drafts : Seq(Prompts), restored : [Prompts -> Nat],
   swept : SUBSET Prompts, streaming : BOOLEAN, armed : BOOLEAN, up : BOOLEAN,
   settled : Seq(PromptAnswers)]

\* The frames of a prompt by their type.
LEMMA FrameKinds ==
  ASSUME NEW f \in PromptFrames, f # Negotiated
  PROVE  \/ f = AgentStart /\ f.type = "agent_start"
         \/ f = Output /\ f.type = "output"
         \/ f.type = "response" /\ f \in PromptAnswers /\ f.id \in Prompts
              /\ f.ok \in BOOLEAN /\ f.invoked \in BOOLEAN
         \/ f.type = "prompt_result" /\ \E p \in Prompts : f = PromptResult(p) /\ f.id = p
         \/ f.type = "agent_end" /\ \E t \in Turns : f = AgentEnd(t) /\ f.of = t
BY DEF PromptFrames, TurnFrames, PromptAnswers, AgentStart, Output, Answer, PromptResult, AgentEnd

\* Removing a draft, and giving drafts back.
LEMMA GiveBackTypes ==
  ASSUME NEW count \in [Prompts -> Nat], NEW ds \in Seq(Prompts), NEW p, NEW ps
  PROVE  /\ GiveBack(count, ds, p) \in [Prompts -> Nat]
         /\ GiveBackAll(count, ps) \in [Prompts -> Nat]
<1>1. Range(ds) \subseteq Prompts
  BY DEF Range
<1>2. QED
  BY <1>1 DEF GiveBack, GiveBackAll

\* What the end of a turn leaves of the drafts.
LEMMA AgentEndedFacts ==
  ASSUME NEW ds \in Seq(Prompts)
  PROVE  /\ AgentEnded(ds) \in Seq(Prompts)
         /\ Range(AgentEnded(ds)) \subseteq Range(ds)
         /\ OneDraft(ds) => OneDraft(AgentEnded(ds))
<1>1. CASE ds = <<>>
  BY <1>1 DEF AgentEnded
<1>2. CASE ds # <<>>
  <2>1. /\ Tail(ds) \in Seq(Prompts) /\ Len(ds) \in Nat \ {0} /\ DOMAIN ds = 1..Len(ds)
        /\ DOMAIN Tail(ds) = 1..(Len(ds) - 1)
        /\ \A i \in 1..(Len(ds) - 1) : Tail(ds)[i] = ds[i + 1]
    BY <1>2
  <2>2. \A i \in 1..(Len(ds) - 1) : i + 1 \in 1..Len(ds)
    BY <2>1
  <2>3. \A i, j \in 1..(Len(ds) - 1) : i + 1 = j + 1 => i = j
    BY <2>1
  <2>4. AgentEnded(ds) = Tail(ds)
    BY <1>2 DEF AgentEnded
  <2>5. QED
    BY <2>1, <2>2, <2>3, <2>4 DEF Range, OneDraft
<1>3. QED
  BY <1>1, <1>2

\* What settling a request changes: the answers that settle one, and the requests.
LEMMA SettleTypes ==
  ASSUME NEW h \in Handlings, NEW f \in PromptFrames, f # Negotiated
  PROVE  /\ Settle(h, f) \in Handlings
         /\ Settle(h, f).settled =
              IF f.type = "response" /\ f.id \in h.pending THEN Append(h.settled, f)
              ELSE h.settled
         /\ Settle(h, f).pending = h.pending \ (IF f.type = "response" THEN {f.id} ELSE {})
         /\ Settle(h, f).drafts = h.drafts /\ Settle(h, f).restored = h.restored
         /\ Settle(h, f).swept = h.swept /\ Settle(h, f).armed = h.armed
         /\ Settle(h, f).up = h.up
<1>1. CASE f.type = "response" /\ f.id \in h.pending
  <2>1. f \in PromptAnswers
    BY <1>1, FrameKinds
  <2>2. Append(h.settled, f) \in Seq(PromptAnswers)
    BY <2>1 DEF Handlings
  <2>3. QED
    BY <1>1, <2>2 DEF Settle, Handlings
<1>2. CASE ~(f.type = "response" /\ f.id \in h.pending)
  BY <1>2 DEF Settle, Handlings
<1>3. QED
  BY <1>1, <1>2

\* What handling one frame of a running chat does.
LEMMA RpcFrameFacts ==
  ASSUME NEW h \in Handlings, NEW f \in PromptFrames, f # Negotiated
  PROVE  LET n == HandleRpcFrame(h, f) IN
         /\ n \in Handlings
         /\ n.pending = h.pending /\ n.settled = h.settled /\ n.armed = h.armed /\ n.up = h.up
         /\ \/ n.drafts = h.drafts /\ n.restored = h.restored /\ n.swept = h.swept
            \/ /\ f.type = "agent_end"
               /\ n.drafts = AgentEnded(h.drafts) /\ n.restored = h.restored
               /\ n.swept = h.swept \cup (Range(h.drafts) \ (Range(n.drafts) \cup f.of))
            \/ /\ f.type = "prompt_result"
               /\ n.drafts = Without(h.drafts, {f.id})
               /\ n.restored = h.restored /\ n.swept = h.swept
            \/ /\ f.type = "response" /\ n.drafts = Without(h.drafts, {f.id})
               /\ n.restored = GiveBack(h.restored, h.drafts, f.id) /\ n.swept = h.swept
<1> DEFINE n == HandleRpcFrame(h, f)
<1>1. CASE f = AgentStart
  <2>1. n = [h EXCEPT !.streaming = TRUE]
    BY <1>1 DEF HandleRpcFrame, AgentStart
  <2>2. QED
    BY <2>1 DEF Handlings
<1>2. CASE f.type = "agent_end"
  <2>1. f # AgentStart
    BY <1>2 DEF AgentStart
  <2>2. n = [h EXCEPT !.streaming = FALSE, !.drafts = AgentEnded(@),
            !.swept = @ \cup (Range(h.drafts) \ (Range(AgentEnded(h.drafts)) \cup f.of))]
    BY <1>2, <2>1 DEF HandleRpcFrame
  <2>3. /\ h.drafts \in Seq(Prompts) /\ h.swept \in SUBSET Prompts
        /\ Range(h.drafts) \subseteq Prompts
    BY DEF Handlings, Range
  <2>4. AgentEnded(h.drafts) \in Seq(Prompts)
    BY <2>3, AgentEndedFacts
  <2>5. h.swept \cup (Range(h.drafts) \ (Range(AgentEnded(h.drafts)) \cup f.of)) \in SUBSET Prompts
    BY <2>3
  <2>6. QED
    BY <1>2, <2>2, <2>4, <2>5 DEF Handlings
<1>3. CASE f.type = "prompt_result"
  <2>1. f # AgentStart
    BY <1>3 DEF AgentStart
  <2>2. n = [h EXCEPT !.streaming = FALSE, !.drafts = Without(@, {f.id})]
    BY <1>3, <2>1 DEF HandleRpcFrame
  <2>3. Without(h.drafts, {f.id}) \in Seq(Prompts)
    BY WithoutFacts DEF Handlings
  <2>4. QED
    BY <1>3, <2>2, <2>3 DEF Handlings
<1>4. CASE f.type = "response" /\ ~f.ok
  <2>1. f # AgentStart
    BY <1>4 DEF AgentStart
  <2>2. n = [h EXCEPT !.restored = GiveBack(@, h.drafts, f.id),
                      !.drafts = Without(@, {f.id})]
    BY <1>4, <2>1 DEF HandleRpcFrame
  <2>3. h.drafts \in Seq(Prompts) /\ h.restored \in [Prompts -> Nat]
    BY DEF Handlings
  <2>4. /\ Without(h.drafts, {f.id}) \in Seq(Prompts)
        /\ GiveBack(h.restored, h.drafts, f.id) \in [Prompts -> Nat]
    BY <2>3, WithoutFacts, GiveBackTypes
  <2>5. QED
    BY <1>4, <2>2, <2>4 DEF Handlings
<1>5. CASE /\ f # AgentStart /\ f.type \notin {"agent_end", "prompt_result"}
           /\ ~(f.type = "response" /\ ~f.ok)
  BY <1>5 DEF HandleRpcFrame
<1>6. QED
  BY <1>1, <1>2, <1>3, <1>4, <1>5

\* Where a prompt is in a handling, and what handling may do to it: it moves, and is
\* lost only when OMP has dealt with it or it goes with the end of another turn.
Places(h, p) == (IF p \in Range(h.drafts) THEN 1 ELSE 0) + h.restored[p]
\* A handler loses no draft and makes none: a prompt that OMP has not dealt with, and that
\* no end of a turn has swept, is in as many places after it as before.
Keeps(h, n) ==
  /\ OneDraft(h.drafts) => OneDraft(n.drafts)
  /\ h.swept \subseteq n.swept
  /\ \A p \in Prompts :
       /\ Places(n, p) <= Places(h, p)
       /\ p \notin finished \cup n.swept => Places(n, p) = Places(h, p)

\* One handler after another.
LEMMA KeepsAlso ==
  ASSUME NEW h \in Handlings, NEW m \in Handlings, NEW n \in Handlings,
         Keeps(h, m), Keeps(m, n)
  PROVE  Keeps(h, n)
<1>1. \A p \in Prompts : Places(h, p) \in Nat /\ Places(m, p) \in Nat /\ Places(n, p) \in Nat
  BY DEF Places, Handlings
<1>2. QED
  BY <1>1 DEF Keeps

\* A handler that touches neither the drafts nor what it gives back.
LEMMA KeepsSame ==
  ASSUME NEW h \in Handlings, NEW n \in Handlings,
         n.drafts = h.drafts, n.restored = h.restored, n.swept = h.swept
  PROVE  Keeps(h, n)
<1>1. \A p \in Prompts : Places(h, p) \in Nat /\ Places(n, p) = Places(h, p)
  BY DEF Places, Handlings
<1>2. QED
  BY <1>1 DEF Keeps

\* The draft of a prompt that is given back moves to the composer.
LEMMA KeepsGivenBack ==
  ASSUME NEW h \in Handlings, NEW n \in Handlings, NEW q \in Prompts,
         n.drafts = Without(h.drafts, {q}),
         n.restored = GiveBack(h.restored, h.drafts, q), n.swept = h.swept
  PROVE  Keeps(h, n)
<1>1. h.drafts \in Seq(Prompts) /\ h.restored \in [Prompts -> Nat]
  BY DEF Handlings
<1>2. /\ Range(n.drafts) = Range(h.drafts) \ {q}
      /\ OneDraft(h.drafts) => OneDraft(n.drafts)
  BY <1>1, WithoutFacts
<1>3. \A p \in Prompts :
        n.restored[p] = IF p = q /\ q \in Range(h.drafts) THEN h.restored[p] + 1
                        ELSE h.restored[p]
  BY <1>1 DEF GiveBack
<1>4. ASSUME NEW p \in Prompts
      PROVE  Places(h, p) \in Nat /\ Places(n, p) = Places(h, p)
  <2>1. h.restored[p] \in Nat
    BY <1>1
  <2>2. p \in Range(n.drafts) <=> p \in Range(h.drafts) /\ p \notin {q}
    BY <1>2
  <2>3. n.restored[p] = IF p \in Range(h.drafts) /\ p \in {q} THEN h.restored[p] + 1
                        ELSE h.restored[p]
    BY <1>3
  <2>4. QED
    BY <2>1, <2>2, <2>3 DEF Places
<1>5. QED
  BY <1>2, <1>4 DEF Keeps

\* The same for the prompts whose requests are rejected.
LEMMA KeepsRejected ==
  ASSUME NEW h \in Handlings, NEW n \in Handlings, NEW ps \in SUBSET Prompts,
         n.drafts = Without(h.drafts, ps),
         n.restored = GiveBackAll(h.restored, Range(h.drafts) \cap ps), n.swept = h.swept
  PROVE  Keeps(h, n)
<1>1. h.drafts \in Seq(Prompts) /\ h.restored \in [Prompts -> Nat]
  BY DEF Handlings
<1>2. /\ Range(n.drafts) = Range(h.drafts) \ ps
      /\ OneDraft(h.drafts) => OneDraft(n.drafts)
  BY <1>1, WithoutFacts
<1>3. \A p \in Prompts :
        n.restored[p] = IF p \in Range(h.drafts) \cap ps THEN h.restored[p] + 1
                        ELSE h.restored[p]
  BY <1>1 DEF GiveBackAll
<1>4. ASSUME NEW p \in Prompts
      PROVE  Places(h, p) \in Nat /\ Places(n, p) = Places(h, p)
  <2>1. h.restored[p] \in Nat
    BY <1>1
  <2>2. p \in Range(n.drafts) <=> p \in Range(h.drafts) /\ p \notin ps
    BY <1>2
  <2>3. n.restored[p] = IF p \in Range(h.drafts) /\ p \in ps THEN h.restored[p] + 1
                        ELSE h.restored[p]
    BY <1>3
  <2>4. QED
    BY <2>1, <2>2, <2>3 DEF Places
<1>5. QED
  BY <1>2, <1>4 DEF Keeps

\* A draft that goes with nothing given back is of a prompt OMP has dealt with.
LEMMA KeepsLess ==
  ASSUME NEW h \in Handlings, NEW n \in Handlings,
         Range(n.drafts) \subseteq Range(h.drafts),
         Range(h.drafts) \ Range(n.drafts) \subseteq finished \cup n.swept,
         OneDraft(h.drafts) => OneDraft(n.drafts),
         n.restored = h.restored, h.swept \subseteq n.swept
  PROVE  Keeps(h, n)
<1>1. h.restored \in [Prompts -> Nat]
  BY DEF Handlings
<1>2. \A p \in Prompts : h.restored[p] \in Nat
  BY <1>1
<1>3. \A p \in Prompts :
        /\ Places(n, p) <= Places(h, p)
        /\ p \notin finished \cup n.swept => Places(n, p) = Places(h, p)
  BY <1>2 DEF Places
<1>4. QED
  BY <1>3 DEF Keeps

\* What handling one frame does: to the requests and the timeout, to the drafts, and to
\* the runtime.
HandledBy(h, f, n) ==
  /\ n \in Handlings /\ Keeps(h, n)
  /\ h.up => n.up
  /\ n.armed => h.armed
  /\ f # Negotiated /\ h.up /\ Observed(f) => ~n.armed
  /\ \A p \in Prompts :
       /\ p \in n.pending => p \in h.pending /\ ~Answers(f, p)
       /\ p \in h.pending /\ ~Answers(f, p) => p \in n.pending
  /\ \/ n.settled = h.settled /\ \A p \in h.pending : ~Answers(f, p)
     \/ n.settled = Append(h.settled, f) /\ f \in PromptAnswers /\ f.id \in h.pending
          /\ Answers(f, f.id)

\* A response settles the request it answers, if that still waits.
LEMMA Settling ==
  ASSUME NEW h \in Handlings, NEW f \in PromptFrames, f # Negotiated, NEW n,
         n.settled = IF f.type = "response" /\ f.id \in h.pending THEN Append(h.settled, f)
                     ELSE h.settled,
         n.pending = h.pending \ (IF f.type = "response" THEN {f.id} ELSE {})
  PROVE  /\ \A p \in Prompts :
              /\ p \in n.pending => p \in h.pending /\ ~Answers(f, p)
              /\ p \in h.pending /\ ~Answers(f, p) => p \in n.pending
         /\ \/ n.settled = h.settled /\ \A p \in h.pending : ~Answers(f, p)
            \/ n.settled = Append(h.settled, f) /\ f \in PromptAnswers /\ f.id \in h.pending
                 /\ Answers(f, f.id)
<1>1. CASE f.type = "response"
  <2>1. f \in PromptAnswers
    BY <1>1, FrameKinds
  <2>2. n.pending = h.pending \ {f.id} /\ \A p : Answers(f, p) <=> f.id = p
    BY <1>1 DEF Answers
  <2>3. QED
    BY <1>1, <2>1, <2>2
<1>2. CASE f.type # "response"
  BY <1>2 DEF Answers
<1>3. QED
  BY <1>1, <1>2

\* What #handleFrame does with any frame that is true.
LEMMA HandleFrameFacts ==
  ASSUME NEW h \in Handlings, NEW f \in PromptFrames, f # Negotiated => ToldTruly(f)
  PROVE  HandledBy(h, f, HandleFrame(h, f))
<1> DEFINE n == HandleFrame(h, f)
<1> SUFFICES HandledBy(h, f, n)
  OBVIOUS
<1>1. CASE f = Negotiated
  <2>1. n = [h EXCEPT !.up = TRUE]
    BY <1>1 DEF HandleFrame
  <2>2. n \in Handlings
    BY <2>1 DEF Handlings
  <2>3. /\ n.up /\ n.armed = h.armed /\ n.pending = h.pending /\ n.settled = h.settled
        /\ n.drafts = h.drafts /\ n.restored = h.restored /\ n.swept = h.swept
    BY <2>1 DEF Handlings
  <2>4. Keeps(h, n)
    BY <2>2, <2>3, KeepsSame
  <2>5. QED
    BY <1>1, <2>2, <2>3, <2>4 DEF HandledBy, Answers
<1>2. CASE f # Negotiated
  <2> DEFINE s == Settle(h, f)
             seen == [s EXCEPT !.armed = @ /\ ~Observed(f)]
  <2>1. /\ s \in Handlings
        /\ s.settled = IF f.type = "response" /\ f.id \in h.pending THEN Append(h.settled, f)
                       ELSE h.settled
        /\ s.pending = h.pending \ (IF f.type = "response" THEN {f.id} ELSE {})
        /\ s.drafts = h.drafts /\ s.restored = h.restored /\ s.swept = h.swept
        /\ s.armed = h.armed /\ s.up = h.up
    BY <1>2, SettleTypes
  <2>2. n = IF ~s.up THEN s ELSE HandleRpcFrame(seen, f)
    BY <1>2 DEF HandleFrame
  <2>3. h.pending \subseteq Prompts /\ f.type = "response" => f \in PromptAnswers
    BY <1>2, FrameKinds DEF Handlings
  <2>4. CASE ~s.up
    <3>1. n = s /\ ~h.up
      BY <2>1, <2>2, <2>4
    <3> HIDE DEF s, n
    <3>2. Keeps(h, n)
      BY <2>1, <3>1, KeepsSame
    <3>3. /\ n \in Handlings /\ ~h.up /\ (n.armed => h.armed)
          /\ n.settled = IF f.type = "response" /\ f.id \in h.pending THEN Append(h.settled, f)
                         ELSE h.settled
          /\ n.pending = h.pending \ (IF f.type = "response" THEN {f.id} ELSE {})
      BY <2>1, <3>1
    <3>4. QED
      BY <1>2, <2>3, <3>2, <3>3, Settling DEF HandledBy
  <2>5. CASE s.up
    <3>1. /\ seen \in Handlings
          /\ seen.settled = s.settled /\ seen.pending = s.pending /\ seen.drafts = s.drafts
          /\ seen.restored = s.restored /\ seen.swept = s.swept /\ seen.up = s.up
          /\ seen.armed = (s.armed /\ ~Observed(f))
      <4> HIDE DEF s
      <4>1. QED
        BY <2>1 DEF Handlings
    <3>2. n = HandleRpcFrame(seen, f)
      BY <2>2, <2>5
    <3> HIDE DEF s, n, seen
    <3>3. /\ n \in Handlings
          /\ n.pending = s.pending /\ n.settled = s.settled
          /\ n.armed = (s.armed /\ ~Observed(f)) /\ n.up
      BY <1>2, <2>5, <3>1, <3>2, RpcFrameFacts
    <3>4. \/ n.drafts = h.drafts /\ n.restored = h.restored /\ n.swept = h.swept
          \/ /\ f.type = "agent_end"
             /\ n.drafts = AgentEnded(h.drafts) /\ n.restored = h.restored
             /\ n.swept = h.swept \cup (Range(h.drafts) \ (Range(n.drafts) \cup f.of))
          \/ /\ f.type = "prompt_result"
             /\ n.drafts = Without(h.drafts, {f.id})
             /\ n.restored = h.restored /\ n.swept = h.swept
          \/ /\ f.type = "response" /\ n.drafts = Without(h.drafts, {f.id})
             /\ n.restored = GiveBack(h.restored, h.drafts, f.id) /\ n.swept = h.swept
      <4>1. \/ n.drafts = seen.drafts /\ n.restored = seen.restored /\ n.swept = seen.swept
            \/ /\ f.type = "agent_end"
               /\ n.drafts = AgentEnded(seen.drafts) /\ n.restored = seen.restored
               /\ n.swept = seen.swept \cup (Range(seen.drafts) \ (Range(n.drafts) \cup f.of))
            \/ /\ f.type = "prompt_result"
               /\ n.drafts = Without(seen.drafts, {f.id})
               /\ n.restored = seen.restored /\ n.swept = seen.swept
            \/ /\ f.type = "response" /\ n.drafts = Without(seen.drafts, {f.id})
               /\ n.restored = GiveBack(seen.restored, seen.drafts, f.id)
               /\ n.swept = seen.swept
        BY <1>2, <3>1, <3>2, RpcFrameFacts
      <4>2. QED
        BY <2>1, <3>1, <4>1
    <3>5. h.drafts \in Seq(Prompts) /\ Range(h.drafts) \subseteq Prompts
      BY DEF Handlings, Range
    <3>6. Keeps(h, n)
      <4>1. CASE n.drafts = h.drafts /\ n.restored = h.restored /\ n.swept = h.swept
        BY <3>3, <4>1, KeepsSame
      <4>2. CASE /\ f.type = "agent_end"
                 /\ n.drafts = AgentEnded(h.drafts) /\ n.restored = h.restored
                 /\ n.swept = h.swept \cup (Range(h.drafts) \ (Range(n.drafts) \cup f.of))
        <5>1. /\ Range(n.drafts) \subseteq Range(h.drafts)
              /\ OneDraft(h.drafts) => OneDraft(n.drafts)
          BY <3>5, <4>2, AgentEndedFacts
        <5>2. f.of \cap Prompts \subseteq finished
          BY <1>2, <4>2 DEF ToldTruly
        <5>3. Range(h.drafts) \ Range(n.drafts) \subseteq finished \cup n.swept
          BY <3>5, <4>2, <5>2
        <5>4. QED
          BY <3>3, <4>2, <5>1, <5>3, KeepsLess
      <4>3. CASE /\ f.type = "prompt_result"
                 /\ n.drafts = Without(h.drafts, {f.id})
                 /\ n.restored = h.restored /\ n.swept = h.swept
        <5>1. /\ Range(n.drafts) = Range(h.drafts) \ {f.id}
              /\ OneDraft(h.drafts) => OneDraft(n.drafts)
          BY <3>5, <4>3, WithoutFacts
        <5>2. f.id \in finished
          BY <1>2, <4>3 DEF ToldTruly
        <5>3. QED
          BY <3>3, <4>3, <5>1, <5>2, KeepsLess
      <4>4. CASE /\ f.type = "response" /\ n.drafts = Without(h.drafts, {f.id})
                 /\ n.restored = GiveBack(h.restored, h.drafts, f.id) /\ n.swept = h.swept
        <5>1. f.id \in Prompts
          BY <1>2, <4>4, FrameKinds
        <5>2. QED
          BY <3>3, <4>4, <5>1, KeepsGivenBack
      <4>5. QED
        BY <3>4, <4>1, <4>2, <4>3, <4>4
    <3>7. /\ n.settled = IF f.type = "response" /\ f.id \in h.pending THEN Append(h.settled, f)
                         ELSE h.settled
          /\ n.pending = h.pending \ (IF f.type = "response" THEN {f.id} ELSE {})
          /\ n.armed => h.armed
          /\ Observed(f) => ~n.armed
      BY <2>1, <3>3
    <3>8. QED
      BY <1>2, <2>3, <3>3, <3>6, <3>7, Settling DEF HandledBy
  <2>6. QED
    BY <2>4, <2>5
<1>3. QED
  BY <1>1, <1>2

\* What a prompt does once its answer is in: a refused one comes back.
LEMMA GoOnFacts ==
  ASSUME NEW h \in Handlings, NEW a \in PromptAnswers
  PROVE  /\ GoOn(h, a) \in Handlings /\ Keeps(h, GoOn(h, a))
         /\ GoOn(h, a).pending = h.pending /\ GoOn(h, a).up = h.up
         /\ GoOn(h, a).armed => h.armed
         /\ ~a.ok /\ a.id \in watched => ~GoOn(h, a).armed
<1> DEFINE n == GoOn(h, a)
           cleared == IF a.ok THEN ~a.invoked ELSE a.id \in watched
           back == IF a.ok THEN h.restored ELSE GiveBack(h.restored, h.drafts, a.id)
           left == IF a.ok THEN h.drafts ELSE Without(h.drafts, {a.id})
           off == h.armed /\ ~cleared
<1> SUFFICES /\ n \in Handlings /\ Keeps(h, n) /\ n.pending = h.pending /\ n.up = h.up
             /\ n.armed => h.armed
             /\ ~a.ok /\ a.id \in watched => ~n.armed
  OBVIOUS
<1>1. /\ h.drafts \in Seq(Prompts) /\ h.restored \in [Prompts -> Nat]
      /\ a.id \in Prompts
  BY DEF Handlings, PromptAnswers, Answer
<1>2. n = [h EXCEPT !.armed = off, !.restored = back, !.drafts = left]
  BY DEF GoOn
<1>3. /\ off \in BOOLEAN /\ (off => h.armed) /\ (~a.ok /\ a.id \in watched => ~off)
  OBVIOUS
<1>4. back \in [Prompts -> Nat] /\ left \in Seq(Prompts)
  BY <1>1, GiveBackTypes, WithoutFacts
<1> HIDE DEF n, off, back, left
<1>5. /\ n \in Handlings /\ n.pending = h.pending /\ n.up = h.up /\ n.swept = h.swept
      /\ n.armed = off /\ n.restored = back /\ n.drafts = left
  BY <1>2, <1>3, <1>4 DEF Handlings
<1>6. Keeps(h, n)
  <2>1. CASE a.ok
    BY <1>5, <2>1, KeepsSame DEF back, left
  <2>2. CASE ~a.ok
    BY <1>1, <1>5, <2>2, KeepsGivenBack DEF back, left
  <2>3. QED
    BY <2>1, <2>2
<1>7. QED
  BY <1>3, <1>5, <1>6

\* What awaited the answers of a piece, answer by answer.
LEMMA GoOnTrace ==
  ASSUME NEW h \in Handlings, NEW xs \in Seq(PromptAnswers)
  PROVE  \E g : /\ g[0] = h
                /\ \A i \in 0..Len(xs) : g[i] \in Handlings
                /\ \A i \in 1..Len(xs) : g[i] = GoOn(g[i - 1], xs[i])
                /\ FoldLeft(GoOn, h, xs) = g[Len(xs)]
<1> DEFINE n == Len(xs)
           step == [i \in 1..n |-> [r \in Handlings |-> GoOn(r, xs[i])]]
           Body(it) == [s \in SUBSET DOMAIN xs |->
                          IF s = {} THEN h ELSE GoOn(it[s \ {Max(s)}], xs[Max(s)])]
           iter == CHOOSE it : it = Body(it)
<1>1. n \in Nat /\ DOMAIN xs = 1..n /\ \A i \in 1..n : xs[i] \in PromptAnswers
  <2>1. n \in Nat /\ DOMAIN xs = 1..n
    OBVIOUS
  <2>2. \A i \in 1..n : xs[i] \in PromptAnswers
    OBVIOUS
  <2>3. QED
    BY <2>1, <2>2
<1>2. FoldLeft(GoOn, h, xs) = iter[DOMAIN xs]
  BY DEF FoldLeft, MapThenFoldSet
<1>3. iter = Body(iter)
  <2>1. step \in [1..n -> [Handlings -> Handlings]]
    <3>1. \A i \in 1..n, r \in Handlings : GoOn(r, xs[i]) \in Handlings
      BY <1>1, GoOnFacts
    <3>2. QED
      BY <3>1
  <2>2. PICK it \in [SUBSET (1..n) -> Handlings] : Iterates(it, n, h, step)
    <3> HIDE DEF step, n
    <3>1. QED
      BY <1>1, <2>1, IterExists
  <2>3. it = Body(it)
    <3>1. ASSUME NEW s \in SUBSET (1..n), s # {}
          PROVE  Max(s) \in 1..n
      BY <1>1, <3>1, MaxIn
    <3>2. \A s \in SUBSET (1..n) : s # {} =>
            step[Max(s)][it[s \ {Max(s)}]] = GoOn(it[s \ {Max(s)}], xs[Max(s)])
      <4>1. \A s \in SUBSET (1..n) : it[s \ {Max(s)}] \in Handlings
        BY <2>2
      <4>2. QED
        BY <3>1, <4>1
    <3> HIDE DEF step
    <3>3. QED
      BY <1>1, <2>2, <3>2 DEF Iterates
  <2> HIDE DEF Body
  <2>4. QED
    BY <2>3, Zenon
<1>4. /\ iter[{}] = h
      /\ \A i \in 1..n : iter[1..i] = GoOn(iter[1..(i - 1)], xs[i])
  <2> HIDE DEF iter
  <2>1. \A s \in SUBSET (1..n) :
          iter[s] = IF s = {} THEN h ELSE GoOn(iter[s \ {Max(s)}], xs[Max(s)])
    BY <1>1, <1>3
  <2> HIDE DEF n
  <2>2. QED
    BY <1>1, <2>1, Initial
<1> DEFINE g == [i \in 0..n |-> iter[1..i]]
<1>5. QED
  <2> HIDE DEF iter, n
  <2>1. g[0] = h
    BY <1>1, <1>4
  <2>2. \A i \in 1..n : g[i] = GoOn(g[i - 1], xs[i])
    <3>1. \A i \in 1..n : i \in 0..n /\ i - 1 \in 0..n
      BY <1>1
    <3>2. \A i \in 1..n : g[i] = iter[1..i] /\ g[i - 1] = iter[1..(i - 1)]
      BY <3>1
    <3> HIDE DEF g
    <3>3. QED
      BY <1>4, <3>2
  <2>3. FoldLeft(GoOn, h, xs) = g[n]
    BY <1>1, <1>2
  <2> HIDE DEF g
  <2>4. \A i \in 0..n : g[i] \in Handlings
    <3> DEFINE S == [i \in 0..n |-> Handlings]
    <3>1. g[0] \in S[0]
      BY <1>1, <2>1
    <3>2. \A i \in 1..n : g[i - 1] \in S[i - 1] => g[i] \in S[i]
      <4>1. ASSUME NEW i \in 1..n, g[i - 1] \in Handlings PROVE g[i] \in Handlings
        <5>1. g[i] = GoOn(g[i - 1], xs[i]) /\ xs[i] \in PromptAnswers
          BY <1>1, <2>2
        <5> HIDE DEF g
        <5>2. QED
          BY <4>1, <5>1, GoOnFacts
      <4>2. QED
        BY <1>1, <4>1
    <3> HIDE DEF S
    <3>3. \A i \in 0..n : g[i] \in S[i]
      BY <1>1, <3>1, <3>2, Along
    <3>4. QED
      BY <3>3 DEF S
  <2>5. QED
    BY <2>1, <2>2, <2>3, <2>4 DEF n

\* The handling of a piece frame by frame.
LEMMA HandledTrace ==
  ASSUME NEW h \in Handlings, NEW fs \in Seq(PromptFrames),
         \A i \in DOMAIN fs : fs[i] # Negotiated => ToldTruly(fs[i])
  PROVE  \E g : /\ g[0] = h
                /\ \A i \in 0..Len(fs) : g[i] \in Handlings
                /\ \A i \in 1..Len(fs) : g[i] = HandleFrame(g[i - 1], fs[i])
                /\ FoldLeft(HandleFrame, h, fs) = g[Len(fs)]
<1> DEFINE n == Len(fs)
           step == [i \in 1..n |-> [r \in Handlings |-> HandleFrame(r, fs[i])]]
           Body(it) == [s \in SUBSET DOMAIN fs |->
                          IF s = {} THEN h ELSE HandleFrame(it[s \ {Max(s)}], fs[Max(s)])]
           iter == CHOOSE it : it = Body(it)
<1>1. /\ n \in Nat /\ DOMAIN fs = 1..n
      /\ \A i \in 1..n : fs[i] \in PromptFrames /\ (fs[i] # Negotiated => ToldTruly(fs[i]))
  OBVIOUS
<1>2. FoldLeft(HandleFrame, h, fs) = iter[DOMAIN fs]
  BY DEF FoldLeft, MapThenFoldSet
<1>3. iter = Body(iter)
  <2>1. step \in [1..n -> [Handlings -> Handlings]]
    <3>1. \A i \in 1..n, r \in Handlings : HandleFrame(r, fs[i]) \in Handlings
      BY <1>1, HandleFrameFacts DEF HandledBy
    <3>2. QED
      BY <3>1
  <2>2. PICK it \in [SUBSET (1..n) -> Handlings] : Iterates(it, n, h, step)
    <3> HIDE DEF step, n
    <3>1. QED
      BY <1>1, <2>1, IterExists
  <2>3. it = Body(it)
    <3>1. ASSUME NEW s \in SUBSET (1..n), s # {}
          PROVE  Max(s) \in 1..n
      BY <1>1, <3>1, MaxIn
    <3>2. \A s \in SUBSET (1..n) : s # {} =>
            step[Max(s)][it[s \ {Max(s)}]] = HandleFrame(it[s \ {Max(s)}], fs[Max(s)])
      <4>1. \A s \in SUBSET (1..n) : it[s \ {Max(s)}] \in Handlings
        BY <2>2
      <4>2. QED
        BY <3>1, <4>1
    <3> HIDE DEF step
    <3>3. QED
      BY <1>1, <2>2, <3>2 DEF Iterates
  <2> HIDE DEF Body
  <2>4. QED
    BY <2>3, Zenon
<1>4. /\ iter[{}] = h
      /\ \A i \in 1..n : iter[1..i] = HandleFrame(iter[1..(i - 1)], fs[i])
  <2> HIDE DEF iter
  <2>1. \A s \in SUBSET (1..n) :
          iter[s] = IF s = {} THEN h ELSE HandleFrame(iter[s \ {Max(s)}], fs[Max(s)])
    BY <1>1, <1>3
  <2> HIDE DEF n
  <2>2. QED
    BY <1>1, <2>1, Initial
<1> DEFINE g == [i \in 0..n |-> iter[1..i]]
<1>5. QED
  <2> HIDE DEF iter, n
  <2>1. g[0] = h
    BY <1>1, <1>4
  <2>2. \A i \in 1..n : g[i] = HandleFrame(g[i - 1], fs[i])
    <3>1. \A i \in 1..n : i \in 0..n /\ i - 1 \in 0..n
      BY <1>1
    <3>2. \A i \in 1..n : g[i] = iter[1..i] /\ g[i - 1] = iter[1..(i - 1)]
      BY <3>1
    <3> HIDE DEF g
    <3>3. QED
      BY <1>4, <3>2
  <2>3. FoldLeft(HandleFrame, h, fs) = g[n]
    BY <1>1, <1>2
  <2> HIDE DEF g
  <2>4. \A i \in 0..n : g[i] \in Handlings
    <3> DEFINE S == [i \in 0..n |-> Handlings]
    <3>1. g[0] \in S[0]
      BY <1>1, <2>1
    <3>2. \A i \in 1..n : g[i - 1] \in S[i - 1] => g[i] \in S[i]
      <4>1. ASSUME NEW i \in 1..n, g[i - 1] \in Handlings PROVE g[i] \in Handlings
        BY <1>1, <2>2, <4>1, HandleFrameFacts DEF HandledBy
      <4>2. QED
        BY <1>1, <4>1
    <3> HIDE DEF S
    <3>3. \A i \in 0..n : g[i] \in S[i]
      BY <1>1, <3>1, <3>2, Along
    <3>4. QED
      BY <3>3 DEF S
  <2>5. QED
    BY <2>1, <2>2, <2>3, <2>4 DEF n

-----------------------------------------------------------------------------
\* A piece of output.

\* What is known after the first i frames of a piece.
SoFar(h, fs, i, r) ==
  /\ r \in Handlings /\ Keeps(h, r)
  /\ h.up => r.up
  /\ r.armed => h.armed
  /\ h.up => \A j \in 1..i : fs[j] # Negotiated /\ Observed(fs[j]) => ~r.armed
  /\ r.pending \subseteq h.pending
  /\ \A p \in r.pending, j \in 1..i : ~Answers(fs[j], p)
  /\ \A p \in h.pending : p \in r.pending \/ \E s \in Range(r.settled) : Answers(s, p)
  /\ \A s \in Range(r.settled) :
       /\ s \in PromptAnswers /\ s \in {fs[j] : j \in 1..i} /\ Answers(s, s.id)
       /\ s.id \in h.pending /\ s.id \notin r.pending

\* What a sequence holds when an element is appended.
LEMMA RangeAppend ==
  ASSUME NEW S, NEW k \in Seq(S), NEW e \in S
  PROVE  Range(Append(k, e)) = Range(k) \cup {e}
<1> DEFINE new == Append(k, e)
<1>1. /\ new \in Seq(S) /\ Len(k) \in Nat /\ DOMAIN k = 1..Len(k)
      /\ DOMAIN new = 1..(Len(k) + 1) /\ new[Len(k) + 1] = e
      /\ \A a \in 1..Len(k) : new[a] = k[a]
  OBVIOUS
<1>2. \A a \in 1..(Len(k) + 1) : a = Len(k) + 1 \/ a \in 1..Len(k)
  BY <1>1
<1>3. Len(k) + 1 \in 1..(Len(k) + 1) /\ \A a \in 1..Len(k) : a \in 1..(Len(k) + 1)
  BY <1>1
<1> HIDE DEF new
<1>4. Range(new) = Range(k) \cup {e}
  BY <1>1, <1>2, <1>3 DEF Range
<1>5. QED
  BY <1>4 DEF new

\* One more frame of a piece of output.
LEMMA SoFarStep ==
  ASSUME NEW h \in Handlings, NEW fs \in Seq(PromptFrames), NEW i \in 1..Len(fs),
         NEW r \in Handlings, NEW n \in Handlings,
         SoFar(h, fs, i - 1, r), HandledBy(r, fs[i], n)
  PROVE  SoFar(h, fs, i, n)
<1> DEFINE f == fs[i]
<1>1. f \in PromptFrames /\ i \in Nat
  OBVIOUS
<1>2. \A j \in 1..i : j = i \/ j \in 1..(i - 1)
  BY <1>1
<1>3. i \in 1..i /\ \A j \in 1..(i - 1) : j \in 1..i
  BY <1>1
<1>4. Keeps(h, n)
  BY KeepsAlso DEF SoFar, HandledBy
<1>5. /\ h.up => n.up
      /\ n.armed => h.armed
      /\ n.pending \subseteq h.pending
  BY DEF SoFar, HandledBy, Handlings
<1>6. ASSUME h.up, NEW j \in 1..i, fs[j] # Negotiated, Observed(fs[j]) PROVE ~n.armed
  <2>1. CASE j = i
    BY <1>6, <2>1 DEF SoFar, HandledBy
  <2>2. CASE j \in 1..(i - 1)
    BY <1>6, <2>2 DEF SoFar, HandledBy
  <2>3. QED
    BY <1>2, <2>1, <2>2
<1>7. /\ n.pending \subseteq r.pending
      /\ \A p \in Prompts : p \in n.pending => ~Answers(f, p)
      /\ \A p \in Prompts : p \in r.pending /\ ~Answers(f, p) => p \in n.pending
      /\ r.pending \subseteq Prompts /\ h.pending \subseteq Prompts
  BY DEF HandledBy, Handlings
<1>8. /\ \A p \in h.pending : p \in n.pending \/ \E s \in Range(n.settled) : Answers(s, p)
      /\ \A s \in Range(n.settled) :
           /\ s \in PromptAnswers /\ s \in {fs[j] : j \in 1..i} /\ Answers(s, s.id)
           /\ s.id \in h.pending /\ s.id \notin n.pending
  <2>1. \A s \in Range(r.settled) :
          /\ s \in PromptAnswers /\ s \in {fs[j] : j \in 1..i} /\ Answers(s, s.id)
          /\ s.id \in h.pending /\ s.id \notin n.pending
    BY <1>3, <1>7 DEF SoFar
  <2>2. CASE n.settled = r.settled /\ \A p \in r.pending : ~Answers(f, p)
    BY <1>7, <2>1, <2>2 DEF SoFar
  <2>3. CASE /\ n.settled = Append(r.settled, f) /\ f \in PromptAnswers
             /\ f.id \in r.pending /\ Answers(f, f.id)
    <3>1. Range(n.settled) = Range(r.settled) \cup {f}
      <4>1. r.settled \in Seq(PromptAnswers)
        BY DEF Handlings
      <4>2. QED
        BY <2>3, <4>1, RangeAppend
    <3>2. /\ f \in PromptAnswers /\ f \in {fs[j] : j \in 1..i} /\ Answers(f, f.id)
          /\ f.id \in h.pending /\ f.id \notin n.pending
      BY <1>3, <1>7, <2>3 DEF SoFar
    <3>3. \A p \in h.pending : p \in n.pending \/ \E s \in Range(n.settled) : Answers(s, p)
      BY <1>7, <2>3, <3>1 DEF SoFar
    <3>4. QED
      BY <2>1, <3>1, <3>2, <3>3
  <2>4. QED
    BY <2>2, <2>3 DEF HandledBy
<1>9. \A p \in n.pending, j \in 1..i : ~Answers(fs[j], p)
  <2>1. \A p \in n.pending : p \in r.pending /\ p \in Prompts /\ ~Answers(fs[i], p)
    BY <1>7
  <2>2. \A p \in r.pending, j \in 1..(i - 1) : ~Answers(fs[j], p)
    BY DEF SoFar
  <2>3. QED
    BY <1>2, <2>1, <2>2
<1> HIDE DEF f
<1>10. QED
  BY <1>4, <1>5, <1>6, <1>8, <1>9 DEF SoFar

\* A piece of output is handled: all its frames.
LEMMA PieceHandled ==
  ASSUME NEW h \in Handlings, h.settled = <<>>, NEW fs \in Seq(PromptFrames),
         \A i \in DOMAIN fs : fs[i] # Negotiated => ToldTruly(fs[i])
  PROVE  SoFar(h, fs, Len(fs), FoldLeft(HandleFrame, h, fs))
<1> DEFINE n == Len(fs)
<1>1. PICK g : /\ g[0] = h
               /\ \A i \in 0..n : g[i] \in Handlings
               /\ \A i \in 1..n : g[i] = HandleFrame(g[i - 1], fs[i])
               /\ FoldLeft(HandleFrame, h, fs) = g[n]
  BY HandledTrace
<1> DEFINE S == [i \in 0..n |-> {r \in Handlings : SoFar(h, fs, i, r)}]
<1>2. n \in Nat /\ DOMAIN fs = 1..n /\ \A i \in 1..n : i \in 0..n /\ i - 1 \in 0..n
  OBVIOUS
<1>3. g[0] \in S[0]
  <2>1. Keeps(h, h)
    BY KeepsSame
  <2>2. 1..0 = {} /\ Range(h.settled) = {}
    BY DEF Range
  <2>3. SoFar(h, fs, 0, h)
    BY <2>1, <2>2 DEF SoFar
  <2>4. QED
    BY <1>1, <1>2, <2>3
<1>4. ASSUME NEW i \in 1..n, g[i - 1] \in S[i - 1] PROVE g[i] \in S[i]
  <2>1. g[i - 1] \in Handlings /\ SoFar(h, fs, i - 1, g[i - 1]) /\ fs[i] \in PromptFrames
    BY <1>2, <1>4
  <2>2. HandledBy(g[i - 1], fs[i], g[i]) /\ g[i] \in Handlings
    BY <1>1, <1>2, <2>1, HandleFrameFacts
  <2>3. SoFar(h, fs, i, g[i])
    BY <2>1, <2>2, SoFarStep
  <2>4. QED
    BY <1>2, <2>2, <2>3
<1>5. g[n] \in S[n]
  <2> HIDE DEF S, n
  <2>1. \A i \in 0..n : g[i] \in S[i]
    BY <1>2, <1>3, <1>4, Along
  <2>2. QED
    BY <1>2, <2>1
<1>6. QED
  BY <1>1, <1>2, <1>5

\* And then what awaited its answers.
LEMMA AnswersStood ==
  ASSUME NEW h \in Handlings, NEW xs \in Seq(PromptAnswers)
  PROVE  LET m == FoldLeft(GoOn, h, xs) IN
         /\ m \in Handlings /\ Keeps(h, m) /\ m.pending = h.pending /\ m.up = h.up
         /\ m.armed => h.armed
         /\ \A s \in Range(xs) : ~s.ok /\ s.id \in watched => ~m.armed
<1> DEFINE n == Len(xs)
<1>1. PICK g : /\ g[0] = h
               /\ \A i \in 0..n : g[i] \in Handlings
               /\ \A i \in 1..n : g[i] = GoOn(g[i - 1], xs[i])
               /\ FoldLeft(GoOn, h, xs) = g[n]
  BY GoOnTrace
<1> DEFINE Fits(i, m) ==
             /\ Keeps(h, m) /\ m.pending = h.pending /\ m.up = h.up
             /\ m.armed => h.armed
             /\ \A j \in 1..i : ~xs[j].ok /\ xs[j].id \in watched => ~m.armed
           S == [i \in 0..n |-> {r \in Handlings : Fits(i, r)}]
<1>2. n \in Nat /\ DOMAIN xs = 1..n /\ \A i \in 1..n : i \in 0..n /\ i - 1 \in 0..n
  OBVIOUS
<1>3. g[0] \in S[0]
  <2>1. Keeps(h, h)
    BY KeepsSame
  <2>2. 1..0 = {}
    OBVIOUS
  <2>3. Fits(0, h)
    BY <2>1, <2>2
  <2>4. QED
    BY <1>1, <1>2, <2>3
<1>4. ASSUME NEW i \in 1..n, g[i - 1] \in S[i - 1] PROVE g[i] \in S[i]
  <2> DEFINE r == g[i - 1]
             m == g[i]
             x == xs[i]
  <2>1. r \in Handlings /\ Fits(i - 1, r) /\ x \in PromptAnswers
    BY <1>2, <1>4
  <2>2. m = GoOn(r, x)
    BY <1>1
  <2> HIDE DEF r, m
  <2>3. /\ m \in Handlings /\ Keeps(r, m) /\ m.pending = r.pending /\ m.up = r.up
        /\ m.armed => r.armed
        /\ ~x.ok /\ x.id \in watched => ~m.armed
    BY <2>1, <2>2, GoOnFacts
  <2>4. Keeps(h, m)
    BY <2>1, <2>3, KeepsAlso
  <2>5. \A j \in 1..i : j = i \/ j \in 1..(i - 1)
    BY <1>2
  <2>6. Fits(i, m)
    BY <2>1, <2>3, <2>4, <2>5
  <2> HIDE DEF Fits
  <2>7. QED
    BY <1>2, <2>3, <2>6 DEF m
<1>5. g[n] \in S[n]
  <2> HIDE DEF S, n
  <2>1. \A i \in 0..n : g[i] \in S[i]
    BY <1>2, <1>3, <1>4, Along
  <2>2. QED
    BY <1>2, <2>1
<1>6. g[n] \in Handlings /\ Fits(n, g[n])
  BY <1>2, <1>5
<1>7. QED
  BY <1>1, <1>2, <1>6 DEF Range

-----------------------------------------------------------------------------
\* Reading lines.

\* The decoders there are hold one assembly at most.
OpenDecoders == {d \in Decoders : Len(d.assembly) <= 1}

\* The kinds of lines.
LEMMA LineKinds ==
  ASSUME NEW line \in Lines
  PROVE  \/ line.kind = "garbled"
         \/ line.kind = "whole" /\ line.frame \in Frames
         \/ line.kind = "chunk" /\ line \in ChunkLines /\ line.frame \in Frames
BY DEF Lines, Whole, Garbled, ChunkLines

\* A decoder in the middle of a frame, or of none.
Opening(d, open) == [d EXCEPT !.assembly = open]
\* The decoder with another frame under way.
LEMMA WithAssembly ==
  ASSUME NEW d \in OpenDecoders, NEW open \in Seq(Assemblies), Len(open) <= 1
  PROVE  /\ Opening(d, open) \in OpenDecoders
         /\ Opening(d, open).v2 = d.v2 /\ Opening(d, open).negotiating = d.negotiating
<1> DEFINE e == Opening(d, open)
<1>1. e \in Decoders /\ e.v2 = d.v2 /\ e.negotiating = d.negotiating
  BY DEF OpenDecoders, Decoders, Opening
<1>2. e.assembly = open
  BY DEF OpenDecoders, Decoders, Opening
<1> HIDE DEF e
<1>3. e \in OpenDecoders
  BY <1>1, <1>2 DEF OpenDecoders
<1>4. QED
  BY <1>1, <1>3 DEF e

\* A chunk opens an assembly, goes on with the open one, or ends it.
LEMMA AcceptFacts ==
  ASSUME NEW d \in OpenDecoders, NEW c \in ChunkLines
  PROVE  LET r == AcceptChunk(d, c) IN
         /\ r.decoder \in OpenDecoders
         /\ r.decoder.v2 = d.v2 /\ r.decoder.negotiating = d.negotiating
         /\ r.threw \in BOOLEAN /\ (r.frames = <<>> \/ r.frames = <<c.frame>>)
<1> DEFINE a == Assembly(d, c)
           received == a.received + c.size
           grown == [a EXCEPT !.next = @ + 1, !.received = received]
           open == [d EXCEPT !.assembly = <<grown>>]
           closed == Closed(open)
           r == AcceptChunk(d, c)
<1>1. /\ d.assembly \in Seq(Assemblies) /\ Len(d.assembly) \in Nat /\ Len(d.assembly) <= 1
      /\ d.negotiating \in BOOLEAN /\ d.v2 \in BOOLEAN
  BY DEF OpenDecoders, Decoders
<1>2. /\ c.id \in ChunkIds /\ c.index \in Nat /\ c.count \in Nat /\ c.bytes \in Nat
      /\ c.size \in Nat /\ MaxChunks \in Nat
  BY DecoderAssumption DEF ChunkLines
<1>3. CASE ~WellFormed(c) \/ (d.assembly = <<>> /\ c.index # 0)
  <2>1. r = Threw(d)
    BY <1>3 DEF AcceptChunk
  <2>2. QED
    BY <2>1 DEF Threw, Result
<1>4. CASE WellFormed(c) /\ ~(d.assembly = <<>> /\ c.index # 0)
  <2>1. /\ c.count \in 2..MaxChunks /\ c.bytes \in MinChunked..MaxReassembled
        /\ c.index < c.count
    BY <1>2, <1>4, DecoderAssumption DEF WellFormed
  <2>2. a \in Assemblies
    <3>1. CASE d.assembly # <<>>
      BY <1>1, <3>1 DEF Assembly
    <3>2. CASE d.assembly = <<>>
      BY <1>2, <2>1, <3>2 DEF Assembly, Assemblies
    <3>3. QED
      BY <3>1, <3>2
  <2> HIDE DEF a
  <2> DEFINE one == <<a>>
  <2>3. one \in Seq(Assemblies) /\ Len(one) <= 1
    BY <2>2
  <2> HIDE DEF one
  <2>4. /\ Opening(d, one) \in OpenDecoders
        /\ Opening(d, one).v2 = d.v2 /\ Opening(d, one).negotiating = d.negotiating
    BY <2>3, WithAssembly
  <2>5. CASE ~Continues(a, c) \/ c.size > MaxChunkBytes
    <3>1. r = Threw(Opening(d, one))
      BY <1>4, <2>5 DEF AcceptChunk, a, one, Opening
    <3>2. QED
      BY <2>4, <3>1 DEF Threw, Result
  <2>6. CASE Continues(a, c) /\ ~(c.size > MaxChunkBytes)
    <3>1. grown \in Assemblies
      <4>1. a.next \in Nat /\ a.next + 1 \in 0..MaxChunks /\ a.received + c.size \in Nat
        BY <1>2, <2>1, <2>2, <2>6 DEF Continues, Assemblies
      <4>2. QED
        BY <2>2, <4>1 DEF Assemblies
    <3> HIDE DEF grown, received
    <3> DEFINE none == <<>>
               more == <<grown>>
    <3>2. none \in Seq(Assemblies) /\ Len(none) <= 1
      OBVIOUS
    <3>3. more \in Seq(Assemblies) /\ Len(more) <= 1
      BY <3>1
    <3> HIDE DEF none, more
    <3>4. /\ Opening(d, more) \in OpenDecoders /\ Opening(d, none) \in OpenDecoders
          /\ Opening(d, more).v2 = d.v2 /\ Opening(d, none).v2 = d.v2
          /\ Opening(d, more).negotiating = d.negotiating
          /\ Opening(d, none).negotiating = d.negotiating
      BY <3>2, <3>3, WithAssembly
    <3>5. open = Opening(d, more) /\ closed = Opening(d, none)
      BY <1>1 DEF Closed, Opening, none, more, OpenDecoders, Decoders
    <3>6. r = IF received > a.bytes THEN Threw(open)
              ELSE IF grown.next < a.count THEN Result(open, <<>>, FALSE)
              ELSE IF received # a.bytes THEN Threw(closed)
              ELSE Result(closed, <<c.frame>>, FALSE)
      BY <1>4, <2>6 DEF AcceptChunk, a, grown, received
    <3> HIDE DEF open, closed, r
    <3>7. QED
      BY <3>4, <3>5, <3>6 DEF Threw, Result, r
  <2>7. QED
    BY <2>5, <2>6
<1>5. QED
  BY <1>3, <1>4

\* What a line gives is its frame, and a whole line that does not throw gives it.
LEMMA DecodeFacts ==
  ASSUME NEW d \in OpenDecoders, NEW line \in Lines
  PROVE  LET r == DecodeLine(d, line) IN
         /\ r.decoder \in OpenDecoders /\ r.threw \in BOOLEAN
         /\ \/ r.frames = <<>> /\ (line.kind = "whole" => r.threw)
            \/ r.frames = <<line.frame>> /\ line.kind # "garbled" /\ line.frame \in Frames
<1> DEFINE e == IF Negotiates(d, line) THEN EnableV2(d) ELSE d
           r == DecodeLine(d, line)
<1>1. e \in OpenDecoders
  BY DEF EnableV2, OpenDecoders, Decoders
<1>2. r = CASE line.kind = "garbled" -> Threw(e)
            [] line.kind = "chunk" -> IF e.v2 THEN AcceptChunk(e, line) ELSE Threw(e)
            [] line.kind = "whole" ->
                 IF e.assembly # <<>> THEN Threw(e) ELSE Result(e, <<line.frame>>, FALSE)
  BY DEF DecodeLine
<1> HIDE DEF e, r
<1>3. CASE line.kind = "garbled"
  <2>1. r = Threw(e)
    BY <1>2, <1>3
  <2>2. QED
    BY <1>1, <2>1 DEF Threw, Result, r
<1>4. CASE line.kind = "whole" /\ line.frame \in Frames
  <2>1. r = IF e.assembly # <<>> THEN Threw(e) ELSE Result(e, <<line.frame>>, FALSE)
    BY <1>2, <1>4
  <2>2. QED
    BY <1>1, <1>4, <2>1 DEF Threw, Result, r
<1>5. CASE line.kind = "chunk" /\ line \in ChunkLines /\ line.frame \in Frames
  <2>1. r = IF e.v2 THEN AcceptChunk(e, line) ELSE Threw(e)
    BY <1>2, <1>5
  <2>2. CASE e.v2
    BY <1>1, <1>5, <2>1, <2>2, AcceptFacts DEF r
  <2>3. CASE ~e.v2
    BY <1>1, <1>5, <2>1, <2>3 DEF Threw, Result, r
  <2>4. QED
    BY <2>2, <2>3
<1>6. QED
  BY <1>3, <1>4, <1>5, LineKinds

\* A push under way.
Pushes == [decoder : OpenDecoders, frames : Seq(Frames), threw : BOOLEAN, read : Nat]

\* What reading one line yields: a decoder, its frame or none, and whether it threw.
LEMMA PushLineFacts ==
  ASSUME NEW r \in Pushes, NEW line \in Lines
  PROVE  LET n == PushLine(r, line) IN
         /\ n \in Pushes
         /\ r.threw => n = r
         /\ ~r.threw =>
              /\ n.read = r.read + 1
              /\ n.threw = DecodeLine(r.decoder, line).threw
              /\ \/ n.frames = r.frames /\ (line.kind = "whole" => n.threw)
                 \/ /\ n.frames = Append(r.frames, line.frame)
                    /\ line.kind # "garbled" /\ line.frame \in Frames
<1> DEFINE n == PushLine(r, line)
<1>1. CASE r.threw
  BY <1>1 DEF PushLine
<1>2. CASE ~r.threw
  <2> DEFINE next == DecodeLine(r.decoder, line)
  <2>1. n = [decoder |-> next.decoder, frames |-> r.frames \o next.frames,
             threw |-> next.threw, read |-> r.read + 1]
    BY <1>2 DEF PushLine
  <2>2. r.decoder \in OpenDecoders /\ r.frames \in Seq(Frames) /\ r.read \in Nat
    BY DEF Pushes
  <2>3. /\ next.decoder \in OpenDecoders /\ next.threw \in BOOLEAN
        /\ \/ next.frames = <<>> /\ (line.kind = "whole" => next.threw)
           \/ next.frames = <<line.frame>> /\ line.kind # "garbled" /\ line.frame \in Frames
    BY <2>2, DecodeFacts
  <2> HIDE DEF n, next
  <2>4. CASE next.frames = <<>> /\ (line.kind = "whole" => next.threw)
    <3>1. r.frames \o next.frames = r.frames
      BY <2>2, <2>4
    <3>2. QED
      BY <1>2, <2>1, <2>2, <2>3, <2>4, <3>1 DEF Pushes, n, next
  <2>5. CASE next.frames = <<line.frame>> /\ line.kind # "garbled" /\ line.frame \in Frames
    <3>1. /\ r.frames \o next.frames = Append(r.frames, line.frame)
          /\ Append(r.frames, line.frame) \in Seq(Frames)
      BY <2>2, <2>5
    <3>2. QED
      BY <1>2, <2>1, <2>2, <2>3, <2>5, <3>1 DEF Pushes, n, next
  <2>6. QED
    BY <2>3, <2>4, <2>5
<1>3. QED
  BY <1>1, <1>2 DEF Pushes

\* A push line by line.
LEMMA PushTrace ==
  ASSUME NEW d \in OpenDecoders, NEW ls \in Seq(Lines)
  PROVE  \E g : /\ g[0] = Unpushed(d)
                /\ \A i \in 0..Len(ls) : g[i] \in Pushes
                /\ \A i \in 1..Len(ls) : g[i] = PushLine(g[i - 1], ls[i])
                /\ FoldLeft(PushLine, Unpushed(d), ls) = g[Len(ls)]
<1>0. Unpushed(d) \in Pushes
  BY DEF Unpushed, Pushes
<1> DEFINE n == Len(ls)
           step == [i \in 1..n |-> [r \in Pushes |-> PushLine(r, ls[i])]]
           Body(it) == [s \in SUBSET DOMAIN ls |->
                          IF s = {} THEN Unpushed(d) ELSE PushLine(it[s \ {Max(s)}], ls[Max(s)])]
           iter == CHOOSE it : it = Body(it)
<1>1. n \in Nat /\ DOMAIN ls = 1..n /\ \A i \in 1..n : ls[i] \in Lines
  <2>1. n \in Nat /\ DOMAIN ls = 1..n
    OBVIOUS
  <2>2. \A i \in 1..n : ls[i] \in Lines
    OBVIOUS
  <2>3. QED
    BY <2>1, <2>2
<1>2. FoldLeft(PushLine, Unpushed(d), ls) = iter[DOMAIN ls]
  BY DEF FoldLeft, MapThenFoldSet
<1>3. iter = Body(iter)
  <2>1. step \in [1..n -> [Pushes -> Pushes]]
    <3>1. \A i \in 1..n, r \in Pushes : PushLine(r, ls[i]) \in Pushes
      BY <1>1, PushLineFacts
    <3>2. QED
      BY <3>1
  <2>2. PICK it \in [SUBSET (1..n) -> Pushes] : Iterates(it, n, Unpushed(d), step)
    <3> HIDE DEF step, n
    <3>1. QED
      BY <1>0, <1>1, <2>1, IterExists
  <2>3. it = Body(it)
    <3>1. ASSUME NEW s \in SUBSET (1..n), s # {}
          PROVE  Max(s) \in 1..n
      BY <1>1, <3>1, MaxIn
    <3>2. \A s \in SUBSET (1..n) : s # {} =>
            step[Max(s)][it[s \ {Max(s)}]] = PushLine(it[s \ {Max(s)}], ls[Max(s)])
      <4>1. \A s \in SUBSET (1..n) : it[s \ {Max(s)}] \in Pushes
        BY <2>2
      <4>2. QED
        BY <3>1, <4>1
    <3> HIDE DEF step
    <3>3. QED
      BY <1>1, <2>2, <3>2 DEF Iterates
  <2> HIDE DEF Body
  <2>4. QED
    BY <2>3, Zenon
<1>4. /\ iter[{}] = Unpushed(d)
      /\ \A i \in 1..n : iter[1..i] = PushLine(iter[1..(i - 1)], ls[i])
  <2> HIDE DEF iter
  <2>1. \A s \in SUBSET (1..n) :
          iter[s] = IF s = {} THEN Unpushed(d) ELSE PushLine(iter[s \ {Max(s)}], ls[Max(s)])
    BY <1>1, <1>3
  <2> HIDE DEF n
  <2>2. QED
    BY <1>1, <2>1, Initial
<1> DEFINE g == [i \in 0..n |-> iter[1..i]]
<1>5. QED
  <2> HIDE DEF iter, n
  <2>1. g[0] = Unpushed(d)
    BY <1>1, <1>4
  <2>2. \A i \in 1..n : g[i] = PushLine(g[i - 1], ls[i])
    <3>1. \A i \in 1..n : i \in 0..n /\ i - 1 \in 0..n
      BY <1>1
    <3>2. \A i \in 1..n : g[i] = iter[1..i] /\ g[i - 1] = iter[1..(i - 1)]
      BY <3>1
    <3> HIDE DEF g
    <3>3. QED
      BY <1>4, <3>2
  <2>3. FoldLeft(PushLine, Unpushed(d), ls) = g[n]
    BY <1>1, <1>2
  <2> HIDE DEF g
  <2>4. \A i \in 0..n : g[i] \in Pushes
    <3> DEFINE S == [i \in 0..n |-> Pushes]
    <3>1. g[0] \in S[0]
      BY <1>0, <1>1, <2>1
    <3>2. \A i \in 1..n : g[i - 1] \in S[i - 1] => g[i] \in S[i]
      <4>1. ASSUME NEW i \in 1..n, g[i - 1] \in Pushes PROVE g[i] \in Pushes
        BY <1>1, <2>2, <4>1, PushLineFacts
      <4>2. QED
        BY <1>1, <4>1
    <3> HIDE DEF S
    <3>3. \A i \in 0..n : g[i] \in S[i]
      BY <1>1, <3>1, <3>2, Along
    <3>4. QED
      BY <3>3 DEF S
  <2>5. QED
    BY <2>1, <2>2, <2>3, <2>4 DEF n

\* What is known after the first i lines.
ReadSoFar(ls, i, r) ==
  /\ r.read \in 0..i
  /\ ~r.threw => r.read = i
  /\ r.threw => r.read >= 1
  /\ \A f \in Range(r.frames) :
       \E j \in 1..i : ls[j].kind # "garbled" /\ ls[j].frame = f
  /\ ~r.threw => \A j \in 1..i : ls[j].kind = "whole" => ls[j].frame \in Range(r.frames)

\* One more line of a piece of output.
LEMMA ReadStep ==
  ASSUME NEW ls \in Seq(Lines), NEW i \in 1..Len(ls), NEW r \in Pushes, NEW n \in Pushes,
         n = PushLine(r, ls[i]), ReadSoFar(ls, i - 1, r)
  PROVE  ReadSoFar(ls, i, n)
<1> DEFINE line == ls[i]
<1>1. line \in Lines /\ i \in Nat /\ i - 1 \in Nat /\ i >= 1
  OBVIOUS
<1>2. r.read \in Nat /\ r.frames \in Seq(Frames) /\ r.threw \in BOOLEAN
  BY DEF Pushes
<1>3. \A j \in 1..i : j = i \/ j \in 1..(i - 1)
  BY <1>1
<1>4. i \in 1..i /\ \A j \in 1..(i - 1) : j \in 1..i
  BY <1>1
<1>5. CASE r.threw
  <2>1. n = r
    BY <1>1, <1>5, PushLineFacts
  <2>2. QED
    BY <1>1, <1>2, <1>4, <1>5, <2>1 DEF ReadSoFar
<1>6. CASE ~r.threw
  <2>1. /\ n.read = r.read + 1
        /\ \/ n.frames = r.frames /\ (line.kind = "whole" => n.threw)
           \/ n.frames = Append(r.frames, line.frame) /\ line.kind # "garbled"
              /\ line.frame \in Frames
    BY <1>1, <1>6, PushLineFacts
  <2>2. r.read = i - 1 /\ n.read = i
    BY <1>1, <1>6, <2>1 DEF ReadSoFar
  <2> HIDE DEF line
  <2>3. CASE n.frames = r.frames /\ (line.kind = "whole" => n.threw)
    BY <1>1, <1>3, <1>4, <1>6, <2>2, <2>3 DEF ReadSoFar, line
  <2>4. CASE n.frames = Append(r.frames, line.frame) /\ line.kind # "garbled"
             /\ line.frame \in Frames
    <3>1. Range(n.frames) = Range(r.frames) \cup {line.frame}
      BY <1>2, <2>4, RangeAppend
    <3>2. QED
      BY <1>1, <1>3, <1>4, <1>6, <2>2, <2>4, <3>1 DEF ReadSoFar, line
  <2>5. QED
    BY <2>1, <2>3, <2>4
<1>7. QED
  BY <1>2, <1>5, <1>6

\* A push reads lines up to the first that throws; what it gives are their frames, and
\* those of the whole ones are among them.
LEMMA PushFacts ==
  ASSUME NEW d \in OpenDecoders, NEW ls \in Seq(Lines), ls # <<>>
  PROVE  LET r == Push(d, ls) IN
         /\ r.decoder \in OpenDecoders /\ r.threw \in BOOLEAN
         /\ r.read \in 1..Len(ls) /\ (~r.threw => r.read = Len(ls))
         /\ r.frames \in Seq(WholeUnder(ls) \cup Carried(ls, "chunk"))
         /\ ~r.threw => WholeUnder(ls) \subseteq Range(r.frames)
<1> DEFINE n == Len(ls)
           last == FoldLeft(PushLine, Unpushed(d), ls)
           r == Push(d, ls)
<1>1. PICK g : /\ g[0] = Unpushed(d)
               /\ \A i \in 0..n : g[i] \in Pushes
               /\ \A i \in 1..n : g[i] = PushLine(g[i - 1], ls[i])
               /\ last = g[n]
  BY PushTrace
<1> DEFINE S == [i \in 0..n |-> {m \in Pushes : ReadSoFar(ls, i, m)}]
<1>2. n \in Nat /\ n >= 1 /\ DOMAIN ls = 1..n /\ \A i \in 1..n : i \in 0..n /\ i - 1 \in 0..n
  OBVIOUS
<1>3. g[0] \in S[0]
  <2>1. ReadSoFar(ls, 0, Unpushed(d))
    BY DEF ReadSoFar, Unpushed, Range
  <2>2. QED
    BY <1>1, <1>2, <2>1
<1>4. ASSUME NEW i \in 1..n, g[i - 1] \in S[i - 1] PROVE g[i] \in S[i]
  <2>1. g[i - 1] \in Pushes /\ ReadSoFar(ls, i - 1, g[i - 1])
    BY <1>2, <1>4
  <2>2. g[i] \in Pushes /\ g[i] = PushLine(g[i - 1], ls[i])
    BY <1>1, <1>2
  <2>3. ReadSoFar(ls, i, g[i])
    BY <2>1, <2>2, ReadStep
  <2>4. QED
    BY <1>2, <2>2, <2>3
<1>5. g[n] \in S[n]
  <2> HIDE DEF S, n
  <2>1. \A i \in 0..n : g[i] \in S[i]
    BY <1>2, <1>3, <1>4, Along
  <2>2. QED
    BY <1>2, <2>1
<1>6. last \in Pushes /\ ReadSoFar(ls, n, last)
  BY <1>1, <1>2, <1>5
<1>7. r = IF last.threw THEN [last EXCEPT !.frames = <<>>] ELSE last
  BY DEF Push
<1> HIDE DEF last, r
<1>8. /\ r.decoder = last.decoder /\ r.threw = last.threw /\ r.read = last.read
      /\ r.frames = IF last.threw THEN <<>> ELSE last.frames
  BY <1>6, <1>7 DEF Pushes
<1>9. last.frames \in Seq(WholeUnder(ls) \cup Carried(ls, "chunk"))
  <2> DEFINE F == WholeUnder(ls) \cup Carried(ls, "chunk")
  <2>1. Len(last.frames) \in Nat /\ DOMAIN last.frames = 1..Len(last.frames)
        /\ last.frames = [j \in 1..Len(last.frames) |-> last.frames[j]]
    BY <1>6 DEF Pushes
  <2>2. ASSUME NEW j \in 1..Len(last.frames) PROVE last.frames[j] \in F
    <3>1. PICK k \in 1..n : ls[k].kind # "garbled" /\ ls[k].frame = last.frames[j]
      BY <1>6, <2>1 DEF ReadSoFar, Range
    <3>2. ls[k].kind \in {"whole", "chunk"}
      <4>1. ls[k] \in Lines
        BY <1>2
      <4>2. QED
        BY <3>1, <4>1, LineKinds
    <3>3. QED
      BY <1>2, <3>1, <3>2 DEF WholeUnder, Carried
  <2> HIDE DEF F
  <2>3. last.frames \in Seq(F)
    BY <2>1, <2>2, SeqDef
  <2>4. QED
    BY <2>3 DEF F
<1>10. ~last.threw => WholeUnder(ls) \subseteq Range(last.frames)
  BY <1>2, <1>6 DEF ReadSoFar, WholeUnder, Carried
<1>11. last.read \in 1..n /\ (~last.threw => last.read = n)
  BY <1>2, <1>6 DEF ReadSoFar
<1>12. last.decoder \in OpenDecoders /\ last.threw \in BOOLEAN
  BY <1>6 DEF Pushes
<1>13. QED
  BY <1>8, <1>9, <1>10, <1>11, <1>12 DEF r, n

-----------------------------------------------------------------------------
\* The lines under way.

\* What is carried by lines put together, and by some of them.
LEMMA CarriedBoth ==
  ASSUME NEW a \in Seq(Lines), NEW b \in Seq(Lines), NEW kind
  PROVE  Carried(a \o b, kind) = Carried(a, kind) \cup Carried(b, kind)
<1> DEFINE c == a \o b
           m == Len(a)
           n == Len(b)
<1>1. /\ m \in Nat /\ n \in Nat /\ DOMAIN a = 1..m /\ DOMAIN b = 1..n
  OBVIOUS
<1>2. /\ DOMAIN c = 1..(m + n)
      /\ \A i \in 1..(m + n) : c[i] = IF i <= m THEN a[i] ELSE b[i - m]
  BY ConcatProperties, LenProperties
<1> HIDE DEF c, m, n
<1>3. \A i \in 1..m : i \in 1..(m + n) /\ c[i] = a[i]
  BY <1>1, <1>2
<1>4. \A i \in 1..n : m + i \in 1..(m + n) /\ c[m + i] = b[i]
  BY <1>1, <1>2
<1>5. \A i \in 1..(m + n) :
        \/ i \in 1..m /\ c[i] = a[i]
        \/ i - m \in 1..n /\ c[i] = b[i - m]
  BY <1>1, <1>2
<1>6. Carried(c, kind) \subseteq Carried(a, kind) \cup Carried(b, kind)
  BY <1>1, <1>2, <1>5 DEF Carried
<1>7. Carried(a, kind) \subseteq Carried(c, kind)
  BY <1>1, <1>2, <1>3 DEF Carried
<1>8. Carried(b, kind) \subseteq Carried(c, kind)
  BY <1>1, <1>2, <1>4 DEF Carried
<1>9. QED
  BY <1>6, <1>7, <1>8 DEF c

\* A prefix and the rest.
LEMMA CarriedCut ==
  ASSUME NEW a \in Seq(Lines), NEW k \in 0..Len(a), NEW kind
  PROVE  /\ SubSeq(a, 1, k) \in Seq(Lines) /\ SubSeq(a, k + 1, Len(a)) \in Seq(Lines)
         /\ Len(SubSeq(a, 1, k)) = k
         /\ Carried(a, kind) =
              Carried(SubSeq(a, 1, k), kind) \cup Carried(SubSeq(a, k + 1, Len(a)), kind)
<1> DEFINE x == SubSeq(a, 1, k)
           y == SubSeq(a, k + 1, Len(a))
<1>1. Len(a) \in Nat /\ k \in Nat /\ k <= Len(a) /\ k + 1 \in Int
  OBVIOUS
<1>2. (\A i \in 1..k : a[i] \in Lines) /\ (\A i \in (k + 1)..Len(a) : a[i] \in Lines)
  BY <1>1, ElementOfSeq
<1>3. x \in Seq(Lines) /\ Len(x) = k
  BY <1>1, <1>2, SubSeqProperties
<1>4. y \in Seq(Lines)
  BY <1>1, <1>2, SubSeqProperties
<1>5. a = x \o y
  <2>1. 1 \in 1..(Len(a) + 1) /\ k \in (1 - 1)..Len(a) /\ Len(a) \in k..Len(a)
    BY <1>1
  <2>2. x \o y = SubSeq(a, 1, Len(a))
    BY <2>1, ConcatAdjacentSubSeq
  <2>3. QED
    BY <2>2, SubSeqFull
<1> HIDE DEF x, y
<1>6. Carried(a, kind) = Carried(x, kind) \cup Carried(y, kind)
  BY <1>3, <1>4, <1>5, CarriedBoth
<1>7. QED
  BY <1>3, <1>4, <1>6 DEF x, y

\* Frames on lines of their own.
LEMMA CarriedWhole ==
  ASSUME NEW frames \in Seq(Frames)
  PROVE  LET ls == [i \in DOMAIN frames |-> Whole(frames[i])] IN
         /\ ls \in Seq(Lines)
         /\ Carried(ls, "whole") = Range(frames) /\ Carried(ls, "chunk") = {}
<1> DEFINE ls == [i \in DOMAIN frames |-> Whole(frames[i])]
           n == Len(frames)
<1>1. n \in Nat /\ DOMAIN frames = 1..n /\ \A i \in 1..n : frames[i] \in Frames
  OBVIOUS
<1>2. /\ DOMAIN ls = 1..n
      /\ \A i \in 1..n : /\ ls[i] = Whole(frames[i]) /\ ls[i] \in Lines
                         /\ ls[i].kind = "whole" /\ ls[i].frame = frames[i]
  BY <1>1 DEF Whole, Lines
<1>3. ls \in [1..n -> Lines]
  BY <1>1, <1>2
<1> HIDE DEF ls, n
<1>4. ls \in Seq(Lines)
  BY <1>1, <1>3, SeqDef
<1>5. Carried(ls, "whole") = Range(frames) /\ Carried(ls, "chunk") = {}
  BY <1>1, <1>2 DEF Carried, Range
<1>6. QED
  BY <1>4, <1>5 DEF ls

-----------------------------------------------------------------------------
\* The steps of OMP.

\* The frames of a prompt, and which of them answer a command.
LEMMA TurnFrame ==
  /\ \A f \in TurnFrames : f \in PromptFrames /\ f \in Frames /\ f # Negotiated
  /\ Negotiated \in PromptFrames /\ Negotiated \in Frames
  /\ \A p, q \in Prompts, ok, invoked \in BOOLEAN :
       /\ Answer(p, ok, invoked) \in TurnFrames
       /\ Answers(Answer(p, ok, invoked), q) => q = p
  /\ \A p, q \in Prompts : PromptResult(p) \in TurnFrames /\ ~Answers(PromptResult(p), q)
  /\ \A t \in Turns : AgentEnd(t) \in TurnFrames /\ \A q : ~Answers(AgentEnd(t), q)
  /\ AgentStart \in TurnFrames /\ Output \in TurnFrames
  /\ \A q : ~Answers(AgentStart, q) /\ ~Answers(Output, q)
<1>1. \A f \in TurnFrames : f \in PromptFrames /\ f \in Frames /\ f # Negotiated
  BY FramesAssumption DEF PromptFrames
<1>2. Negotiated \in PromptFrames /\ Negotiated \in Frames
  BY DecoderAssumption DEF PromptFrames
<1>3. /\ \A p \in Prompts, ok, invoked \in BOOLEAN : Answer(p, ok, invoked) \in TurnFrames
      /\ \A p \in Prompts : PromptResult(p) \in TurnFrames
      /\ \A t \in Turns : AgentEnd(t) \in TurnFrames
      /\ AgentStart \in TurnFrames /\ Output \in TurnFrames
  BY DEF TurnFrames
<1>4. \A p, q, ok, invoked : Answers(Answer(p, ok, invoked), q) => q = p
  BY DEF Answers, Answer
<1>5. /\ \A p, q : ~Answers(PromptResult(p), q)
      /\ \A t, q : ~Answers(AgentEnd(t), q)
      /\ \A q : ~Answers(AgentStart, q) /\ ~Answers(Output, q)
  BY DEF Answers, PromptResult, AgentEnd, AgentStart, Output
<1>6. QED
  BY <1>1, <1>2, <1>3, <1>4, <1>5

\* OMP writes lines.
LEMMA Written ==
  ASSUME DeliveryTypeOK, NEW ls \in Seq(Lines), NEW frames \in Seq(PromptFrames),
         WriteLines(ls, frames)
  PROVE  /\ pipe' \in Seq(Lines) /\ unread' \in Seq(PromptFrames)
         /\ UNCHANGED <<running, decoder, inOrder>>
         /\ \A kind : Carried(pipe', kind) = Carried(pipe, kind) \cup Carried(ls, kind)
<1>1. pipe \in Seq(Lines) /\ unread \in Seq(PromptFrames)
  BY DEF DeliveryTypeOK
<1>2. pipe' = pipe \o ls /\ unread' = unread \o frames
  BY DEF WriteLines
<1>3. pipe' \in Seq(Lines) /\ unread' \in Seq(PromptFrames)
  BY <1>1, <1>2, ConcatProperties
<1>4. QED
  BY <1>1, <1>2, <1>3, CarriedBoth DEF WriteLines

\* What is under way when OMP has written frames each on a line of its own.
LEMMA WrittenWhole ==
  ASSUME DeliveryTypeOK, NEW frames \in Seq(PromptFrames), Write(frames)
  PROVE  /\ pipe' \in Seq(Lines) /\ unread' \in Seq(PromptFrames)
         /\ UNCHANGED <<running, decoder, inOrder>>
         /\ WholeUnder(pipe)' = WholeUnder(pipe) \cup Range(frames)
         /\ Carried(pipe', "chunk") = Carried(pipe, "chunk")
<1> DEFINE ls == [i \in DOMAIN frames |-> Whole(frames[i])]
<1>1. frames \in Seq(Frames)
  BY FramesAssumption, SeqMonotonic
<1>2. ls \in Seq(Lines) /\ Carried(ls, "whole") = Range(frames) /\ Carried(ls, "chunk") = {}
  BY <1>1, CarriedWhole
<1>3. WriteLines(ls, frames)
  BY DEF Write
<1> HIDE DEF ls
<1>4. /\ pipe' \in Seq(Lines) /\ unread' \in Seq(PromptFrames)
      /\ UNCHANGED <<running, decoder, inOrder>>
      /\ \A kind : Carried(pipe', kind) = Carried(pipe, kind) \cup Carried(ls, kind)
  BY <1>2, <1>3, Written
<1>5. QED
  BY <1>2, <1>4 DEF WholeUnder

\* Sequences of one and of two.
LEMMA OneOrTwo ==
  ASSUME NEW S, NEW a \in S, NEW b \in S
  PROVE  /\ <<a>> \in Seq(S) /\ Range(<<a>>) = {a}
         /\ <<a, b>> \in Seq(S) /\ Range(<<a, b>>) = {a, b}
BY DEF Range

\* As long as the host does nothing, places change by what OMP deals with alone.
LEMMA PlacesStand ==
  ASSUME PlacesKept, UNCHANGED <<drafts, draining, restored, stage, swept, dropped>>,
         finished \subseteq finished'
  PROVE  PlacesKept'
BY DEF PlacesKept, PromptKept, InPlaces, OneDraft

\* Of what OMP writes, only an answer to a command it has read answers one.
LEMMA AnswersStay ==
  ASSUME AnsweredOnce, NEW N, NEW a, UNCHANGED stage,
         WholeUnder(pipe)' = WholeUnder(pipe) \cup N,
         Range(cmds)' \subseteq Range(cmds),
         \A i, j \in DOMAIN cmds' : cmds'[i] = cmds'[j] /\ cmds'[i] \in Prompts => i = j,
         \A f \in N, q \in Prompts :
           Answers(f, q) => f = a /\ q \in Range(cmds) /\ q \notin Range(cmds)'
  PROVE  AnsweredOnce'
<1>1. ASSUME NEW p \in Prompts, p \in Range(cmds)', NEW f \in WholeUnder(pipe)'
      PROVE  ~Answers(f, p)
  BY <1>1 DEF AnsweredOnce
<1>2. ASSUME NEW p \in Prompts,
             p \in Range(cmds)' \/ \E f \in WholeUnder(pipe)' : Answers(f, p)
      PROVE  stage'[p] \notin {"unsent", "preparing", "announcing"}
  BY <1>2 DEF AnsweredOnce
<1>3. ASSUME NEW p \in Prompts, NEW f \in WholeUnder(pipe)', NEW g \in WholeUnder(pipe)',
             Answers(f, p), Answers(g, p)
      PROVE  f = g
  BY <1>3 DEF AnsweredOnce
<1>4. QED
  BY <1>1, <1>2, <1>3 DEF AnsweredOnce

\* A command is read: what is left.
LEMMA ReadCommand ==
  ASSUME DeliveryTypeOK, AnsweredOnce, cmds # <<>>
  PROVE  /\ Tail(cmds) \in Seq(Prompts \cup {Abort})
         /\ Head(cmds) \in Range(cmds)
         /\ Range(Tail(cmds)) \subseteq Range(cmds)
         /\ Range(cmds) \subseteq Range(Tail(cmds)) \cup {Head(cmds)}
         /\ Head(cmds) \in Prompts => Head(cmds) \notin Range(Tail(cmds))
         /\ \A i, j \in DOMAIN Tail(cmds) :
              Tail(cmds)[i] = Tail(cmds)[j] /\ Tail(cmds)[i] \in Prompts => i = j
<1> DEFINE t == Tail(cmds)
           n == Len(cmds)
<1>1. /\ cmds \in Seq(Prompts \cup {Abort}) /\ n \in Nat /\ n # 0 /\ DOMAIN cmds = 1..n
      /\ Head(cmds) = cmds[1]
  BY DEF DeliveryTypeOK
<1>2. t \in Seq(Prompts \cup {Abort}) /\ DOMAIN t = 1..(n - 1)
      /\ \A i \in 1..(n - 1) : t[i] = cmds[i + 1]
  BY <1>1
<1> HIDE DEF t, n
<1>3. /\ \A i \in 1..(n - 1) : i + 1 \in 1..n /\ i + 1 # 1
      /\ \A i, j \in 1..(n - 1) : i + 1 = j + 1 => i = j
      /\ \A i \in 1..n : i = 1 \/ (i - 1 \in 1..(n - 1) /\ (i - 1) + 1 = i)
      /\ 1 \in 1..n
  BY <1>1
<1>4. Range(t) \subseteq Range(cmds) /\ Head(cmds) \in Range(cmds)
  BY <1>1, <1>2, <1>3 DEF Range
<1>5. Range(cmds) \subseteq Range(t) \cup {Head(cmds)}
  <2>1. ASSUME NEW i \in 1..n PROVE cmds[i] \in Range(t) \cup {Head(cmds)}
    <3>1. CASE i = 1
      BY <1>1, <3>1
    <3>2. CASE i # 1
      <4>1. i - 1 \in 1..(n - 1) /\ t[i - 1] = cmds[i]
        BY <1>2, <1>3, <3>2
      <4>2. QED
        BY <1>2, <4>1 DEF Range
    <3>3. QED
      BY <3>1, <3>2
  <2>2. QED
    BY <1>1, <2>1 DEF Range
<1>6. \A i, j \in 1..n : cmds[i] = cmds[j] /\ cmds[i] \in Prompts => i = j
  BY <1>1 DEF AnsweredOnce
<1>7. ASSUME Head(cmds) \in Prompts PROVE Head(cmds) \notin Range(t)
  <2>1. \A i \in 1..(n - 1) : t[i] # Head(cmds)
    BY <1>1, <1>2, <1>3, <1>6, <1>7
  <2>2. QED
    BY <1>2, <2>1 DEF Range
<1>8. \A i, j \in 1..(n - 1) : t[i] = t[j] /\ t[i] \in Prompts => i = j
  BY <1>2, <1>3, <1>6
<1>9. QED
  BY <1>2, <1>4, <1>5, <1>7, <1>8 DEF t

\* A step of OMP: what it writes is true, answers what it has read, and what the timeout
\* waits for goes on or shows.
LEMMA OmpWrote ==
  ASSUME IInv, NEW N, NEW a,
         turn' \in Turns, silent' \in BOOLEAN, followUps' \in Seq(Prompts),
         cmds' \in Seq(Prompts \cup {Abort}), pipe' \in Seq(Lines),
         unread' \in Seq(PromptFrames), finished \subseteq finished', finished' \subseteq Prompts,
         owns' \in 0..MaxOwn, soiled' \in 0..MaxSoiled,
         UNCHANGED <<running, decoder, pending, hostVars, restarts, broken, dropped, restored,
                     swept, inOrder>>,
         WholeUnder(pipe)' = WholeUnder(pipe) \cup N,
         Carried(pipe', "chunk") \subseteq Carried(pipe, "chunk") \cup {Output},
         \A f \in N : f \in TurnFrames /\ ToldTruly(f)',
         Range(cmds)' \subseteq Range(cmds),
         \A i, j \in DOMAIN cmds' : cmds'[i] = cmds'[j] /\ cmds'[i] \in Prompts => i = j,
         \A f \in N, q \in Prompts :
           Answers(f, q) => f = a /\ q \in Range(cmds) /\ q \notin Range(cmds)',
         turn # {} => turn' # {} \/ \E f \in N : Clears(f),
         \A p \in pending \cap watched :
           p \in Range(cmds) => p \in Range(cmds)' \/ turn' # {} \/ \E f \in N : Clears(f)
  PROVE  IInv'
<1>1. DeliveryTypeOK'
  BY DEF IInv, DeliveryTypeOK, hostVars
<1>2. PipeTrue'
  <2>1. \A f : ToldTruly(f) => ToldTruly(f)'
    BY DEF ToldTruly
  <2>2. \A f \in WholeUnder(pipe)' : f \in PromptFrames /\ (f # Negotiated => ToldTruly(f)')
    BY <2>1, TurnFrame DEF IInv, PipeTrue
  <2>3. Carried(pipe', "chunk") \subseteq {Output}
    BY DEF IInv, PipeTrue
  <2>4. QED
    BY <2>2, <2>3 DEF PipeTrue
<1>3. PlacesKept'
  BY PlacesStand DEF IInv, hostVars
<1>4. AnsweredOnce'
  BY AnswersStay DEF IInv, hostVars
<1>5. ArmedForWork'
  <2>1. \A f : Clears(f)' <=> Clears(f)
    BY DEF Clears, hostVars
  <2>2. \A p \in Prompts : stage'[p] = "announcing" => p \in watched' /\ (p \in stale' \/ up')
    BY DEF IInv, ArmedForWork, hostVars
  <2>3. armed' => up' \/ ~running'
    BY DEF IInv, ArmedForWork, hostVars
  <2>4. ASSUME armed', up', running', ~failed'
        PROVE  \/ turn' # {}
               \/ Range(cmds)' \cap pending' \cap watched' # {}
               \/ \E f \in WholeUnder(pipe)' : Clears(f)'
    <3>1. \/ turn # {}
          \/ Range(cmds) \cap pending \cap watched # {}
          \/ \E f \in WholeUnder(pipe) : Clears(f)
      BY <2>4 DEF IInv, ArmedForWork, hostVars
    <3>2. (\E f \in N : Clears(f)) => \E f \in WholeUnder(pipe)' : Clears(f)'
      BY <2>1
    <3>3. CASE turn # {}
      BY <3>2, <3>3
    <3>4. CASE Range(cmds) \cap pending \cap watched # {}
      <4>1. PICK p \in pending \cap watched : p \in Range(cmds)
        BY <3>4
      <4>2. p \in Range(cmds)' \/ turn' # {} \/ \E f \in N : Clears(f)
        BY <4>1
      <4>3. p \in pending' \cap watched'
        BY <4>1 DEF hostVars
      <4>4. QED
        BY <3>2, <4>2, <4>3
    <3>5. CASE \E f \in WholeUnder(pipe) : Clears(f)
      BY <2>1, <3>5
    <3>6. QED
      BY <3>1, <3>3, <3>4, <3>5
  <2>5. QED
    BY <2>2, <2>3, <2>4 DEF ArmedForWork
<1>6. QED
  BY <1>1, <1>2, <1>3, <1>4, <1>5 DEF IInv

\* The end of a turn is told, and what it dealt with is as told.
LEMMA TurnEnds ==
  ASSUME DeliveryTypeOK, turn # {}, EndOfTurn
  PROVE  /\ turn' \in Turns /\ silent' \in BOOLEAN /\ followUps' \in Seq(Prompts)
         /\ pipe' \in Seq(Lines) /\ unread' \in Seq(PromptFrames)
         /\ finished \subseteq finished' /\ finished' \subseteq Prompts
         /\ UNCHANGED <<running, decoder, inOrder>>
         /\ \E N : /\ WholeUnder(pipe)' = WholeUnder(pipe) \cup N
                   /\ Carried(pipe', "chunk") = Carried(pipe, "chunk")
                   /\ \A f \in N : f \in TurnFrames /\ ToldTruly(f)' /\ \A q : ~Answers(f, q)
                   /\ \E f \in N : Clears(f)
<1>1. /\ turn \in Turns /\ followUps \in Seq(Prompts) /\ finished \subseteq Prompts
      /\ finished' = finished \cup (turn \cap Prompts)
  BY DEF DeliveryTypeOK, EndOfTurn
<1>7. PICK t \in Turns : t = turn
  BY <1>1
<1> DEFINE e == AgentEnd(t)
<1>2. /\ e \in TurnFrames /\ AgentStart \in TurnFrames
      /\ e \in PromptFrames /\ AgentStart \in PromptFrames /\ e # Negotiated
      /\ \A q : ~Answers(e, q) /\ ~Answers(AgentStart, q)
  BY TurnFrame
<1>3. ToldTruly(e)' /\ ToldTruly(AgentStart)' /\ Clears(e)
  BY <1>1, <1>2, <1>7 DEF ToldTruly, AgentEnd, AgentStart, Clears
<1> HIDE DEF e
<1>4. CASE followUps = <<>>
  <2> DEFINE fr == <<e>>
  <2>1. fr \in Seq(PromptFrames) /\ Range(fr) = {e}
    BY <1>2, OneOrTwo
  <2>2. /\ turn' = {} /\ silent' = FALSE /\ followUps' = followUps /\ Write(fr)
    BY <1>4, <1>7 DEF EndOfTurn, e
  <2> HIDE DEF fr
  <2>3. /\ pipe' \in Seq(Lines) /\ unread' \in Seq(PromptFrames)
        /\ UNCHANGED <<running, decoder, inOrder>>
        /\ WholeUnder(pipe)' = WholeUnder(pipe) \cup {e}
        /\ Carried(pipe', "chunk") = Carried(pipe, "chunk")
    BY <2>1, <2>2, WrittenWhole
  <2>4. turn' \in Turns
    BY <2>2 DEF Turns
  <2>5. \A f \in {e} : f \in TurnFrames /\ ToldTruly(f)' /\ \A q : ~Answers(f, q)
    BY <1>2, <1>3
  <2>6. QED
    BY <1>1, <1>3, <2>2, <2>3, <2>4, <2>5
<1>5. CASE followUps # <<>>
  <2> DEFINE fr == <<e, AgentStart>>
  <2>1. fr \in Seq(PromptFrames) /\ Range(fr) = {e, AgentStart}
    <3>1. fr \in Seq(PromptFrames)
      BY <1>2
    <3>2. Range(fr) = {e, AgentStart}
      BY DEF Range
    <3>3. QED
      BY <3>1, <3>2
  <2>2. /\ turn' = {Head(followUps)} /\ silent' = TRUE /\ followUps' = Tail(followUps)
        /\ Write(fr)
    BY <1>5, <1>7 DEF EndOfTurn, e
  <2> HIDE DEF fr
  <2>3. /\ pipe' \in Seq(Lines) /\ unread' \in Seq(PromptFrames)
        /\ UNCHANGED <<running, decoder, inOrder>>
        /\ WholeUnder(pipe)' = WholeUnder(pipe) \cup {e, AgentStart}
        /\ Carried(pipe', "chunk") = Carried(pipe, "chunk")
    BY <2>1, <2>2, WrittenWhole
  <2>4. turn' \in Turns /\ followUps' \in Seq(Prompts)
    BY <1>1, <1>5, <2>2, HeadTailProperties DEF Turns
  <2>5. \A f \in {e, AgentStart} :
          f \in TurnFrames /\ ToldTruly(f)' /\ \A q : ~Answers(f, q)
    BY <1>2, <1>3
  <2>6. QED
    BY <1>1, <1>3, <2>2, <2>3, <2>4, <2>5
<1>6. QED
  BY <1>4, <1>5

\* OMP ends the turn: the drafts of the prompts it names are dealt with.
LEMMA OmpEndsStep ==
  ASSUME IInv, OmpEnds
  PROVE  IInv'
<1>1. DeliveryTypeOK /\ turn # {} /\ EndOfTurn
  BY DEF IInv, OmpEnds
<1>2. /\ turn' \in Turns /\ silent' \in BOOLEAN /\ followUps' \in Seq(Prompts)
      /\ pipe' \in Seq(Lines) /\ unread' \in Seq(PromptFrames)
      /\ finished \subseteq finished' /\ finished' \subseteq Prompts
      /\ UNCHANGED <<running, decoder, inOrder>>
  BY <1>1, TurnEnds
<1>3. PICK N : /\ WholeUnder(pipe)' = WholeUnder(pipe) \cup N
               /\ Carried(pipe', "chunk") = Carried(pipe, "chunk")
               /\ \A f \in N : f \in TurnFrames /\ ToldTruly(f)' /\ \A q : ~Answers(f, q)
               /\ \E f \in N : Clears(f)
  BY <1>1, TurnEnds
<1>4. UNCHANGED <<cmds, pending, hostVars, countVars, restored, swept>>
  BY DEF OmpEnds
<1>5. /\ cmds \in Seq(Prompts \cup {Abort}) /\ owns \in 0..MaxOwn /\ soiled \in 0..MaxSoiled
      /\ \A i, j \in DOMAIN cmds : cmds[i] = cmds[j] /\ cmds[i] \in Prompts => i = j
  BY DEF IInv, DeliveryTypeOK, AnsweredOnce
<1>6. UNCHANGED <<owns, soiled, restarts, broken, dropped>>
  BY <1>4 DEF countVars
<1>7. QED
  BY <1>2, <1>3, <1>4, <1>5, <1>6, OmpWrote

\* OMP begins a turn of its own.
LEMMA OmpBeginsStep ==
  ASSUME IInv, OmpBegins
  PROVE  IInv'
<1> DEFINE fr == <<AgentStart>>
<1>1. fr \in Seq(PromptFrames) /\ Range(fr) = {AgentStart}
  BY TurnFrame, OneOrTwo
<1>2. /\ turn' = {Own} /\ silent' = TRUE /\ Write(fr) /\ owns < MaxOwn /\ owns' = owns + 1
      /\ UNCHANGED <<followUps, cmds, pending, hostVars, soiled, restarts, broken, dropped,
                     restored, finished, swept>>
  BY DEF OmpBegins
<1> HIDE DEF fr
<1>3. /\ pipe' \in Seq(Lines) /\ unread' \in Seq(PromptFrames)
      /\ UNCHANGED <<running, decoder, inOrder>>
      /\ WholeUnder(pipe)' = WholeUnder(pipe) \cup {AgentStart}
      /\ Carried(pipe', "chunk") = Carried(pipe, "chunk")
  BY <1>1, <1>2, WrittenWhole DEF IInv
<1>4. /\ cmds \in Seq(Prompts \cup {Abort}) /\ owns \in 0..MaxOwn /\ soiled \in 0..MaxSoiled
      /\ followUps \in Seq(Prompts) /\ finished \subseteq Prompts
      /\ \A i, j \in DOMAIN cmds : cmds[i] = cmds[j] /\ cmds[i] \in Prompts => i = j
  BY DEF IInv, DeliveryTypeOK, AnsweredOnce
<1>5. turn' \in Turns /\ turn' # {} /\ owns' \in 0..MaxOwn
  <2>1. owns' \in 0..MaxOwn
    BY <1>2, <1>4, DeliveryAssumption
  <2>2. {Own} \in Turns /\ {Own} # {}
    BY DEF Turns
  <2>3. QED
    BY <1>2, <2>1, <2>2
<1>6. AgentStart \in TurnFrames /\ ToldTruly(AgentStart)' /\ \A q : ~Answers(AgentStart, q)
  BY TurnFrame DEF ToldTruly, AgentStart
<1> DEFINE N == {AgentStart}
<1>7. /\ WholeUnder(pipe)' = WholeUnder(pipe) \cup N
      /\ \A f \in N : f \in TurnFrames /\ ToldTruly(f)' /\ \A q : ~Answers(f, q)
  BY <1>3, <1>6
<1> HIDE DEF N
<1>8. QED
  BY <1>2, <1>3, <1>4, <1>5, <1>7, OmpWrote

\* A prompt command is read: what OMP writes answers that prompt alone, and shows that
\* it refused it, dealt with it, or has a turn for it.
LEMMA PromptRead ==
  ASSUME IInv, NEW p \in Prompts, OmpRefuse(p) \/ OmpLocal(p) \/ OmpAccept(p)
  PROVE  /\ turn' \in Turns /\ silent' \in BOOLEAN /\ followUps' \in Seq(Prompts)
         /\ pipe' \in Seq(Lines) /\ unread' \in Seq(PromptFrames)
         /\ finished \subseteq finished' /\ finished' \subseteq Prompts
         /\ UNCHANGED <<running, decoder, inOrder>>
         /\ turn # {} => turn' # {}
         /\ \E N, a : /\ WholeUnder(pipe)' = WholeUnder(pipe) \cup N
                      /\ Carried(pipe', "chunk") = Carried(pipe, "chunk")
                      /\ \A f \in N : f \in TurnFrames /\ ToldTruly(f)'
                      /\ \A f \in N, q \in Prompts : Answers(f, q) => f = a /\ q = p
                      /\ turn' # {} \/ \E f \in N : p \in pending \cap watched => Clears(f)
<1>1. /\ DeliveryTypeOK /\ turn \in Turns /\ silent \in BOOLEAN /\ followUps \in Seq(Prompts)
      /\ finished \subseteq Prompts
  BY DEF IInv, DeliveryTypeOK
<1>2. CASE OmpRefuse(p)
  <2> DEFINE a == Answer(p, FALSE, FALSE)
             fr == <<a>>
  <2>1. /\ a \in TurnFrames /\ a \in PromptFrames /\ a # Negotiated
        /\ \A q \in Prompts : Answers(a, q) => q = p
    BY TurnFrame
  <2>2. fr \in Seq(PromptFrames) /\ Range(fr) = {a}
    <3> HIDE DEF a
    <3>1. QED
      BY <2>1, OneOrTwo
  <2>3. Write(fr) /\ UNCHANGED <<turn, silent, followUps, finished>>
    BY <1>2 DEF OmpRefuse
  <2>4. ToldTruly(a)' /\ (p \in pending \cap watched => Clears(a))
    BY <2>1 DEF ToldTruly, Answer, Clears
  <2> HIDE DEF a, fr
  <2>5. /\ pipe' \in Seq(Lines) /\ unread' \in Seq(PromptFrames)
        /\ UNCHANGED <<running, decoder, inOrder>>
        /\ WholeUnder(pipe)' = WholeUnder(pipe) \cup {a}
        /\ Carried(pipe', "chunk") = Carried(pipe, "chunk")
    BY <1>1, <2>2, <2>3, WrittenWhole
  <2>6. /\ \A f \in {a} : f \in TurnFrames /\ ToldTruly(f)'
        /\ \A f \in {a}, q \in Prompts : Answers(f, q) => f = a /\ q = p
        /\ \E f \in {a} : p \in pending \cap watched => Clears(f)
    BY <2>1, <2>4
  <2>7. QED
    BY <1>1, <2>3, <2>5, <2>6
<1>3. CASE OmpLocal(p)
  <2> DEFINE r == PromptResult(p)
             a == Answer(p, TRUE, FALSE)
             fr == <<r, a>>
  <2>1. /\ a \in TurnFrames /\ a \in PromptFrames /\ r \in TurnFrames /\ r \in PromptFrames
        /\ r # Negotiated
        /\ \A q \in Prompts : (Answers(a, q) => q = p) /\ ~Answers(r, q)
    BY TurnFrame
  <2>2. fr \in Seq(PromptFrames) /\ Range(fr) = {r, a}
    <3> HIDE DEF a, r
    <3>1. fr \in Seq(PromptFrames)
      BY <2>1
    <3>2. Range(fr) = {r, a}
      BY DEF Range
    <3>3. QED
      BY <3>1, <3>2
  <2>3. Write(fr) /\ UNCHANGED <<turn, silent, followUps>> /\ finished' = finished \cup {p}
    BY <1>3 DEF OmpLocal
  <2>4. ToldTruly(a)' /\ ToldTruly(r)' /\ Clears(r)
    BY <2>1, <2>3 DEF ToldTruly, Answer, PromptResult, Clears
  <2> HIDE DEF a, r, fr
  <2>5. /\ pipe' \in Seq(Lines) /\ unread' \in Seq(PromptFrames)
        /\ UNCHANGED <<running, decoder, inOrder>>
        /\ WholeUnder(pipe)' = WholeUnder(pipe) \cup {r, a}
        /\ Carried(pipe', "chunk") = Carried(pipe, "chunk")
    BY <1>1, <2>2, <2>3, WrittenWhole
  <2>6. /\ \A f \in {r, a} : f \in TurnFrames /\ ToldTruly(f)'
        /\ \A f \in {r, a}, q \in Prompts : Answers(f, q) => f = a /\ q = p
        /\ \E f \in {r, a} : p \in pending \cap watched => Clears(f)
    BY <2>1, <2>4
  <2>7. finished' \subseteq Prompts /\ finished \subseteq finished'
    BY <1>1, <2>3
  <2> DEFINE N == {r, a}
  <2>8. /\ WholeUnder(pipe)' = WholeUnder(pipe) \cup N
        /\ Carried(pipe', "chunk") = Carried(pipe, "chunk")
        /\ \A f \in N : f \in TurnFrames /\ ToldTruly(f)'
        /\ \A f \in N, q \in Prompts : Answers(f, q) => f = a /\ q = p
        /\ \E f \in N : p \in pending \cap watched => Clears(f)
    BY <2>5, <2>6
  <2> HIDE DEF N
  <2>9. /\ turn' \in Turns /\ silent' \in BOOLEAN /\ followUps' \in Seq(Prompts)
        /\ turn # {} => turn' # {}
    BY <1>1, <2>3
  <2>10. \E M, b : /\ WholeUnder(pipe)' = WholeUnder(pipe) \cup M
                   /\ Carried(pipe', "chunk") = Carried(pipe, "chunk")
                   /\ \A f \in M : f \in TurnFrames /\ ToldTruly(f)'
                   /\ \A f \in M, q \in Prompts : Answers(f, q) => f = b /\ q = p
                   /\ \E f \in M : p \in pending \cap watched => Clears(f)
    BY <2>8
  <2>11. QED
    BY <2>5, <2>7, <2>9, <2>10
<1>4. CASE OmpAccept(p)
  <2> DEFINE a == Answer(p, TRUE, TRUE)
             one == <<a>>
             two == <<a, AgentStart>>
  <2>1. /\ a \in TurnFrames /\ a \in PromptFrames
        /\ AgentStart \in TurnFrames /\ AgentStart \in PromptFrames
        /\ \A q \in Prompts : (Answers(a, q) => q = p) /\ ~Answers(AgentStart, q)
    BY TurnFrame
  <2>2. /\ one \in Seq(PromptFrames) /\ Range(one) = {a}
        /\ two \in Seq(PromptFrames) /\ Range(two) = {a, AgentStart}
    <3> HIDE DEF a
    <3>1. one \in Seq(PromptFrames) /\ two \in Seq(PromptFrames)
      BY <2>1
    <3>2. Range(one) = {a} /\ Range(two) = {a, AgentStart}
      BY DEF Range
    <3>3. QED
      BY <3>1, <3>2
  <2>3. ToldTruly(a)' /\ ToldTruly(AgentStart)'
    BY DEF ToldTruly, Answer, AgentStart
  <2>4. /\ turn' \in Turns /\ silent' \in BOOLEAN /\ followUps' \in Seq(Prompts)
        /\ turn' # {} /\ finished' = finished /\ (Write(one) \/ Write(two))
    <3>1. CASE turn = {}
      <4>1. /\ turn' = {p} /\ silent' = TRUE /\ Write(two)
            /\ UNCHANGED <<followUps, finished>>
        BY <1>4, <3>1 DEF OmpAccept
      <4>2. {p} \in Turns /\ {p} # {}
        BY DEF Turns
      <4>3. QED
        BY <1>1, <4>1, <4>2
    <3>2. CASE turn # {}
      <4>1. /\ Write(one) /\ UNCHANGED <<silent, finished>>
            /\ \/ followUps' = Append(followUps, p) /\ UNCHANGED turn
               \/ turn \subseteq Prompts /\ turn' = turn \cup {p} /\ UNCHANGED followUps
        BY <1>4, <3>2 DEF OmpAccept
      <4>2. followUps' \in Seq(Prompts)
        BY <1>1, <4>1
      <4>3. turn' \in Turns /\ turn' # {}
        <5>1. turn \subseteq Prompts => turn \cup {p} \in Turns
          BY DEF Turns
        <5>2. QED
          BY <1>1, <3>2, <4>1, <5>1
      <4>4. QED
        BY <1>1, <4>1, <4>2, <4>3
    <3>3. QED
      BY <3>1, <3>2
  <2> HIDE DEF a, one, two
  <2>5. /\ pipe' \in Seq(Lines) /\ unread' \in Seq(PromptFrames)
        /\ UNCHANGED <<running, decoder, inOrder>>
        /\ Carried(pipe', "chunk") = Carried(pipe, "chunk")
        /\ \/ WholeUnder(pipe)' = WholeUnder(pipe) \cup {a}
           \/ WholeUnder(pipe)' = WholeUnder(pipe) \cup {a, AgentStart}
    BY <1>1, <2>2, <2>4, WrittenWhole
  <2>6. PICK N \in {{a}, {a, AgentStart}} : WholeUnder(pipe)' = WholeUnder(pipe) \cup N
    BY <2>5
  <2>7. /\ \A f \in N : f \in TurnFrames /\ ToldTruly(f)'
        /\ \A f \in N, q \in Prompts : Answers(f, q) => f = a /\ q = p
    BY <2>1, <2>3, <2>6
  <2>8. QED
    BY <1>1, <2>4, <2>5, <2>6, <2>7
<1>5. QED
  BY <1>2, <1>3, <1>4

\* OMP reads a command and answers it.
LEMMA OmpReadsStep ==
  ASSUME IInv, OmpReads
  PROVE  IInv'
<1>1. /\ DeliveryTypeOK /\ AnsweredOnce /\ cmds # <<>> /\ cmds' = Tail(cmds)
      /\ UNCHANGED <<pending, hostVars, countVars, restored, swept>>
  BY DEF IInv, OmpReads
<1>2. /\ cmds' \in Seq(Prompts \cup {Abort})
      /\ Head(cmds) \in Range(cmds)
      /\ Range(cmds)' \subseteq Range(cmds)
      /\ Range(cmds) \subseteq Range(cmds)' \cup {Head(cmds)}
      /\ Head(cmds) \in Prompts => Head(cmds) \notin Range(cmds)'
      /\ \A i, j \in DOMAIN cmds' : cmds'[i] = cmds'[j] /\ cmds'[i] \in Prompts => i = j
  BY <1>1, ReadCommand
<1>3. /\ owns' \in 0..MaxOwn /\ soiled' \in 0..MaxSoiled
      /\ UNCHANGED <<restarts, broken, dropped>>
  BY <1>1 DEF DeliveryTypeOK, countVars
<1>4. ASSUME NEW p \in Prompts, p = Head(cmds), OmpRefuse(p) \/ OmpLocal(p) \/ OmpAccept(p)
      PROVE  IInv'
  <2>1. /\ turn' \in Turns /\ silent' \in BOOLEAN /\ followUps' \in Seq(Prompts)
        /\ pipe' \in Seq(Lines) /\ unread' \in Seq(PromptFrames)
        /\ finished \subseteq finished' /\ finished' \subseteq Prompts
        /\ UNCHANGED <<running, decoder, inOrder>>
        /\ turn # {} => turn' # {}
    BY <1>4, PromptRead
  <2>2. PICK N, a : /\ WholeUnder(pipe)' = WholeUnder(pipe) \cup N
                    /\ Carried(pipe', "chunk") = Carried(pipe, "chunk")
                    /\ \A f \in N : f \in TurnFrames /\ ToldTruly(f)'
                    /\ \A f \in N, q \in Prompts : Answers(f, q) => f = a /\ q = p
                    /\ turn' # {} \/ \E f \in N : p \in pending \cap watched => Clears(f)
    BY <1>4, PromptRead
  <2>3. /\ \A f \in N, q \in Prompts :
             Answers(f, q) => f = a /\ q \in Range(cmds) /\ q \notin Range(cmds)'
        /\ \A q \in pending \cap watched :
             q \in Range(cmds) => q \in Range(cmds)' \/ turn' # {} \/ \E f \in N : Clears(f)
    BY <1>2, <1>4, <2>2
  <2>4. QED
    BY <1>1, <1>2, <1>3, <2>1, <2>2, <2>3, OmpWrote
<1>5. CASE Head(cmds) = Abort /\ turn # {} /\ EndOfTurn
  <2>1. /\ turn' \in Turns /\ silent' \in BOOLEAN /\ followUps' \in Seq(Prompts)
        /\ pipe' \in Seq(Lines) /\ unread' \in Seq(PromptFrames)
        /\ finished \subseteq finished' /\ finished' \subseteq Prompts
        /\ UNCHANGED <<running, decoder, inOrder>>
    BY <1>1, <1>5, TurnEnds
  <2>2. PICK N : /\ WholeUnder(pipe)' = WholeUnder(pipe) \cup N
                 /\ Carried(pipe', "chunk") = Carried(pipe, "chunk")
                 /\ \A f \in N : f \in TurnFrames /\ ToldTruly(f)' /\ \A q : ~Answers(f, q)
                 /\ \E f \in N : Clears(f)
    BY <1>1, <1>5, TurnEnds
  <2>3. QED
    BY <1>1, <1>2, <1>3, <2>1, <2>2, OmpWrote
<1>6. CASE /\ Head(cmds) = Abort /\ turn = {}
           /\ UNCHANGED <<turn, silent, followUps, wireVars, finished, unread, inOrder>>
  <2>1. /\ turn' \in Turns /\ silent' \in BOOLEAN /\ followUps' \in Seq(Prompts)
        /\ pipe' \in Seq(Lines) /\ unread' \in Seq(PromptFrames)
        /\ finished \subseteq finished' /\ finished' \subseteq Prompts
        /\ UNCHANGED <<running, decoder, inOrder>>
    BY <1>1, <1>6 DEF DeliveryTypeOK, wireVars
  <2>2. /\ WholeUnder(pipe)' = WholeUnder(pipe) \cup {}
        /\ Carried(pipe', "chunk") = Carried(pipe, "chunk")
        /\ turn = {} /\ \A q \in Prompts : q \in Range(cmds) => q \in Range(cmds)'
    BY <1>2, <1>6, DeliveryAssumption DEF wireVars
  <2>3. pending \subseteq Prompts
    BY <1>1 DEF DeliveryTypeOK
  <2> DEFINE N == {}
  <2>4. /\ WholeUnder(pipe)' = WholeUnder(pipe) \cup N
        /\ \A f \in N : FALSE
    BY <2>2
  <2> HIDE DEF N
  <2>5. QED
    BY <1>1, <1>2, <1>3, <2>1, <2>2, <2>3, <2>4, OmpWrote
<1>7. QED
  BY <1>4, <1>5, <1>6 DEF OmpReads

\* Output comes in two chunks, and something that is no frame adds no whole one.
LEMMA ChunkLine ==
  ASSUME NEW id \in ChunkIds, NEW index \in 0..1, NEW bytes \in {MinChunked, MaxReassembled + 1},
         NEW size \in {MaxChunkBytes, MinChunked - MaxChunkBytes}
  PROVE  LET c == Chunk(id, index, 2, bytes, size, Output) IN
         c \in Lines /\ c.kind = "chunk" /\ c.frame = Output
<1> DEFINE c == Chunk(id, index, 2, bytes, size, Output)
<1>1. /\ index \in 0..MaxChunks /\ 2 \in 0..(MaxChunks + 1)
      /\ bytes \in 0..(MaxReassembled + 1) /\ size \in 0..(MaxChunkBytes + 1)
  BY DecoderAssumption, FramesAssumption
<1>2. Output \in Frames
  BY TurnFrame
<1>3. c \in ChunkLines
  BY <1>1, <1>2 DEF Chunk, ChunkLines
<1>4. QED
  BY <1>3 DEF Lines, Chunk

\* OMP writes an output too long for a line, in two chunks.
LEMMA OmpOutputStep ==
  ASSUME IInv, OmpOutput
  PROVE  IInv'
<1>1. PICK id \in ChunkIds : WriteLines(ChunksOf(id, Output), <<Output>>)
  BY DEF OmpOutput
<1> DEFINE x == Chunk(id, 0, 2, MinChunked, MaxChunkBytes, Output)
           y == Chunk(id, 1, 2, MinChunked, MinChunked - MaxChunkBytes, Output)
           ls == <<x, y>>
           fr == <<Output>>
<1>2. /\ x \in Lines /\ x.kind = "chunk" /\ x.frame = Output
      /\ y \in Lines /\ y.kind = "chunk" /\ y.frame = Output
  BY ChunkLine
<1>3. WriteLines(ls, fr)
  BY <1>1 DEF ChunksOf
<1>4. /\ ls \in Seq(Lines) /\ Carried(ls, "whole") = {} /\ Carried(ls, "chunk") \subseteq {Output}
  <2> HIDE DEF x, y
  <2>1. ls \in Seq(Lines)
    BY <1>2
  <2>2. DOMAIN ls = 1..2 /\ ls[1] = x /\ ls[2] = y
    OBVIOUS
  <2>3. \A i \in 1..2 : ls[i].kind = "chunk" /\ ls[i].frame = Output
    <3>1. \A i \in 1..2 : i = 1 \/ i = 2
      OBVIOUS
    <3> HIDE DEF ls
    <3>2. QED
      BY <1>2, <2>2, <3>1
  <2> HIDE DEF ls
  <2>4. QED
    BY <2>1, <2>2, <2>3 DEF Carried
<1>5. fr \in Seq(PromptFrames)
  BY TurnFrame
<1> HIDE DEF x, y, ls, fr
<1>6. /\ pipe' \in Seq(Lines) /\ unread' \in Seq(PromptFrames)
      /\ UNCHANGED <<running, decoder, inOrder>>
      /\ \A kind : Carried(pipe', kind) = Carried(pipe, kind) \cup Carried(ls, kind)
  BY <1>3, <1>4, <1>5, Written DEF IInv
<1>7. /\ silent' = FALSE /\ turn # {}
      /\ UNCHANGED <<turn, followUps, cmds, pending, hostVars, countVars, restored, finished,
                     swept>>
  BY DEF OmpOutput
<1>8. /\ cmds \in Seq(Prompts \cup {Abort}) /\ owns \in 0..MaxOwn /\ soiled \in 0..MaxSoiled
      /\ followUps \in Seq(Prompts) /\ finished \subseteq Prompts /\ turn \in Turns
      /\ \A i, j \in DOMAIN cmds : cmds[i] = cmds[j] /\ cmds[i] \in Prompts => i = j
  BY DEF IInv, DeliveryTypeOK, AnsweredOnce
<1>9. UNCHANGED <<owns, soiled, restarts, broken, dropped>>
  BY <1>7 DEF countVars
<1> DEFINE N == {}
<1>10. /\ WholeUnder(pipe)' = WholeUnder(pipe) \cup N /\ \A f \in N : FALSE
       /\ Carried(pipe', "chunk") \subseteq Carried(pipe, "chunk") \cup {Output}
  BY <1>4, <1>6 DEF WholeUnder
<1> HIDE DEF N
<1>11. QED
  BY <1>6, <1>7, <1>8, <1>9, <1>10, OmpWrote

\* A line that is not of OMP is no whole frame.
LEMMA StrayLine ==
  ASSUME NEW stray \in Strays
  PROVE  /\ stray \in Lines /\ stray.kind # "whole"
         /\ stray.kind = "chunk" => stray.frame = Output
<1>1. CASE stray = Garbled
  BY <1>1 DEF Garbled, Lines
<1>2. CASE \E id \in ChunkIds : stray = Chunk(id, 1, 2, MinChunked, MaxChunkBytes, Output)
  BY <1>2, ChunkLine
<1>3. CASE \E id \in ChunkIds :
             stray = Chunk(id, 0, 2, MaxReassembled + 1, MaxChunkBytes, Output)
  BY <1>3, ChunkLine
<1>4. QED
  BY <1>1, <1>2, <1>3 DEF Strays

\* A line put between others carries what it carries.
LEMMA CarriedInserted ==
  ASSUME NEW a \in Seq(Lines), NEW i \in 1..(Len(a) + 1), NEW line \in Lines
  PROVE  /\ InsertAt(a, i, line) \in Seq(Lines)
         /\ \A kind : Carried(InsertAt(a, i, line), kind) =
              Carried(a, kind) \cup (IF line.kind = kind THEN {line.frame} ELSE {})
<1> DEFINE x == SubSeq(a, 1, i - 1)
           y == SubSeq(a, i, Len(a))
           l == <<line>>
<1>1. /\ i - 1 \in 0..Len(a) /\ (i - 1) + 1 = i
  OBVIOUS
<1>2. /\ x \in Seq(Lines) /\ y \in Seq(Lines)
      /\ \A kind : Carried(a, kind) = Carried(x, kind) \cup Carried(y, kind)
  BY <1>1, CarriedCut
<1>3. /\ l \in Seq(Lines) /\ DOMAIN l = {1} /\ l[1] = line
  OBVIOUS
<1>4. InsertAt(a, i, line) = (x \o l) \o y
  BY DEF InsertAt
<1> HIDE DEF x, y, l
<1>5. \A kind : Carried(l, kind) = IF line.kind = kind THEN {line.frame} ELSE {}
  BY <1>3 DEF Carried
<1>6. /\ x \o l \in Seq(Lines)
      /\ \A kind : Carried(x \o l, kind) = Carried(x, kind) \cup Carried(l, kind)
  BY <1>2, <1>3, CarriedBoth, ConcatProperties
<1>7. /\ (x \o l) \o y \in Seq(Lines)
      /\ \A kind : Carried((x \o l) \o y, kind) = Carried(x \o l, kind) \cup Carried(y, kind)
  <2> DEFINE z == x \o l
  <2>1. z \in Seq(Lines)
    BY <1>6
  <2> HIDE DEF z
  <2>2. /\ z \o y \in Seq(Lines)
        /\ \A kind : Carried(z \o y, kind) = Carried(z, kind) \cup Carried(y, kind)
    BY <1>2, <2>1, CarriedBoth, ConcatProperties
  <2>3. QED
    BY <2>2 DEF z
<1>8. QED
  BY <1>2, <1>4, <1>5, <1>6, <1>7

\* A line that is not of OMP gets among its output.
LEMMA OmpSoilsStep ==
  ASSUME IInv, OmpSoils
  PROVE  IInv'
<1>1. PICK i \in {Len(pipe), Len(pipe) + 1} \ {0}, stray \in Strays :
        pipe' = InsertAt(pipe, i, stray)
  BY DEF OmpSoils
<1>2. pipe \in Seq(Lines) /\ Len(pipe) \in Nat
  BY DEF IInv, DeliveryTypeOK
<1>3. i \in 1..(Len(pipe) + 1)
  BY <1>1, <1>2
<1>4. stray \in Lines /\ stray.kind # "whole" /\ (stray.kind = "chunk" => stray.frame = Output)
  BY StrayLine
<1>5. /\ pipe' \in Seq(Lines)
      /\ \A kind : Carried(pipe', kind) =
           Carried(pipe, kind) \cup (IF stray.kind = kind THEN {stray.frame} ELSE {})
  BY <1>1, <1>2, <1>3, <1>4, CarriedInserted
<1>6. /\ soiled < MaxSoiled /\ soiled' = soiled + 1
      /\ UNCHANGED <<running, decoder, ompVars, pending, hostVars, owns, restarts, broken, dropped,
                     proofVars>>
  BY DEF OmpSoils
<1>7. /\ cmds \in Seq(Prompts \cup {Abort}) /\ owns \in 0..MaxOwn /\ soiled \in 0..MaxSoiled
      /\ followUps \in Seq(Prompts) /\ finished \subseteq Prompts /\ turn \in Turns
      /\ silent \in BOOLEAN /\ unread \in Seq(PromptFrames)
      /\ \A j, k \in DOMAIN cmds : cmds[j] = cmds[k] /\ cmds[j] \in Prompts => j = k
  BY DEF IInv, DeliveryTypeOK, AnsweredOnce
<1>8. soiled' \in 0..MaxSoiled
  BY <1>6, <1>7, DeliveryAssumption
<1>9. UNCHANGED <<turn, silent, followUps, cmds, restored, finished, swept, unread, inOrder,
                  broken, dropped>>
  BY <1>6 DEF ompVars, proofVars
<1> DEFINE N == {}
<1>10. /\ WholeUnder(pipe)' = WholeUnder(pipe) \cup N /\ \A f \in N : FALSE
       /\ Carried(pipe', "chunk") \subseteq Carried(pipe, "chunk") \cup {Output}
  BY <1>4, <1>5 DEF WholeUnder
<1> HIDE DEF N
<1>11. QED
  BY <1>5, <1>6, <1>7, <1>8, <1>9, <1>10, OmpWrote

-----------------------------------------------------------------------------
\* The steps of the host.

\* What the host knows, as a handling.
LEMMA HandlingFields ==
  ASSUME DeliveryTypeOK
  PROVE  /\ Handling \in Handlings
         /\ Handling.pending = pending /\ Handling.drafts = drafts
         /\ Handling.restored = restored /\ Handling.swept = swept
         /\ Handling.armed = armed /\ Handling.up = up /\ Handling.settled = <<>>
<1>1. pending \subseteq Prompts /\ <<>> \in Seq(PromptAnswers)
  BY DEF DeliveryTypeOK
<1>2. QED
  BY <1>1 DEF Handling, Handlings, DeliveryTypeOK

\* Requests that are rejected.
LEMMA RejectFacts ==
  ASSUME NEW h \in Handlings, NEW ps \in SUBSET Prompts
  PROVE  LET n == Reject(h, ps) IN
         /\ n \in Handlings /\ Keeps(h, n)
         /\ n.pending = h.pending \ ps /\ n.up = h.up /\ n.swept = h.swept
         /\ n.drafts = Without(h.drafts, ps)
         /\ n.restored = GiveBackAll(h.restored, Range(h.drafts) \cap ps)
         /\ n.armed => h.armed /\ ps \cap watched = {}
<1> DEFINE n == Reject(h, ps)
           off == h.armed /\ ps \cap watched = {}
           back == GiveBackAll(h.restored, Range(h.drafts) \cap ps)
           left == Without(h.drafts, ps)
<1>1. h.drafts \in Seq(Prompts) /\ h.restored \in [Prompts -> Nat]
  BY DEF Handlings
<1>2. back \in [Prompts -> Nat] /\ left \in Seq(Prompts) /\ off \in BOOLEAN
  BY <1>1, GiveBackTypes, WithoutFacts
<1>3. n = [h EXCEPT !.pending = @ \ ps, !.armed = off, !.restored = back, !.drafts = left]
  BY DEF Reject
<1>4. off => h.armed /\ ps \cap watched = {}
  OBVIOUS
<1> HIDE DEF n, off, back, left
<1>5. /\ n \in Handlings /\ n.pending = h.pending \ ps /\ n.up = h.up /\ n.swept = h.swept
      /\ n.drafts = left /\ n.restored = back /\ n.armed = off
  BY <1>2, <1>3 DEF Handlings
<1>6. Keeps(h, n)
  BY <1>5, KeepsRejected DEF left, back
<1>7. QED
  BY <1>4, <1>5, <1>6 DEF n, left, back

\* What answers and refusals make of the stages.
LEMMA StageAfterFacts ==
  ASSUME DeliveryTypeOK, NEW answers, NEW refused
  PROVE  /\ StageAfter(answers, refused) \in [Prompts -> Stages]
         /\ \A p \in Prompts :
              \/ StageAfter(answers, refused)[p] \in {"refused", "taken"}
                 /\ (p \in refused \/ \E i \in DOMAIN answers : answers[i].id = p)
              \/ StageAfter(answers, refused)[p] = stage[p]
                 /\ p \notin refused /\ ~\E i \in DOMAIN answers : answers[i].id = p
BY DEF StageAfter, DeliveryTypeOK, Stages

\* The stages of a prompt that has no place yet.
Early == {"unsent", "preparing"}

\* A step that moves drafts, or adds the first place of a prompt.
LEMMA PlacesMoved ==
  ASSUME DeliveryTypeOK, PlacesKept, NEW h \in Handlings, NEW m \in Handlings, Keeps(h, m),
         OneDraft(h.drafts), h.swept = swept,
         drafts' = m.drafts, restored' = m.restored, swept' = m.swept,
         UNCHANGED <<draining, finished, dropped>>,
         \A q \in Prompts :
           \/ Places(h, q) = Places(Handling, q) /\ (stage'[q] \in Early <=> stage[q] \in Early)
           \/ stage[q] \in Early /\ stage'[q] \notin Early /\ Places(h, q) = 1
  PROVE  PlacesKept'
<1> DEFINE D(q) == IF draining # <<>> /\ q \in Range(draining[1]) THEN 1 ELSE 0
<1>1. \A q : D(q) \in {0, 1}
  OBVIOUS
<1>2. ASSUME NEW q \in Prompts
      PROVE  /\ InPlaces(q) = Places(Handling, q) + D(q)
             /\ InPlaces(q)' = Places(m, q) + D(q)
             /\ Places(m, q) \in Nat /\ Places(h, q) \in Nat /\ Places(Handling, q) \in Nat
             /\ restored[q] \in Nat /\ restored'[q] \in Nat /\ restored'[q] <= Places(m, q)
  <2>1. /\ m.restored[q] \in Nat /\ restored[q] \in Nat /\ h.restored[q] \in Nat
        /\ restored'[q] = m.restored[q]
    BY DEF Handlings, DeliveryTypeOK
  <2>2. Handling.drafts = drafts /\ Handling.restored = restored
    BY HandlingFields
  <2>3. /\ InPlaces(q) = Places(Handling, q) + D(q)
        /\ Places(Handling, q) \in Nat
    BY <2>1, <2>2 DEF InPlaces, Places
  <2>4. InPlaces(q)' = Places(m, q) + D(q) /\ Places(m, q) \in Nat /\ restored'[q] <= Places(m, q)
    <3>1. D(q) = IF draining' # <<>> /\ q \in Range(draining'[1]) THEN 1 ELSE 0
      OBVIOUS
    <3>2. drafts' = m.drafts
      OBVIOUS
    <3>3. InPlaces(q)' = (IF q \in Range(m.drafts) THEN 1 ELSE 0) + D(q) + m.restored[q]
      BY <2>1, <3>1, <3>2 DEF InPlaces
    <3> HIDE DEF D
    <3>4. QED
      BY <1>1, <2>1, <3>3 DEF Places
  <2>5. Places(h, q) \in Nat
    BY <2>1 DEF Places
  <2>6. QED
    BY <2>1, <2>3, <2>4, <2>5
<1>3. OneDraft(drafts)'
  BY DEF Keeps, OneDraft
<1>4. ASSUME NEW q \in Prompts
      PROVE  /\ InPlaces(q)' <= 1
             /\ stage'[q] \in Early => InPlaces(q)' = 0 /\ q \notin dropped'
             /\ restored'[q] <= 1
             /\ stage'[q] \notin Early /\ q \notin finished' \cup swept'
                  => InPlaces(q)' = IF q \in dropped' THEN 0 ELSE 1
  <2>1. /\ Places(m, q) <= Places(h, q)
        /\ q \notin finished' \cup swept' => Places(m, q) = Places(h, q)
    BY DEF Keeps
  <2>2. q \notin finished' \cup swept' => q \notin finished \cup swept
    BY DEF Keeps
  <2>3. /\ InPlaces(q) <= 1
        /\ stage[q] \in Early => InPlaces(q) = 0 /\ q \notin dropped
        /\ stage[q] \notin Early /\ q \notin finished \cup swept
             => InPlaces(q) = IF q \in dropped THEN 0 ELSE 1
        /\ dropped' = dropped
    BY DEF PlacesKept, PromptKept, Early
  <2> HIDE DEF D
  <2>4. CASE /\ Places(h, q) = Places(Handling, q)
             /\ stage'[q] \in Early <=> stage[q] \in Early
    BY <1>1, <1>2, <2>1, <2>2, <2>3, <2>4
  <2>5. CASE stage[q] \in Early /\ stage'[q] \notin Early /\ Places(h, q) = 1
    BY <1>1, <1>2, <2>1, <2>2, <2>3, <2>5
  <2>6. QED
    BY <2>4, <2>5
<1>5. QED
  BY <1>3, <1>4 DEF PlacesKept, PromptKept, Early

\* A step of the host that sends nothing leaves the answers as they are.
LEMMA AnswersHost ==
  ASSUME AnsweredOnce, UNCHANGED cmds, WholeUnder(pipe)' \subseteq WholeUnder(pipe),
         \A q \in Prompts : stage[q] \notin Early \cup {"announcing"}
                            => stage'[q] \notin Early \cup {"announcing"}
  PROVE  AnsweredOnce'
<1>1. ASSUME NEW p \in Prompts, p \in Range(cmds)', NEW f \in WholeUnder(pipe)'
      PROVE  ~Answers(f, p)
  BY <1>1 DEF AnsweredOnce
<1>2. ASSUME NEW p \in Prompts,
             p \in Range(cmds)' \/ \E f \in WholeUnder(pipe)' : Answers(f, p)
      PROVE  stage'[p] \notin {"unsent", "preparing", "announcing"}
  <2>1. stage[p] \notin Early \cup {"announcing"}
    BY <1>2 DEF AnsweredOnce, Early
  <2>2. QED
    BY <2>1 DEF Early
<1>3. ASSUME NEW p \in Prompts, NEW f \in WholeUnder(pipe)', NEW g \in WholeUnder(pipe)',
             Answers(f, p), Answers(g, p)
      PROVE  f = g
  BY <1>3 DEF AnsweredOnce
<1>4. \A i, j \in DOMAIN cmds' : cmds'[i] = cmds'[j] /\ cmds'[i] \in Prompts => i = j
  BY DEF AnsweredOnce
<1>5. QED
  BY <1>1, <1>2, <1>3, <1>4 DEF AnsweredOnce

\* Lines the host has read are no longer under way.
LEMMA PipeShorter ==
  ASSUME PipeTrue, WholeUnder(pipe)' \subseteq WholeUnder(pipe),
         Carried(pipe', "chunk") \subseteq Carried(pipe, "chunk"), UNCHANGED finished
  PROVE  PipeTrue'
<1>1. \A f : ToldTruly(f) => ToldTruly(f)'
  BY DEF ToldTruly
<1>2. QED
  BY <1>1 DEF PipeTrue

\* What a prompt has before it has a draft.
LEMMA NoPlaceYet ==
  ASSUME DeliveryTypeOK, PlacesKept, NEW p \in Prompts, stage[p] \in Early
  PROVE  /\ p \notin Range(drafts) /\ restored[p] = 0
         /\ Places(Handling, p) = 0
<1>1. InPlaces(p) = 0 /\ restored[p] \in Nat
  BY DEF PlacesKept, Early, DeliveryTypeOK
<1>2. Handling.drafts = drafts /\ Handling.restored = restored
  BY HandlingFields
<1>3. QED
  BY <1>1, <1>2 DEF InPlaces, Places

\* A prompt that is given back and never sent.
LEMMA RefusedPlaces ==
  ASSUME DeliveryTypeOK, PlacesKept, NEW p \in Prompts, stage[p] \in Early, Refuse(p),
         UNCHANGED <<drafts, draining, finished, swept, dropped>>
  PROVE  /\ PlacesKept' /\ restored' \in [Prompts -> Nat] /\ stage' \in [Prompts -> Stages]
         /\ \A q \in Prompts : q # p => stage'[q] = stage[q]
         /\ stage'[p] = "refused"
<1>1. /\ restored' = [restored EXCEPT ![p] = @ + 1]
      /\ stage' = [stage EXCEPT ![p] = "refused"]
  BY DEF Refuse
<1>2. restored \in [Prompts -> Nat] /\ stage \in [Prompts -> Stages]
  BY DEF DeliveryTypeOK
<1>3. /\ restored' \in [Prompts -> Nat] /\ stage' \in [Prompts -> Stages]
      /\ \A q \in Prompts : q # p => stage'[q] = stage[q] /\ restored'[q] = restored[q]
      /\ stage'[p] = "refused" /\ restored'[p] = restored[p] + 1
  BY <1>1, <1>2 DEF Stages
<1> DEFINE h == [Handling EXCEPT !.restored = restored']
<1>4. /\ Handling \in Handlings /\ Handling.drafts = drafts
      /\ Handling.restored = restored /\ Handling.swept = swept
  BY HandlingFields
<1>5. h \in Handlings /\ h.drafts = drafts /\ h.restored = restored' /\ h.swept = swept
  BY <1>3, <1>4 DEF Handlings
<1> HIDE DEF h
<1>6. Keeps(h, h)
  BY <1>5, KeepsSame
<1>7. Places(h, p) = 1
  BY <1>3, <1>5, NoPlaceYet DEF Places
<1>8. \A q \in Prompts : q # p => Places(h, q) = Places(Handling, q)
  BY <1>3, <1>4, <1>5 DEF Places
<1>9. OneDraft(h.drafts)
  BY <1>5 DEF PlacesKept
<1>10. \A q \in Prompts :
         \/ Places(h, q) = Places(Handling, q) /\ (stage'[q] \in Early <=> stage[q] \in Early)
         \/ stage[q] \in Early /\ stage'[q] \notin Early /\ Places(h, q) = 1
  BY <1>3, <1>7, <1>8 DEF Early
<1>11. drafts' = h.drafts /\ restored' = h.restored /\ swept' = h.swept
  BY <1>5
<1>12. PlacesKept'
  BY <1>5, <1>6, <1>9, <1>10, <1>11, PlacesMoved
<1>13. QED
  BY <1>3, <1>12

\* A prompt is submitted.
LEMMA SubmitStep ==
  ASSUME IInv, NEW p \in Prompts, Submit(p)
  PROVE  IInv'
<1>1. /\ DeliveryTypeOK /\ PipeTrue /\ PlacesKept /\ AnsweredOnce /\ ArmedForWork
      /\ stage[p] = "unsent"
      /\ UNCHANGED <<ompVars, wireVars, pending, up, failed, watched, drafts, draining,
                     stale, streaming, armed, aborting, countVars, finished, swept, unread,
                     inOrder>>
  BY DEF IInv, Submit
<1>2. UNCHANGED <<turn, silent, followUps, cmds, running, pipe, decoder, owns, soiled, restarts,
                  broken, dropped>>
  BY <1>1 DEF ompVars, wireVars, countVars
<1>3. /\ PlacesKept' /\ restored' \in [Prompts -> Nat] /\ stage' \in [Prompts -> Stages]
      /\ \A q \in Prompts : q # p => stage'[q] = stage[q]
      /\ stage'[p] \in {"preparing", "refused"}
  <2>1. CASE Refuse(p)
    BY <1>1, <1>2, <2>1, RefusedPlaces DEF Early
  <2>2. CASE stage' = [stage EXCEPT ![p] = "preparing"] /\ UNCHANGED restored
    <3>1. /\ stage \in [Prompts -> Stages] /\ restored \in [Prompts -> Nat]
          /\ Handling \in Handlings
          /\ Handling.drafts = drafts /\ Handling.restored = restored /\ Handling.swept = swept
      BY <1>1, HandlingFields DEF DeliveryTypeOK
    <3>2. /\ stage' \in [Prompts -> Stages] /\ stage'[p] = "preparing"
          /\ \A q \in Prompts : q # p => stage'[q] = stage[q]
      BY <2>2, <3>1 DEF Stages
    <3>3. Keeps(Handling, Handling)
      BY <3>1, KeepsSame
    <3>4. \A q \in Prompts : stage'[q] \in Early <=> stage[q] \in Early
      BY <1>1, <3>2 DEF Early
    <3>5. OneDraft(Handling.drafts)
      BY <1>1, <3>1 DEF PlacesKept
    <3>6. /\ drafts' = Handling.drafts /\ restored' = Handling.restored
          /\ swept' = Handling.swept
      BY <1>1, <2>2, <3>1
    <3>7. PlacesKept'
      BY <1>1, <1>2, <3>1, <3>3, <3>4, <3>5, <3>6, PlacesMoved
    <3>8. QED
      BY <2>2, <3>1, <3>2, <3>7
  <2>3. QED
    BY <1>1, <2>1, <2>2 DEF Submit
<1>4. DeliveryTypeOK'
  <2>1. pending' \subseteq {q \in Prompts : stage'[q] = "requested"}
    BY <1>1, <1>3 DEF DeliveryTypeOK
  <2>2. QED
    BY <1>1, <1>2, <1>3, <2>1 DEF DeliveryTypeOK
<1>5. PipeTrue'
  BY <1>1, <1>2, PipeShorter
<1>6. AnsweredOnce'
  BY <1>1, <1>2, <1>3, AnswersHost DEF Early
<1>7. ArmedForWork'
  <2>1. \A f : Clears(f)' <=> Clears(f)
    BY <1>1 DEF Clears
  <2>2. \A q \in Prompts : stage'[q] = "announcing" => stage[q] = "announcing"
    BY <1>3
  <2>3. QED
    BY <1>1, <1>2, <2>1, <2>2 DEF ArmedForWork
<1>8. QED
  BY <1>3, <1>4, <1>5, <1>6, <1>7 DEF IInv

\* A request times out: its draft is given back.
LEMMA TimesOutStep ==
  ASSUME IInv, NEW p \in Prompts, TimesOut(p)
  PROVE  IInv'
<1> DEFINE ps == {p}
           m == Reject(Handling, ps)
<1>0. ps \in SUBSET Prompts
  OBVIOUS
<1>1. /\ DeliveryTypeOK /\ PipeTrue /\ PlacesKept /\ AnsweredOnce /\ ArmedForWork
      /\ p \in pending /\ Become(m) /\ stage' = StageAfter(<<>>, {p})
      /\ UNCHANGED <<ompVars, wireVars, failed, watched, draining, stale, aborting,
                     countVars, finished, unread, inOrder>>
  BY DEF IInv, TimesOut
<1>2. UNCHANGED <<turn, silent, followUps, cmds, running, pipe, decoder, owns, soiled, restarts,
                  broken, dropped>>
  BY <1>1 DEF ompVars, wireVars, countVars
<1>3. /\ Handling \in Handlings
      /\ Handling.pending = pending /\ Handling.drafts = drafts
      /\ Handling.restored = restored /\ Handling.swept = swept
      /\ Handling.armed = armed /\ Handling.up = up
  BY <1>1, HandlingFields
<1>4. /\ m \in Handlings /\ Keeps(Handling, m)
      /\ m.pending = pending \ {p} /\ m.up = up /\ m.swept = swept
      /\ m.armed => armed /\ {p} \cap watched = {}
  <2> HIDE DEF ps
  <2>1. /\ m \in Handlings /\ Keeps(Handling, m)
        /\ m.pending = pending \ ps /\ m.up = up /\ m.swept = swept
        /\ m.armed => armed /\ ps \cap watched = {}
    BY <1>0, <1>3, RejectFacts
  <2>2. QED
    BY <2>1 DEF ps
<1> HIDE DEF m
<1>5. /\ pending' = pending \ {p} /\ drafts' = m.drafts /\ restored' = m.restored
      /\ swept' = m.swept /\ streaming' = m.streaming /\ armed' = m.armed /\ up' = up
  BY <1>1, <1>4 DEF Become
<1>6. /\ stage' \in [Prompts -> Stages] /\ stage[p] = "requested"
      /\ \A q \in Prompts : q # p => stage'[q] = stage[q]
      /\ stage'[p] \in {"refused", "taken"}
  <2>1. stage' \in [Prompts -> Stages]
    BY <1>1, StageAfterFacts
  <2>2. stage[p] = "requested"
    BY <1>1 DEF DeliveryTypeOK
  <2>3. \A q \in Prompts :
          \/ stage'[q] \in {"refused", "taken"} /\ q \in {p}
          \/ stage'[q] = stage[q] /\ q \notin {p}
    BY <1>1, StageAfterFacts
  <2>4. QED
    BY <2>1, <2>2, <2>3
<1>7. DeliveryTypeOK'
  <2>1. pending' \subseteq {q \in Prompts : stage'[q] = "requested"}
    BY <1>1, <1>5, <1>6 DEF DeliveryTypeOK
  <2>2. /\ drafts' \in Seq(Prompts) /\ restored' \in [Prompts -> Nat]
        /\ swept' \subseteq Prompts /\ streaming' \in BOOLEAN /\ armed' \in BOOLEAN
        /\ up' \in BOOLEAN
    BY <1>1, <1>4, <1>5 DEF Handlings, DeliveryTypeOK
  <2>3. QED
    BY <1>1, <1>2, <1>6, <2>1, <2>2 DEF DeliveryTypeOK
<1>8. PipeTrue'
  BY <1>1, <1>2, PipeShorter
<1>9. PlacesKept'
  <2>1. OneDraft(Handling.drafts)
    BY <1>1, <1>3 DEF PlacesKept
  <2>2. \A q \in Prompts : stage'[q] \in Early <=> stage[q] \in Early
    BY <1>6 DEF Early
  <2>3. QED
    BY <1>1, <1>2, <1>3, <1>4, <1>5, <2>1, <2>2, PlacesMoved
<1>10. AnsweredOnce'
  BY <1>1, <1>2, <1>6, AnswersHost DEF Early
<1>11. ArmedForWork'
  <2>1. \A q \in Prompts : stage'[q] = "announcing" => stage[q] = "announcing"
    BY <1>6
  <2>2. armed' => armed /\ p \notin watched
    BY <1>4, <1>5
  <2>3. p \notin watched => \A f : Clears(f) => Clears(f)'
    BY <1>1, <1>5 DEF Clears
  <2>4. p \notin watched => pending \cap watched = pending' \cap watched'
    BY <1>1, <1>5
  <2>5. QED
    BY <1>1, <1>2, <1>5, <2>1, <2>2, <2>3, <2>4 DEF ArmedForWork
<1>12. QED
  BY <1>7, <1>8, <1>9, <1>10, <1>11 DEF IInv

\* The timeout of the end of a turn fires.
LEMMA TimerFiresStep ==
  ASSUME IInv, TimerFires
  PROVE  IInv'
<1>1. /\ DeliveryTypeOK /\ PipeTrue /\ PlacesKept /\ AnsweredOnce /\ ArmedForWork
      /\ armed' = FALSE /\ aborting' = (up /\ running)
      /\ UNCHANGED <<ompVars, wireVars, pending, up, failed, stage, watched, drafts, draining,
                     stale, streaming, countVars, proofVars>>
  BY DEF IInv, TimerFires
<1>2. UNCHANGED <<turn, silent, followUps, cmds, running, pipe, decoder, owns, soiled, restarts,
                  broken, dropped,
                  restored, finished, swept, unread, inOrder>>
  BY <1>1 DEF ompVars, wireVars, countVars, proofVars
<1>3. DeliveryTypeOK'
  BY <1>1, <1>2 DEF DeliveryTypeOK
<1>4. PipeTrue'
  BY <1>1, <1>2, PipeShorter
<1>5. PlacesKept'
  BY <1>1, <1>2, PlacesStand
<1>6. AnsweredOnce'
  BY <1>1, <1>2, AnswersHost
<1>7. ArmedForWork'
  BY <1>1, <1>2 DEF ArmedForWork
<1>8. QED
  BY <1>3, <1>4, <1>5, <1>6, <1>7 DEF IInv

\* A command more, at the end.
LEMMA CommandAppended ==
  ASSUME DeliveryTypeOK, AnsweredOnce, NEW c \in Prompts \cup {Abort}
  PROVE  /\ Append(cmds, c) \in Seq(Prompts \cup {Abort})
         /\ Range(Append(cmds, c)) = Range(cmds) \cup {c}
         /\ c \notin Range(cmds) \cap Prompts =>
              \A i, j \in DOMAIN Append(cmds, c) :
                Append(cmds, c)[i] = Append(cmds, c)[j] /\ Append(cmds, c)[i] \in Prompts
                => i = j
<1> DEFINE t == Append(cmds, c)
           n == Len(cmds)
<1>1. /\ cmds \in Seq(Prompts \cup {Abort}) /\ n \in Nat /\ DOMAIN cmds = 1..n
  BY DEF DeliveryTypeOK
<1>2. /\ t \in Seq(Prompts \cup {Abort}) /\ DOMAIN t = 1..(n + 1) /\ t[n + 1] = c
      /\ \A i \in 1..n : t[i] = cmds[i]
  BY <1>1
<1>3. Range(t) = Range(cmds) \cup {c}
  BY <1>1, RangeAppend
<1> HIDE DEF t, n
<1>4. \A i \in 1..(n + 1) : i = n + 1 \/ i \in 1..n
  BY <1>1
<1>5. \A i, j \in 1..n : cmds[i] = cmds[j] /\ cmds[i] \in Prompts => i = j
  BY <1>1 DEF AnsweredOnce
<1>6. \A i \in 1..n : cmds[i] \in Range(cmds)
  BY <1>1 DEF Range
<1>7. ASSUME c \notin Range(cmds) \cap Prompts, NEW i \in 1..(n + 1), NEW j \in 1..(n + 1),
             t[i] = t[j], t[i] \in Prompts
      PROVE  i = j
  BY <1>2, <1>4, <1>5, <1>6, <1>7
<1>8. QED
  BY <1>2, <1>3, <1>7 DEF t

\* The abort is sent, to the runtime that is there by then.
LEMMA AbortSentStep ==
  ASSUME IInv, AbortSent
  PROVE  IInv'
<1>1. /\ DeliveryTypeOK /\ PipeTrue /\ PlacesKept /\ AnsweredOnce /\ ArmedForWork
      /\ aborting' = FALSE /\ stale' = stale \ {Abort}
      /\ cmds' = cmds \/ cmds' = Append(cmds, Abort)
      /\ UNCHANGED <<turn, silent, followUps, wireVars, pending, up, failed, stage, watched,
                     drafts, draining, streaming, armed, countVars, proofVars>>
  BY DEF IInv, AbortSent
<1>2. UNCHANGED <<running, pipe, decoder, owns, soiled, restarts, broken, dropped, restored,
                  finished, swept,
                  unread, inOrder>>
  BY <1>1 DEF wireVars, countVars, proofVars
<1>3. /\ Append(cmds, Abort) \in Seq(Prompts \cup {Abort})
      /\ Range(Append(cmds, Abort)) = Range(cmds) \cup {Abort}
      /\ \A i, j \in DOMAIN Append(cmds, Abort) :
           Append(cmds, Abort)[i] = Append(cmds, Abort)[j] /\ Append(cmds, Abort)[i] \in Prompts
           => i = j
  BY <1>1, CommandAppended, DeliveryAssumption
<1>4. /\ cmds' \in Seq(Prompts \cup {Abort})
      /\ Range(cmds)' \cap Prompts = Range(cmds) \cap Prompts
      /\ \A i, j \in DOMAIN cmds' : cmds'[i] = cmds'[j] /\ cmds'[i] \in Prompts => i = j
  <2>1. CASE cmds' = cmds
    BY <1>1, <2>1 DEF DeliveryTypeOK, AnsweredOnce
  <2>2. CASE cmds' = Append(cmds, Abort)
    BY <1>3, <2>2, DeliveryAssumption
  <2>3. QED
    BY <1>1, <2>1, <2>2
<1>5. DeliveryTypeOK'
  BY <1>1, <1>2, <1>4 DEF DeliveryTypeOK
<1>6. PipeTrue'
  BY <1>1, <1>2, PipeShorter
<1>7. PlacesKept'
  BY <1>1, <1>2, PlacesStand
<1>8. AnsweredOnce'
  <2>1. WholeUnder(pipe)' = WholeUnder(pipe) /\ stage' = stage
    BY <1>1, <1>2
  <2>2. \A p \in Prompts : p \in Range(cmds)' <=> p \in Range(cmds)
    BY <1>4
  <2>3. QED
    BY <1>1, <1>4, <2>1, <2>2 DEF AnsweredOnce
<1>9. ArmedForWork'
  <2>1. \A f : Clears(f)' <=> Clears(f)
    BY <1>1 DEF Clears
  <2>2. pending \subseteq Prompts
    BY <1>1 DEF DeliveryTypeOK
  <2>3. Range(cmds)' \cap pending' \cap watched' = Range(cmds) \cap pending \cap watched
    BY <1>1, <1>4, <2>2
  <2>4. \A p \in Prompts : p \in stale => p \in stale'
    BY <1>1, DeliveryAssumption
  <2>5. QED
    BY <1>1, <1>2, <2>1, <2>3, <2>4 DEF ArmedForWork
<1>10. QED
  BY <1>5, <1>6, <1>7, <1>8, <1>9 DEF IInv

\* The request of a prompt that has its draft: it is sent, or rejected at once.
LEMMA RequestFacts ==
  ASSUME IInv, NEW p \in Prompts, NEW h \in Handlings, Request(p, h),
         stage[p] \in {"preparing", "announcing"}, h.pending = pending, h.swept = swept,
         h.up = up, OneDraft(h.drafts),
         \A q \in Prompts :
           \/ Places(h, q) = Places(Handling, q) /\ (q = p => stage[p] = "announcing")
           \/ q = p /\ stage[p] = "preparing" /\ Places(h, p) = 1,
         UNCHANGED <<turn, silent, followUps, wireVars, failed, draining, stale, aborting,
                     countVars, finished, unread, inOrder>>,
         watched' = watched
  PROVE  /\ DeliveryTypeOK' /\ PipeTrue' /\ PlacesKept' /\ AnsweredOnce'
         /\ up' = up
         /\ \A q \in Prompts : stage'[q] = "announcing" => stage[q] = "announcing" /\ q # p
         /\ \/ /\ running /\ ~failed /\ p \notin stale
               /\ pending' = pending \cup {p} /\ armed' = h.armed
               /\ Range(cmds)' = Range(cmds) \cup {p}
            \/ /\ ~(running /\ ~failed /\ p \notin stale)
               /\ armed' => h.armed /\ p \notin watched
<1>1. /\ DeliveryTypeOK /\ PipeTrue /\ PlacesKept /\ AnsweredOnce
      /\ stage \in [Prompts -> Stages] /\ pending \subseteq Prompts
  BY DEF IInv, DeliveryTypeOK
<1>2. UNCHANGED <<running, pipe, decoder, owns, soiled, restarts, broken, dropped>>
  BY DEF wireVars, countVars
<1>3. PipeTrue'
  BY <1>1, <1>2, PipeShorter
<1>4. \A q \in Prompts :
        stage[p] \in {"preparing", "announcing"} /\ q = p
        => q \notin Range(cmds) /\ \A f \in WholeUnder(pipe) : ~Answers(f, q)
  BY <1>1 DEF AnsweredOnce
<1>5. CASE running /\ ~failed /\ p \notin stale
  <2> DEFINE m == [h EXCEPT !.pending = @ \cup {p}]
  <2>1. /\ cmds' = Append(cmds, p) /\ Become(m) /\ stage' = [stage EXCEPT ![p] = "requested"]
    BY <1>5 DEF Request
  <2>2. /\ m \in Handlings /\ m.pending = pending \cup {p} /\ m.drafts = h.drafts
        /\ m.restored = h.restored /\ m.swept = swept /\ m.armed = h.armed /\ m.up = up
    <3>1. pending \cup {p} \in SUBSET Prompts
      BY <1>1
    <3>2. QED
      BY <3>1 DEF Handlings
  <2> HIDE DEF m
  <2>3. /\ pending' = pending \cup {p} /\ drafts' = m.drafts /\ restored' = m.restored
        /\ swept' = m.swept /\ streaming' = m.streaming /\ armed' = h.armed /\ up' = up
    BY <2>1, <2>2 DEF Become
  <2>4. /\ stage' \in [Prompts -> Stages] /\ stage'[p] = "requested"
        /\ \A q \in Prompts : q # p => stage'[q] = stage[q]
    BY <1>1, <2>1 DEF Stages
  <2>5. /\ cmds' \in Seq(Prompts \cup {Abort})
        /\ Range(cmds)' = Range(cmds) \cup {p}
        /\ \A i, j \in DOMAIN cmds' : cmds'[i] = cmds'[j] /\ cmds'[i] \in Prompts => i = j
    BY <1>1, <1>4, <2>1, CommandAppended
  <2>6. DeliveryTypeOK'
    <3>1. pending' \subseteq {q \in Prompts : stage'[q] = "requested"}
      BY <1>1, <2>3, <2>4 DEF DeliveryTypeOK
    <3>2. /\ drafts' \in Seq(Prompts) /\ restored' \in [Prompts -> Nat]
          /\ swept' \subseteq Prompts /\ streaming' \in BOOLEAN /\ armed' \in BOOLEAN
          /\ up' \in BOOLEAN
      BY <1>1, <2>2, <2>3 DEF Handlings, DeliveryTypeOK
    <3>3. QED
      BY <1>1, <1>2, <2>4, <2>5, <3>1, <3>2 DEF DeliveryTypeOK
  <2>7. PlacesKept'
    <3>1. Keeps(h, m)
      BY <2>2, KeepsSame
    <3>2. \A q \in Prompts :
            \/ Places(h, q) = Places(Handling, q) /\ (stage'[q] \in Early <=> stage[q] \in Early)
            \/ stage[q] \in Early /\ stage'[q] \notin Early /\ Places(h, q) = 1
      BY <2>4 DEF Early
    <3>3. QED
      BY <1>1, <1>2, <2>2, <2>3, <3>1, <3>2, PlacesMoved
  <2>8. AnsweredOnce'
    <3>1. WholeUnder(pipe)' = WholeUnder(pipe)
      BY <1>2
    <3>2. ASSUME NEW q \in Prompts
          PROVE  /\ q \in Range(cmds)' => \A f \in WholeUnder(pipe)' : ~Answers(f, q)
                 /\ q \in Range(cmds)' \/ (\E f \in WholeUnder(pipe)' : Answers(f, q))
                      => stage'[q] \notin {"unsent", "preparing", "announcing"}
                 /\ \A f, g \in WholeUnder(pipe)' : Answers(f, q) /\ Answers(g, q) => f = g
      <4>1. CASE q = p
        BY <1>4, <2>4, <3>1, <4>1
      <4>2. CASE q # p
        BY <1>1, <2>4, <2>5, <3>1, <4>2 DEF AnsweredOnce
      <4>3. QED
        BY <4>1, <4>2
    <3>3. QED
      BY <2>5, <3>2 DEF AnsweredOnce
  <2>9. \A q \in Prompts : stage'[q] = "announcing" => stage[q] = "announcing" /\ q # p
    BY <2>4
  <2>10. QED
    BY <1>3, <1>5, <2>3, <2>5, <2>6, <2>7, <2>8, <2>9
<1>6. CASE ~(running /\ ~failed /\ p \notin stale)
  <2> DEFINE ps == {p}
             m == Reject(h, ps)
  <2>1. /\ cmds' = cmds /\ Become(m) /\ stage' = [stage EXCEPT ![p] = "refused"]
    BY <1>6 DEF Request
  <2>2. ps \in SUBSET Prompts
    OBVIOUS
  <2>3. /\ m \in Handlings /\ Keeps(h, m)
        /\ m.pending = pending \ {p} /\ m.up = up /\ m.swept = swept
        /\ m.armed => h.armed /\ p \notin watched
    <3> HIDE DEF ps
    <3>1. /\ m \in Handlings /\ Keeps(h, m)
          /\ m.pending = pending \ ps /\ m.up = up /\ m.swept = swept
          /\ m.armed => h.armed /\ ps \cap watched = {}
      BY <2>2, RejectFacts
    <3>2. QED
      BY <3>1 DEF ps
  <2> HIDE DEF m, ps
  <2>4. /\ pending' = pending \ {p} /\ drafts' = m.drafts /\ restored' = m.restored
        /\ swept' = m.swept /\ streaming' = m.streaming /\ armed' = m.armed /\ up' = up
    BY <2>1, <2>3 DEF Become
  <2>5. /\ stage' \in [Prompts -> Stages] /\ stage'[p] = "refused"
        /\ \A q \in Prompts : q # p => stage'[q] = stage[q]
    BY <1>1, <2>1 DEF Stages
  <2>6. DeliveryTypeOK'
    <3>1. pending' \subseteq {q \in Prompts : stage'[q] = "requested"}
      BY <1>1, <2>4, <2>5 DEF DeliveryTypeOK
    <3>2. /\ drafts' \in Seq(Prompts) /\ restored' \in [Prompts -> Nat]
          /\ swept' \subseteq Prompts /\ streaming' \in BOOLEAN /\ armed' \in BOOLEAN
          /\ up' \in BOOLEAN
      BY <1>1, <2>3, <2>4 DEF Handlings, DeliveryTypeOK
    <3>3. QED
      BY <1>1, <1>2, <2>1, <2>5, <3>1, <3>2 DEF DeliveryTypeOK
  <2>7. PlacesKept'
    <3>1. \A q \in Prompts :
            \/ Places(h, q) = Places(Handling, q) /\ (stage'[q] \in Early <=> stage[q] \in Early)
            \/ stage[q] \in Early /\ stage'[q] \notin Early /\ Places(h, q) = 1
      BY <2>5 DEF Early
    <3>2. QED
      BY <1>1, <1>2, <2>3, <2>4, <3>1, PlacesMoved
  <2>8. AnsweredOnce'
    <3>1. \A q \in Prompts : stage[q] \notin Early \cup {"announcing"}
                              => stage'[q] \notin Early \cup {"announcing"}
      BY <2>5 DEF Early
    <3>2. QED
      BY <1>1, <1>2, <2>1, <3>1, AnswersHost
  <2>9. \A q \in Prompts : stage'[q] = "announcing" => stage[q] = "announcing" /\ q # p
    BY <2>5
  <2>10. armed' => h.armed /\ p \notin watched
    BY <2>3, <2>4
  <2>11. QED
    BY <1>3, <1>6, <2>4, <2>6, <2>7, <2>8, <2>9, <2>10
<1>7. QED
  BY <1>5, <1>6

\* A prompt that was announced is sent.
LEMMA AnnouncedStep ==
  ASSUME IInv, NEW p \in Prompts, Announced(p)
  PROVE  IInv'
<1> DEFINE h == [Handling EXCEPT !.armed = TRUE]
<1>1. /\ DeliveryTypeOK /\ PlacesKept /\ ArmedForWork
      /\ stage[p] = "announcing" /\ Request(p, h)
      /\ UNCHANGED <<turn, silent, followUps, wireVars, failed, draining, stale, aborting,
                     countVars, finished, unread, inOrder>>
      /\ watched' = watched
  BY DEF IInv, Announced
<1>2. /\ Handling \in Handlings /\ Handling.drafts = drafts
      /\ Handling.restored = restored /\ Handling.swept = swept
      /\ Handling.pending = pending /\ Handling.up = up
  BY <1>1, HandlingFields
<1>3. /\ h \in Handlings /\ h.pending = pending /\ h.swept = swept /\ h.up = up
      /\ h.drafts = drafts /\ h.restored = restored
  BY <1>2 DEF Handlings
<1>4. h.armed
  BY <1>2 DEF Handlings
<1> HIDE DEF h
<1>5. \A q \in Prompts : Places(h, q) = Places(Handling, q)
  BY <1>2, <1>3 DEF Places
<1>6. OneDraft(h.drafts)
  BY <1>1, <1>3 DEF PlacesKept
<1>7. /\ DeliveryTypeOK' /\ PipeTrue' /\ PlacesKept' /\ AnsweredOnce'
      /\ up' = up
      /\ \A q \in Prompts : stage'[q] = "announcing" => stage[q] = "announcing" /\ q # p
      /\ \/ /\ running /\ ~failed /\ p \notin stale
            /\ pending' = pending \cup {p} /\ armed' = h.armed
            /\ Range(cmds)' = Range(cmds) \cup {p}
         \/ /\ ~(running /\ ~failed /\ p \notin stale)
            /\ armed' => h.armed /\ p \notin watched
  BY <1>1, <1>3, <1>5, <1>6, RequestFacts
<1>8. ArmedForWork'
  <2>1. p \in watched /\ (p \in stale \/ up)
    BY <1>1 DEF ArmedForWork
  <2>2. UNCHANGED <<running, pipe, stale, failed, turn>>
    BY <1>1 DEF wireVars
  <2>3. \A q \in Prompts : stage'[q] = "announcing" => q \in watched' /\ (q \in stale' \/ up')
    BY <1>1, <1>7, <2>2 DEF ArmedForWork
  <2>4. CASE /\ running /\ ~failed /\ p \notin stale
             /\ pending' = pending \cup {p}
             /\ Range(cmds)' = Range(cmds) \cup {p}
    <3>1. p \in Range(cmds)' \cap pending' \cap watched'
      BY <1>1, <2>1, <2>4
    <3>2. up'
      BY <1>7, <2>1, <2>4
    <3>3. QED
      BY <2>3, <3>1, <3>2 DEF ArmedForWork
  <2>5. CASE ~armed'
    BY <2>3, <2>5 DEF ArmedForWork
  <2>6. QED
    BY <1>7, <2>1, <2>4, <2>5
<1>9. QED
  BY <1>7, <1>8 DEF IInv

\* A prompt is prepared, and announced or sent or refused.
LEMMA PreparedStep ==
  ASSUME IInv, NEW p \in Prompts, Prepared(p)
  PROVE  IInv'
<1>1. /\ DeliveryTypeOK /\ PipeTrue /\ PlacesKept /\ AnsweredOnce /\ ArmedForWork
      /\ stage[p] = "preparing" /\ stage[p] \in Early
      /\ UNCHANGED <<turn, silent, followUps, wireVars, failed, draining, stale, aborting,
                     countVars, finished, unread, inOrder>>
  BY DEF IInv, Prepared, Early
<1>2. UNCHANGED <<running, pipe, decoder, owns, soiled, restarts, broken, dropped>>
  BY <1>1 DEF wireVars, countVars
<1>3. PipeTrue'
  BY <1>1, <1>2, PipeShorter
<1> DEFINE h == [Handling EXCEPT !.drafts = Append(@, p)]
<1>4. /\ Handling \in Handlings /\ Handling.drafts = drafts
      /\ Handling.restored = restored /\ Handling.swept = swept
      /\ Handling.pending = pending /\ Handling.up = up /\ Handling.armed = armed
      /\ drafts \in Seq(Prompts) /\ stage \in [Prompts -> Stages]
      /\ p \notin Range(drafts) /\ restored[p] = 0
  BY <1>1, HandlingFields, NoPlaceYet DEF DeliveryTypeOK
<1>5. /\ Append(drafts, p) \in Seq(Prompts)
      /\ Range(Append(drafts, p)) = Range(drafts) \cup {p}
      /\ OneDraft(Append(drafts, p))
  <2> DEFINE t == Append(drafts, p)
             n == Len(drafts)
  <2>1. /\ n \in Nat /\ DOMAIN drafts = 1..n
        /\ t \in Seq(Prompts) /\ DOMAIN t = 1..(n + 1) /\ t[n + 1] = p
        /\ \A i \in 1..n : t[i] = drafts[i]
    BY <1>4
  <2>2. Range(t) = Range(drafts) \cup {p}
    BY <1>4, RangeAppend
  <2> HIDE DEF t, n
  <2>3. \A i \in 1..(n + 1) : i = n + 1 \/ i \in 1..n
    BY <2>1
  <2>4. \A i, j \in 1..n : drafts[i] = drafts[j] => i = j
    BY <1>1, <2>1 DEF PlacesKept, OneDraft
  <2>5. \A i \in 1..n : drafts[i] # p
    BY <1>4, <2>1 DEF Range
  <2>6. ASSUME NEW i \in 1..(n + 1), NEW j \in 1..(n + 1), t[i] = t[j]
        PROVE  i = j
    BY <2>1, <2>3, <2>4, <2>5, <2>6
  <2>7. OneDraft(t)
    BY <2>1, <2>6 DEF OneDraft
  <2>8. QED
    BY <2>1, <2>2, <2>7 DEF t
<1>6. /\ h \in Handlings /\ h.pending = pending /\ h.swept = swept /\ h.up = up
      /\ h.armed = armed /\ h.drafts = Append(drafts, p) /\ h.restored = restored
  BY <1>4, <1>5 DEF Handlings
<1> HIDE DEF h
<1>7. Places(h, p) = 1 /\ \A q \in Prompts : q # p => Places(h, q) = Places(Handling, q)
  BY <1>4, <1>5, <1>6 DEF Places
<1>8. OneDraft(h.drafts)
  BY <1>5, <1>6
<1>9. CASE /\ ~(up /\ running) \/ p \in stale
           /\ Refuse(p)
           /\ UNCHANGED <<cmds, pending, watched, drafts, swept, streaming, armed, up>>
  <2>1. /\ PlacesKept' /\ restored' \in [Prompts -> Nat] /\ stage' \in [Prompts -> Stages]
        /\ \A q \in Prompts : q # p => stage'[q] = stage[q]
        /\ stage'[p] = "refused"
    BY <1>1, <1>2, <1>9, RefusedPlaces
  <2>2. DeliveryTypeOK'
    <3>1. pending' \subseteq {q \in Prompts : stage'[q] = "requested"}
      BY <1>1, <1>9, <2>1 DEF DeliveryTypeOK
    <3>2. QED
      BY <1>1, <1>2, <1>9, <2>1, <3>1 DEF DeliveryTypeOK
  <2>3. AnsweredOnce'
    BY <1>1, <1>2, <1>9, <2>1, AnswersHost DEF Early
  <2>4. ArmedForWork'
    <3>1. \A f : Clears(f)' <=> Clears(f)
      BY <1>9 DEF Clears
    <3>2. \A q \in Prompts : stage'[q] = "announcing" => stage[q] = "announcing"
      BY <2>1
    <3>3. QED
      BY <1>1, <1>2, <1>9, <3>1, <3>2 DEF ArmedForWork
  <2>5. QED
    BY <1>3, <2>1, <2>2, <2>3, <2>4 DEF IInv
<1>10. CASE /\ up /\ running /\ p \notin stale /\ ~streaming
            /\ stage' = [stage EXCEPT ![p] = "announcing"]
            /\ drafts' = Append(drafts, p)
            /\ watched' = watched \cup {p}
            /\ UNCHANGED <<cmds, pending, restored, swept, streaming, armed, up>>
  <2>1. /\ stage' \in [Prompts -> Stages] /\ stage'[p] = "announcing"
        /\ \A q \in Prompts : q # p => stage'[q] = stage[q]
    BY <1>4, <1>10 DEF Stages
  <2>2. DeliveryTypeOK'
    <3>1. pending' \subseteq {q \in Prompts : stage'[q] = "requested"}
      BY <1>1, <1>10, <2>1 DEF DeliveryTypeOK
    <3>2. drafts' \in Seq(Prompts) /\ watched' \subseteq Prompts
      BY <1>1, <1>5, <1>10 DEF DeliveryTypeOK
    <3>3. QED
      BY <1>1, <1>2, <1>10, <2>1, <3>1, <3>2 DEF DeliveryTypeOK
  <2>3. PlacesKept'
    <3>1. Keeps(h, h)
      BY <1>6, KeepsSame
    <3>2. \A q \in Prompts :
            \/ Places(h, q) = Places(Handling, q) /\ (stage'[q] \in Early <=> stage[q] \in Early)
            \/ stage[q] \in Early /\ stage'[q] \notin Early /\ Places(h, q) = 1
      BY <1>1, <1>7, <2>1 DEF Early
    <3>3. drafts' = h.drafts /\ restored' = h.restored /\ swept' = h.swept
      BY <1>6, <1>10
    <3>4. QED
      BY <1>1, <1>2, <1>6, <1>8, <3>1, <3>2, <3>3, PlacesMoved
  <2>4. AnsweredOnce'
    <3>1. \A q \in Prompts : stage[q] \notin Early \cup {"announcing"}
                              => stage'[q] \notin Early \cup {"announcing"}
      BY <1>1, <2>1 DEF Early
    <3>2. QED
      BY <1>1, <1>2, <1>10, <3>1, AnswersHost
  <2>5. ArmedForWork'
    <3>1. \A f : Clears(f) => Clears(f)'
      BY <1>10 DEF Clears
    <3>2. \A q \in Prompts :
            stage'[q] = "announcing" => q \in watched' /\ (q \in stale' \/ up')
      BY <1>1, <1>10, <2>1 DEF ArmedForWork
    <3>3. Range(cmds) \cap pending \cap watched \subseteq Range(cmds)' \cap pending' \cap watched'
      BY <1>10
    <3>4. armed' => up' \/ ~running'
      BY <1>10
    <3>5. armed' /\ up' /\ running' /\ ~failed' =>
            \/ turn' # {}
            \/ Range(cmds)' \cap pending' \cap watched' # {}
            \/ \E f \in WholeUnder(pipe)' : Clears(f)'
      <4>1. ASSUME armed', up', running', ~failed'
            PROVE  \/ turn # {}
                   \/ Range(cmds) \cap pending \cap watched # {}
                   \/ \E f \in WholeUnder(pipe) : Clears(f)
        BY <1>1, <1>2, <1>10, <4>1 DEF ArmedForWork
      <4>2. turn' = turn /\ WholeUnder(pipe)' = WholeUnder(pipe)
        BY <1>1, <1>2
      <4>3. QED
        BY <3>1, <3>3, <4>1, <4>2
    <3>6. QED
      BY <3>2, <3>4, <3>5 DEF ArmedForWork
  <2>6. QED
    BY <1>3, <2>2, <2>3, <2>4, <2>5 DEF IInv
<1>11. CASE up /\ running /\ p \notin stale /\ Request(p, h) /\ UNCHANGED watched
  <2>1. /\ DeliveryTypeOK' /\ PipeTrue' /\ PlacesKept' /\ AnsweredOnce'
        /\ up' = up
        /\ \A q \in Prompts : stage'[q] = "announcing" => stage[q] = "announcing" /\ q # p
        /\ \/ /\ running /\ ~failed /\ p \notin stale
              /\ pending' = pending \cup {p} /\ armed' = h.armed
              /\ Range(cmds)' = Range(cmds) \cup {p}
           \/ /\ ~(running /\ ~failed /\ p \notin stale)
              /\ armed' => h.armed /\ p \notin watched
    BY <1>1, <1>6, <1>7, <1>8, <1>11, RequestFacts
  <2>2. ArmedForWork'
    <3>1. \A q \in Prompts :
            stage'[q] = "announcing" => q \in watched' /\ (q \in stale' \/ up')
      BY <1>1, <1>11, <2>1 DEF ArmedForWork
    <3>2. armed' => up' \/ ~running'
      BY <1>11, <2>1
    <3>3. ASSUME armed', up', running', ~failed'
          PROVE  \/ turn' # {}
                 \/ Range(cmds)' \cap pending' \cap watched' # {}
                 \/ \E f \in WholeUnder(pipe)' : Clears(f)'
      <4>1. /\ pending \subseteq pending' /\ armed /\ Range(cmds) \subseteq Range(cmds)'
        BY <1>1, <1>2, <1>6, <1>11, <2>1, <3>3
      <4>2. \/ turn # {}
            \/ Range(cmds) \cap pending \cap watched # {}
            \/ \E f \in WholeUnder(pipe) : Clears(f)
        BY <1>1, <1>2, <1>11, <3>3, <4>1 DEF ArmedForWork
      <4>3. \A f : Clears(f) => Clears(f)'
        BY <1>11, <4>1 DEF Clears
      <4>4. turn' = turn /\ WholeUnder(pipe)' = WholeUnder(pipe) /\ watched' = watched
        BY <1>1, <1>2, <1>11
      <4>5. QED
        BY <4>1, <4>2, <4>3, <4>4
    <3>4. QED
      BY <3>1, <3>2, <3>3 DEF ArmedForWork
  <2>3. QED
    BY <2>1, <2>2 DEF IInv
<1>12. QED
  BY <1>9, <1>10, <1>11 DEF Prepared, h

-----------------------------------------------------------------------------
\* The end of a runtime.

\* The end of a runtime, whatever becomes of the drafts.
LEMMA GoneFacts ==
  ASSUME IInv, Gone, UNCHANGED <<watched, aborting, owns, soiled, broken, dropped, finished,
                                 inOrder>>,
         draining' \in Seq(Seq(Prompts)), Len(draining') <= 1,
         stage' = StageAfter(<<>>, pending), failed' \in BOOLEAN,
         restarts' \in 0..MaxRestarted, pending' = {},
         drafts' \in Seq(Prompts), restored' \in [Prompts -> Nat], swept' \subseteq Prompts,
         streaming' \in BOOLEAN, armed' \in BOOLEAN, up' \in BOOLEAN
  PROVE  /\ DeliveryTypeOK' /\ PipeTrue' /\ AnsweredOnce' /\ ArmedForWork'
         /\ \A q \in Prompts : stage'[q] \in Early <=> stage[q] \in Early
<1>1. /\ DeliveryTypeOK /\ PipeTrue /\ AnsweredOnce /\ ArmedForWork
      /\ \A q \in pending : stage[q] = "requested"
  BY DEF IInv, DeliveryTypeOK
<1>2. /\ stage' \in [Prompts -> Stages]
      /\ \A q \in Prompts :
           \/ stage'[q] \in {"refused", "taken"} /\ q \in pending
           \/ stage'[q] = stage[q] /\ q \notin pending
  BY <1>1, StageAfterFacts
<1>3. /\ running' = FALSE /\ pipe' = <<>> /\ cmds' = <<>> /\ unread' = <<>>
      /\ turn' = {} /\ silent' = FALSE /\ followUps' = <<>>
      /\ decoder' = [decoder EXCEPT !.assembly = <<>>]
      /\ stale' = stale \cup {p \in Prompts : stage[p] \in {"preparing", "announcing"}}
                    \cup (IF aborting THEN {Abort} ELSE {})
  BY DEF Gone
<1>4. \A q \in Prompts : stage'[q] \in Early <=> stage[q] \in Early
  BY <1>1, <1>2 DEF Early
<1>5. DeliveryTypeOK'
  <2>1. decoder' \in Decoders /\ Len(decoder'.assembly) <= 1
    <3> DEFINE none == <<>>
    <3>1. none \in Seq(Assemblies) /\ Len(none) <= 1
      OBVIOUS
    <3>2. decoder \in OpenDecoders
      BY <1>1 DEF DeliveryTypeOK, OpenDecoders
    <3>3. decoder' = Opening(decoder, none)
      BY <1>3 DEF Opening
    <3> HIDE DEF none
    <3>4. decoder' \in OpenDecoders
      BY <3>1, <3>2, <3>3, WithAssembly
    <3>5. QED
      BY <3>4 DEF OpenDecoders
  <2>2. stale' \subseteq Prompts \cup {Abort}
    BY <1>1, <1>3 DEF DeliveryTypeOK
  <2>3. turn' \in Turns
    BY <1>3 DEF Turns
  <2>4. /\ followUps' \in Seq(Prompts) /\ cmds' \in Seq(Prompts \cup {Abort})
        /\ pipe' \in Seq(Lines) /\ unread' \in Seq(PromptFrames)
    BY <1>3
  <2>5. QED
    BY <1>1, <1>2, <1>3, <2>1, <2>2, <2>3, <2>4 DEF DeliveryTypeOK
<1>6. \A kind : Carried(pipe', kind) = {}
  BY <1>3 DEF Carried
<1>7. PipeTrue'
  BY <1>6 DEF PipeTrue, WholeUnder
<1>8. AnsweredOnce'
  <2>1. Range(cmds)' = {} /\ WholeUnder(pipe)' = {} /\ DOMAIN cmds' = {}
    BY <1>3, <1>6 DEF Range, WholeUnder
  <2>2. QED
    BY <2>1 DEF AnsweredOnce
<1>9. ArmedForWork'
  <2>1. \A q \in Prompts : stage'[q] = "announcing" => q \in watched' /\ q \in stale'
    BY <1>1, <1>2, <1>3 DEF ArmedForWork
  <2>2. QED
    BY <1>3, <2>1 DEF ArmedForWork
<1>10. QED
  BY <1>4, <1>5, <1>7, <1>8, <1>9

\* The drafts as they are rejected with their requests, or drained.
LEMMA ExitStep ==
  ASSUME IInv, Exit
  PROVE  IInv'
<1> DEFINE r == Reject(Handling, pending)
           m == [r EXCEPT !.up = FALSE]
<1>1. /\ DeliveryTypeOK /\ PlacesKept /\ Gone /\ Become(m)
      /\ stage' = StageAfter(<<>>, pending)
      /\ UNCHANGED <<failed, watched, draining, aborting, countVars, finished, inOrder>>
  BY DEF IInv, Exit
<1>2. /\ pending \in SUBSET Prompts /\ failed \in BOOLEAN /\ restarts \in 0..MaxRestarted
      /\ draining \in Seq(Seq(Prompts)) /\ Len(draining) <= 1
  BY <1>1 DEF DeliveryTypeOK
<1>3. /\ Handling \in Handlings /\ Handling.pending = pending /\ Handling.drafts = drafts
      /\ Handling.swept = swept
  BY <1>1, HandlingFields
<1>4. /\ r \in Handlings /\ Keeps(Handling, r) /\ r.pending = {} /\ r.swept = swept
  <2> DEFINE h == Handling
             n == Reject(h, pending)
  <2>1. h \in Handlings /\ h.pending = pending /\ h.swept = swept
    BY <1>3
  <2>2. r = n /\ h = Handling
    OBVIOUS
  <2> HIDE DEF h, r
  <2>3. n \in Handlings /\ Keeps(h, n) /\ n.pending = h.pending \ pending /\ n.swept = h.swept
    BY <1>2, <2>1, RejectFacts
  <2> HIDE DEF n
  <2>4. QED
    BY <2>1, <2>2, <2>3
<1> HIDE DEF r
<1>5. /\ m \in Handlings /\ m.pending = {} /\ m.drafts = r.drafts /\ m.restored = r.restored
      /\ m.swept = swept
  BY <1>4 DEF Handlings
<1>6. Keeps(Handling, m)
  <2>1. Keeps(r, m)
    BY <1>4, <1>5, KeepsSame
  <2> HIDE DEF m
  <2>2. QED
    BY <1>3, <1>4, <1>5, <2>1, KeepsAlso
<1> HIDE DEF m
<1>7. /\ pending' = {} /\ drafts' = m.drafts /\ restored' = m.restored
      /\ swept' = m.swept /\ streaming' = m.streaming /\ armed' = m.armed /\ up' = m.up
  BY <1>1, <1>5 DEF Become
<1>8. /\ drafts' \in Seq(Prompts) /\ restored' \in [Prompts -> Nat] /\ swept' \subseteq Prompts
      /\ streaming' \in BOOLEAN /\ armed' \in BOOLEAN /\ up' \in BOOLEAN
  BY <1>5, <1>7 DEF Handlings
<1>9. /\ DeliveryTypeOK' /\ PipeTrue' /\ AnsweredOnce' /\ ArmedForWork'
      /\ \A q \in Prompts : stage'[q] \in Early <=> stage[q] \in Early
  BY <1>1, <1>2, <1>7, <1>8, GoneFacts DEF countVars
<1>10. PlacesKept'
  <2>1. OneDraft(Handling.drafts)
    BY <1>1, <1>3 DEF PlacesKept
  <2>2. QED
    BY <1>1, <1>3, <1>5, <1>6, <1>7, <1>9, <2>1, PlacesMoved DEF countVars
<1>11. QED
  BY <1>9, <1>10 DEF IInv

\* The parity of a runtime is blocked: it goes, and the drafts are given back.
LEMMA ParityBlockedStep ==
  ASSUME IInv, ParityBlocked
  PROVE  IInv'
<1> DEFINE back == GiveBackAll(restored, Range(drafts))
           m == [Handling EXCEPT !.up = FALSE, !.pending = {}, !.armed = FALSE,
                   !.drafts = <<>>, !.restored = back]
<1>1. Handling \in Handlings /\ Handling.restored = restored
  BY HandlingFields DEF IInv
<1>2. /\ DeliveryTypeOK /\ PlacesKept /\ Gone /\ failed' = TRUE /\ Become(m)
      /\ stage' = StageAfter(<<>>, pending)
      /\ UNCHANGED <<watched, draining, aborting, countVars, finished, inOrder>>
  <2>1. Become([Handling EXCEPT !.up = FALSE, !.pending = {}, !.armed = FALSE, !.drafts = <<>>,
                !.restored = GiveBackAll(@, Range(drafts))])
    BY DEF ParityBlocked
  <2>2. m = [Handling EXCEPT !.up = FALSE, !.pending = {}, !.armed = FALSE, !.drafts = <<>>,
                !.restored = GiveBackAll(@, Range(drafts))]
    BY <1>1 DEF Handlings
  <2>3. QED
    BY <2>1, <2>2 DEF IInv, ParityBlocked
<1>3. /\ pending \in SUBSET Prompts /\ restarts \in 0..MaxRestarted
      /\ restored \in [Prompts -> Nat] /\ drafts \in Seq(Prompts)
      /\ draining \in Seq(Seq(Prompts)) /\ Len(draining) <= 1
  BY <1>2 DEF DeliveryTypeOK
<1>4. /\ Handling.drafts = drafts /\ Handling.swept = swept
  BY <1>2, HandlingFields
<1>5. back \in [Prompts -> Nat]
  BY <1>3, GiveBackTypes
<1>6. \A q \in Prompts : back[q] = IF q \in Range(drafts) THEN restored[q] + 1 ELSE restored[q]
  BY DEF GiveBackAll
<1> HIDE DEF back
<1>7. /\ m \in Handlings /\ m.pending = {} /\ m.drafts = <<>> /\ m.restored = back
      /\ m.swept = swept
  <2>1. <<>> \in Seq(Prompts)
    OBVIOUS
  <2>2. QED
    BY <1>1, <1>4, <1>5, <2>1 DEF Handlings
<1> HIDE DEF m
<1>8. Keeps(Handling, m)
  <2>1. OneDraft(m.drafts) /\ Range(m.drafts) = {}
    BY <1>7 DEF OneDraft, Range
  <2>2. ASSUME NEW q \in Prompts
        PROVE  Places(m, q) \in Nat /\ Places(m, q) = Places(Handling, q)
    <3>1. restored[q] \in Nat
      BY <1>3
    <3>2. back[q] = IF q \in Range(drafts) THEN restored[q] + 1 ELSE restored[q]
      BY <1>6
    <3>3. Places(Handling, q) = (IF q \in Range(drafts) THEN 1 ELSE 0) + restored[q]
      BY <1>1, <1>4 DEF Places
    <3>4. Places(m, q) = 0 + back[q]
      BY <1>7, <2>1 DEF Places
    <3>5. QED
      BY <3>1, <3>2, <3>3, <3>4
  <2>3. \A q \in Prompts : Places(m, q) <= Places(Handling, q)
    BY <2>2
  <2>4. QED
    BY <1>4, <1>7, <2>1, <2>2, <2>3 DEF Keeps
<1>9. /\ pending' = {} /\ drafts' = m.drafts /\ restored' = m.restored
      /\ swept' = m.swept /\ streaming' = m.streaming /\ armed' = m.armed /\ up' = m.up
  BY <1>2, <1>7 DEF Become
<1>10. /\ drafts' \in Seq(Prompts) /\ restored' \in [Prompts -> Nat] /\ swept' \subseteq Prompts
       /\ streaming' \in BOOLEAN /\ armed' \in BOOLEAN /\ up' \in BOOLEAN
  BY <1>7, <1>9 DEF Handlings
<1>11. /\ DeliveryTypeOK' /\ PipeTrue' /\ AnsweredOnce' /\ ArmedForWork'
       /\ \A q \in Prompts : stage'[q] \in Early <=> stage[q] \in Early
  BY <1>2, <1>3, <1>9, <1>10, GoneFacts DEF countVars
<1>12. PlacesKept'
  <2>1. OneDraft(Handling.drafts)
    BY <1>2, <1>4 DEF PlacesKept
  <2>2. QED
    BY <1>1, <1>2, <1>4, <1>7, <1>8, <1>9, <1>11, <2>1, PlacesMoved DEF countVars
<1>13. QED
  BY <1>11, <1>12 DEF IInv

\* The session is restarted: the drafts drain with the old runtime.
LEMMA RestartStep ==
  ASSUME IInv, Restart
  PROVE  IInv'
<1> DEFINE e == [Handling EXCEPT !.drafts = <<>>]
           r == Reject(e, pending)
           m == [r EXCEPT !.up = FALSE]
<1>1. /\ DeliveryTypeOK /\ PlacesKept /\ Gone /\ Become(m)
      /\ draining = <<>> /\ draining' = <<drafts>>
      /\ restarts < MaxRestarted /\ restarts' = restarts + 1
      /\ stage' = StageAfter(<<>>, pending)
      /\ UNCHANGED <<failed, watched, aborting, owns, soiled, broken, dropped, finished, inOrder>>
  BY DEF IInv, Restart
<1>2. /\ pending \in SUBSET Prompts /\ failed \in BOOLEAN /\ restarts \in 0..MaxRestarted
      /\ drafts \in Seq(Prompts) /\ restored \in [Prompts -> Nat]
  BY <1>1 DEF DeliveryTypeOK
<1>3. /\ Handling \in Handlings /\ Handling.pending = pending
      /\ Handling.restored = restored /\ Handling.swept = swept
  BY <1>1, HandlingFields
<1>4. /\ e \in Handlings /\ e.pending = pending /\ e.drafts = <<>> /\ e.restored = restored
      /\ e.swept = swept
  <2>1. <<>> \in Seq(Prompts)
    OBVIOUS
  <2>2. QED
    BY <1>3, <2>1 DEF Handlings
<1> HIDE DEF e
<1>5. /\ r \in Handlings /\ r.pending = {} /\ r.swept = swept
      /\ r.drafts = Without(<<>>, pending)
      /\ r.restored = GiveBackAll(restored, Range(<<>>) \cap pending)
  <2>1. /\ r \in Handlings /\ r.pending = e.pending \ pending /\ r.swept = e.swept
        /\ r.drafts = Without(e.drafts, pending)
        /\ r.restored = GiveBackAll(e.restored, Range(e.drafts) \cap pending)
    BY <1>2, <1>4, RejectFacts
  <2> HIDE DEF r
  <2>2. QED
    BY <1>4, <2>1
<1>6. r.drafts = <<>> /\ r.restored = restored
  <2>1. <<>> \in Seq(Prompts) /\ Range(<<>>) = {}
    BY DEF Range
  <2>2. Without(<<>>, pending) \in Seq(Prompts) /\ Range(Without(<<>>, pending)) = {}
    BY <2>1, WithoutFacts
  <2>3. \A s \in Seq(Prompts) : Range(s) = {} => s = <<>>
    <3>1. ASSUME NEW s \in Seq(Prompts), s # <<>> PROVE s[1] \in Range(s)
      BY <3>1 DEF Range
    <3>2. QED
      BY <3>1
  <2>4. GiveBackAll(restored, {}) = restored
    BY <1>2 DEF GiveBackAll
  <2>5. QED
    BY <1>5, <2>1, <2>2, <2>3, <2>4
<1> HIDE DEF r
<1>7. /\ m.pending = {} /\ m.drafts = <<>> /\ m.restored = restored /\ m.swept = swept
      /\ m.streaming \in BOOLEAN /\ m.armed \in BOOLEAN /\ m.up \in BOOLEAN
  BY <1>5, <1>6 DEF Handlings
<1> HIDE DEF m
<1>8. /\ pending' = {} /\ drafts' = <<>> /\ restored' = restored
      /\ swept' = swept /\ streaming' \in BOOLEAN /\ armed' \in BOOLEAN /\ up' \in BOOLEAN
  BY <1>1, <1>7 DEF Become
<1>9. /\ restarts' \in 0..MaxRestarted
      /\ draining' \in Seq(Seq(Prompts)) /\ Len(draining') <= 1 /\ drafts' \in Seq(Prompts)
  <2>1. restarts' \in 0..MaxRestarted
    BY <1>1, <1>2, DeliveryAssumption
  <2>2. draining' \in Seq(Seq(Prompts)) /\ Len(draining') <= 1
    BY <1>1, <1>2
  <2>3. drafts' \in Seq(Prompts)
    BY <1>8
  <2>4. QED
    BY <2>1, <2>2, <2>3
<1>10. swept' \subseteq Prompts
  BY <1>1, <1>8 DEF DeliveryTypeOK
<1>11. /\ DeliveryTypeOK' /\ PipeTrue' /\ AnsweredOnce' /\ ArmedForWork'
       /\ \A q \in Prompts : stage'[q] \in Early <=> stage[q] \in Early
  BY <1>1, <1>2, <1>8, <1>9, <1>10, GoneFacts
<1>12. PlacesKept'
  <2>1. OneDraft(drafts)'
    BY <1>8 DEF OneDraft
  <2>2. /\ Range(drafts)' = {} /\ draining' # <<>> /\ draining'[1] = drafts
    BY <1>1, <1>8 DEF Range
  <2>3. ASSUME NEW q \in Prompts PROVE InPlaces(q)' = InPlaces(q)
    <3>1. restored[q] \in Nat
      BY <1>2
    <3>2. InPlaces(q)' = 0 + (IF q \in Range(drafts) THEN 1 ELSE 0) + restored[q]
      BY <1>8, <2>2 DEF InPlaces
    <3>3. InPlaces(q) = (IF q \in Range(drafts) THEN 1 ELSE 0) + 0 + restored[q]
      BY <1>1 DEF InPlaces
    <3>4. QED
      BY <3>1, <3>2, <3>3
  <2>4. UNCHANGED <<restored, finished, swept, dropped>>
    BY <1>1, <1>8
  <2>5. QED
    BY <1>1, <1>11, <2>1, <2>3, <2>4 DEF PlacesKept, PromptKept, Early
<1>13. QED
  BY <1>11, <1>12 DEF IInv

\* A restart whose wait is rejected loses the drafts it holds, and no others.
LEMMA RestartFailsStep ==
  ASSUME IInv, RestartFails
  PROVE  IInv'
<1>1. /\ DeliveryTypeOK /\ PipeTrue /\ PlacesKept /\ AnsweredOnce /\ ArmedForWork
      /\ draining # <<>> /\ draining' = <<>> /\ broken' = TRUE
      /\ dropped' = dropped \cup Range(draining[1])
      /\ UNCHANGED <<ompVars, wireVars, pending, up, failed, stage, watched, drafts, stale,
                     streaming, armed, aborting, owns, soiled, restarts, proofVars>>
  BY DEF IInv, RestartFails
<1>2. UNCHANGED <<turn, silent, followUps, cmds, running, pipe, decoder, restored, finished,
                  swept, unread, inOrder>>
  BY <1>1 DEF ompVars, wireVars, proofVars
<1>3. Range(draining[1]) \subseteq Prompts
  <2>1. draining \in Seq(Seq(Prompts)) /\ 1 \in DOMAIN draining
    BY <1>1 DEF DeliveryTypeOK
  <2>2. draining[1] \in Seq(Prompts)
    BY <2>1
  <2>3. QED
    BY <2>2 DEF Range
<1>4. DeliveryTypeOK'
  <2>1. draining' \in Seq(Seq(Prompts)) /\ Len(draining') <= 1
    BY <1>1
  <2>2. broken' \in BOOLEAN /\ dropped' \subseteq Prompts
    BY <1>1, <1>3 DEF DeliveryTypeOK
  <2>3. QED
    BY <1>1, <1>2, <2>1, <2>2 DEF DeliveryTypeOK
<1>5. PipeTrue'
  BY <1>1, <1>2 DEF PipeTrue, ToldTruly
<1>6. PlacesKept'
  <2>1. ASSUME NEW q \in Prompts
        PROVE  /\ InPlaces(q) <= 1 /\ InPlaces(q)' <= 1 /\ InPlaces(q)' \in Nat
               /\ q \in Range(draining[1]) => InPlaces(q)' = 0 /\ InPlaces(q) = 1
               /\ q \notin Range(draining[1]) => InPlaces(q)' = InPlaces(q)
    <3>1. restored[q] \in Nat
      BY <1>1 DEF DeliveryTypeOK
    <3>2. InPlaces(q)' = (IF q \in Range(drafts) THEN 1 ELSE 0) + 0 + restored[q]
      BY <1>1, <1>2 DEF InPlaces
    <3>3. InPlaces(q) = (IF q \in Range(drafts) THEN 1 ELSE 0)
                          + (IF q \in Range(draining[1]) THEN 1 ELSE 0) + restored[q]
      BY <1>1 DEF InPlaces
    <3>4. InPlaces(q) <= 1
      BY <1>1 DEF PlacesKept
    <3>5. QED
      BY <3>1, <3>2, <3>3, <3>4
  <2>2. OneDraft(drafts)'
    BY <1>1 DEF PlacesKept, OneDraft
  <2>3. ASSUME NEW q \in Prompts, stage'[q] \in Early
        PROVE  InPlaces(q)' = 0 /\ q \notin dropped'
    <3>1. InPlaces(q) = 0 /\ q \notin dropped
      BY <1>1, <2>3 DEF PlacesKept, Early
    <3>2. q \notin Range(draining[1])
      BY <2>1, <3>1
    <3>3. QED
      BY <1>1, <2>1, <3>1, <3>2
  <2>4. ASSUME NEW q \in Prompts, stage'[q] \notin Early, q \notin finished' \cup swept'
        PROVE  InPlaces(q)' = IF q \in dropped' THEN 0 ELSE 1
    <3>1. InPlaces(q) = IF q \in dropped THEN 0 ELSE 1
      BY <1>1, <1>2, <2>4 DEF PlacesKept, PromptKept, Early
    <3>2. QED
      BY <1>1, <2>1, <3>1
  <2>5. \A q \in Prompts : restored'[q] <= 1
    BY <1>1, <1>2 DEF PlacesKept, PromptKept
  <2>6. QED
    BY <2>1, <2>2, <2>3, <2>4, <2>5 DEF PlacesKept, PromptKept, Early
<1>7. AnsweredOnce'
  BY <1>1, <1>2 DEF AnsweredOnce
<1>8. ArmedForWork'
  BY <1>1, <1>2 DEF ArmedForWork, Clears
<1>9. QED
  BY <1>4, <1>5, <1>6, <1>7, <1>8 DEF IInv

\* After a restart the drafts come back, and a runtime waits for its negotiation.
LEMMA RestartedStep ==
  ASSUME IInv, Restarted
  PROVE  IInv'
<1>1. /\ DeliveryTypeOK /\ PipeTrue /\ PlacesKept /\ AnsweredOnce /\ ArmedForWork
      /\ draining # <<>> /\ ~broken /\ draining' = <<>>
      /\ restored' = GiveBackAll(restored, Range(draining[1]))
      /\ streaming' = FALSE /\ armed' = FALSE /\ failed' = FALSE
      /\ running' = TRUE /\ pipe' = <<Whole(Negotiated)>> /\ unread' = <<Negotiated>>
      /\ decoder' = BeginNegotiation(NewDecoder)
      /\ UNCHANGED <<ompVars, pending, up, stage, watched, drafts, stale, aborting, countVars,
                     finished, swept, inOrder>>
  BY DEF IInv, Restarted
<1>2. UNCHANGED <<turn, silent, followUps, cmds, owns, soiled, restarts, broken, dropped>>
  BY <1>1 DEF ompVars, countVars
<1>3. restored \in [Prompts -> Nat]
  BY <1>1 DEF DeliveryTypeOK
<1>4. pipe' \in Seq(Lines) /\ WholeUnder(pipe)' = {Negotiated} /\ Carried(pipe', "chunk") = {}
  <2>1. Whole(Negotiated) \in Lines /\ Negotiated \in Frames
    BY DecoderAssumption DEF Lines
  <2>2. DOMAIN pipe' = {1} /\ pipe'[1] = Whole(Negotiated)
    BY <1>1
  <2>3. Whole(Negotiated).kind = "whole" /\ Whole(Negotiated).frame = Negotiated
    BY DEF Whole
  <2>4. pipe' \in Seq(Lines)
    BY <1>1, <2>1
  <2>5. QED
    BY <2>2, <2>3, <2>4 DEF WholeUnder, Carried
<1>5. DeliveryTypeOK'
  <2>1. restored' \in [Prompts -> Nat]
    BY <1>1, <1>3 DEF GiveBackAll
  <2>2. unread' \in Seq(PromptFrames)
    <3>1. Negotiated \in PromptFrames
      BY TurnFrame
    <3>2. QED
      BY <1>1, <3>1
  <2>3. decoder' \in Decoders /\ Len(decoder'.assembly) <= 1
    <3>1. decoder' = [assembly |-> <<>>, negotiating |-> TRUE, v2 |-> FALSE]
      BY <1>1 DEF BeginNegotiation, NewDecoder
    <3>2. QED
      BY <3>1 DEF Decoders
  <2>4. draining' \in Seq(Seq(Prompts)) /\ Len(draining') <= 1
    BY <1>1
  <2>5. QED
    BY <1>1, <1>2, <1>4, <2>1, <2>2, <2>3, <2>4 DEF DeliveryTypeOK
<1>6. PipeTrue'
  BY <1>4, TurnFrame DEF PipeTrue
<1>7. PlacesKept'
  <2>1. OneDraft(drafts)'
    BY <1>1 DEF PlacesKept, OneDraft
  <2>2. ASSUME NEW q \in Prompts
        PROVE  InPlaces(q)' = InPlaces(q) /\ restored'[q] <= InPlaces(q)
    <3>1. restored[q] \in Nat
      BY <1>3
    <3>2. restored'[q] = IF q \in Range(draining[1]) THEN restored[q] + 1 ELSE restored[q]
      BY <1>1 DEF GiveBackAll
    <3>3. InPlaces(q)' = (IF q \in Range(drafts) THEN 1 ELSE 0) + 0 + restored'[q]
      BY <1>1 DEF InPlaces
    <3>4. InPlaces(q) = (IF q \in Range(drafts) THEN 1 ELSE 0)
                          + (IF q \in Range(draining[1]) THEN 1 ELSE 0) + restored[q]
      BY <1>1 DEF InPlaces
    <3>5. QED
      BY <3>1, <3>2, <3>3, <3>4
  <2>3. \A q \in Prompts : restored'[q] <= 1
    <3>1. ASSUME NEW q \in Prompts PROVE restored'[q] <= 1
      <4>1. InPlaces(q) <= 1 /\ restored'[q] <= InPlaces(q) /\ restored[q] \in Nat
        BY <1>1, <1>3, <2>2 DEF PlacesKept
      <4>2. restored'[q] \in Nat /\ InPlaces(q) \in Nat
        BY <1>1, <4>1 DEF GiveBackAll, InPlaces
      <4>3. QED
        BY <4>1, <4>2
    <3>2. QED
      BY <3>1
  <2>4. QED
    BY <1>1, <1>2, <2>1, <2>2, <2>3 DEF PlacesKept, PromptKept
<1>8. AnsweredOnce'
  <2>1. \A q : ~Answers(Negotiated, q)
    BY DEF Answers
  <2>2. QED
    BY <1>1, <1>2, <1>4, <2>1 DEF AnsweredOnce
<1>9. ArmedForWork'
  BY <1>1, <1>2 DEF ArmedForWork
<1>10. QED
  BY <1>5, <1>6, <1>7, <1>8, <1>9 DEF IInv

-----------------------------------------------------------------------------
\* Output reaches the host.

\* What is known of the lines that are left.
LEMMA LinesLeft ==
  ASSUME DeliveryTypeOK, NEW k \in 0..Len(pipe)
  PROVE  LET rest == SubSeq(pipe, k + 1, Len(pipe)) IN
         /\ rest \in Seq(Lines)
         /\ \A kind : Carried(rest, kind) \subseteq Carried(pipe, kind)
<1>1. pipe \in Seq(Lines)
  BY DEF DeliveryTypeOK
<1>2. SubSeq(pipe, k + 1, Len(pipe)) \in Seq(Lines)
  BY <1>1, CarriedCut
<1>3. ASSUME NEW kind
      PROVE  Carried(SubSeq(pipe, k + 1, Len(pipe)), kind) \subseteq Carried(pipe, kind)
  BY <1>1, CarriedCut
<1>4. QED
  BY <1>2, <1>3

\* A piece of output is read: its frames are among those under way, and unless it threw
\* all of them are.
LEMMA PieceRead ==
  ASSUME IInv, NEW k \in 1..Len(pipe)
  PROVE  LET pushed == Push(decoder, SubSeq(pipe, 1, k)) IN
         /\ pushed.decoder \in OpenDecoders /\ pushed.threw \in BOOLEAN
         /\ pushed.read \in 0..Len(pipe) /\ (~pushed.threw => pushed.read = k)
         /\ pushed.frames \in Seq(PromptFrames)
         /\ \A i \in DOMAIN pushed.frames :
              pushed.frames[i] # Negotiated => ToldTruly(pushed.frames[i])
         /\ Range(pushed.frames) \subseteq WholeUnder(pipe) \cup {Output}
         /\ ~pushed.threw =>
              WholeUnder(pipe) \subseteq
                Range(pushed.frames) \cup WholeUnder(SubSeq(pipe, k + 1, Len(pipe)))
<1> DEFINE ls == SubSeq(pipe, 1, k)
           rest == SubSeq(pipe, k + 1, Len(pipe))
           pushed == Push(decoder, ls)
<1>1. /\ pipe \in Seq(Lines) /\ decoder \in OpenDecoders /\ PipeTrue
      /\ k \in 0..Len(pipe) /\ Len(pipe) \in Nat /\ k \in Nat /\ k >= 1
  BY DEF IInv, DeliveryTypeOK, OpenDecoders
<1>2. ls \in Seq(Lines) /\ Len(ls) = k
  BY <1>1, CarriedCut
<1>3. WholeUnder(pipe) = WholeUnder(ls) \cup WholeUnder(rest)
  BY <1>1, CarriedCut DEF WholeUnder
<1>4. Carried(ls, "chunk") \subseteq {Output}
  <2>1. Carried(ls, "chunk") \subseteq Carried(pipe, "chunk")
    BY <1>1, CarriedCut
  <2>2. QED
    BY <1>1, <2>1 DEF PipeTrue
<1> HIDE DEF ls, rest
<1>5. ls # <<>>
  BY <1>1, <1>2
<1>6. /\ pushed.decoder \in OpenDecoders /\ pushed.threw \in BOOLEAN
      /\ pushed.read \in 1..Len(ls) /\ (~pushed.threw => pushed.read = Len(ls))
      /\ pushed.frames \in Seq(WholeUnder(ls) \cup Carried(ls, "chunk"))
      /\ ~pushed.threw => WholeUnder(ls) \subseteq Range(pushed.frames)
  BY <1>1, <1>2, <1>5, PushFacts
<1> HIDE DEF pushed
<1>7. WholeUnder(ls) \cup Carried(ls, "chunk") \subseteq WholeUnder(pipe) \cup {Output}
  BY <1>3, <1>4
<1>8. pushed.frames \in Seq(WholeUnder(pipe) \cup {Output})
  BY <1>6, <1>7
<1>9. /\ \A i \in DOMAIN pushed.frames : pushed.frames[i] \in WholeUnder(pipe) \cup {Output}
      /\ Range(pushed.frames) \subseteq WholeUnder(pipe) \cup {Output}
  BY <1>8 DEF Range
<1>10. \A f \in WholeUnder(pipe) \cup {Output} :
         f \in PromptFrames /\ (f # Negotiated => ToldTruly(f))
  <2>1. Output \in PromptFrames /\ Output.type = "output"
    BY TurnFrame DEF Output
  <2>2. ToldTruly(Output)
    BY <2>1 DEF ToldTruly
  <2>3. QED
    BY <1>1, <2>1, <2>2 DEF PipeTrue
<1>11. pushed.frames \in Seq(PromptFrames)
  BY <1>8, <1>10
<1>12. \A i \in DOMAIN pushed.frames :
         pushed.frames[i] # Negotiated => ToldTruly(pushed.frames[i])
  BY <1>9, <1>10
<1>13. ~pushed.threw => WholeUnder(pipe) \subseteq Range(pushed.frames) \cup WholeUnder(rest)
  BY <1>3, <1>6
<1>14. pushed.read \in 0..Len(pipe) /\ (~pushed.threw => pushed.read = k)
  BY <1>1, <1>2, <1>6
<1>15. pushed = Push(decoder, SubSeq(pipe, 1, k)) /\ rest = SubSeq(pipe, k + 1, Len(pipe))
  BY DEF pushed, ls, rest
<1>16. QED
  BY <1>6, <1>9, <1>11, <1>12, <1>13, <1>14, <1>15

\* A piece that is no protocol: its frames are lost, and the requests are rejected.
LEMMA DataThrew ==
  ASSUME IInv, running,
         pipe' \in Seq(Lines), \A kind : Carried(pipe', kind) \subseteq Carried(pipe, kind),
         decoder' \in OpenDecoders, failed' = TRUE,
         Become(Reject(Handling, pending)), stage' = StageAfter(<<>>, pending), unread' = <<>>,
         UNCHANGED <<running, ompVars, watched, draining, stale, aborting, countVars, finished,
                     inOrder>>
  PROVE  IInv'
<1> DEFINE m == Reject(Handling, pending)
<1>1. /\ DeliveryTypeOK /\ PipeTrue /\ PlacesKept /\ AnsweredOnce /\ ArmedForWork
      /\ Become(m) /\ pending \in SUBSET Prompts
      /\ \A q \in pending : stage[q] = "requested"
  BY DEF IInv, DeliveryTypeOK
<1>2. UNCHANGED <<turn, silent, followUps, cmds, owns, soiled, restarts, broken, dropped>>
  BY DEF ompVars, countVars
<1>3. /\ Handling \in Handlings /\ Handling.pending = pending /\ Handling.drafts = drafts
      /\ Handling.swept = swept /\ Handling.armed = armed /\ Handling.up = up
  BY <1>1, HandlingFields
<1>4. /\ m \in Handlings /\ Keeps(Handling, m) /\ m.pending = {} /\ m.swept = swept
      /\ m.up = up /\ (m.armed => armed)
  <2> DEFINE h == Handling
             n == Reject(h, pending)
  <2>1. /\ h \in Handlings /\ h.pending = pending /\ h.swept = swept /\ h.armed = armed
        /\ h.up = up
    BY <1>3
  <2>2. m = n /\ h = Handling
    OBVIOUS
  <2> HIDE DEF h, m
  <2>3. /\ n \in Handlings /\ Keeps(h, n) /\ n.pending = h.pending \ pending
        /\ n.swept = h.swept /\ n.up = h.up /\ (n.armed => h.armed)
    BY <1>1, <2>1, RejectFacts
  <2> HIDE DEF n
  <2>4. QED
    BY <2>1, <2>2, <2>3
<1> HIDE DEF m
<1>5. /\ pending' = {} /\ drafts' = m.drafts /\ restored' = m.restored
      /\ swept' = swept /\ streaming' = m.streaming /\ armed' = m.armed /\ up' = up
  BY <1>1, <1>4 DEF Become
<1>6. /\ stage' \in [Prompts -> Stages]
      /\ \A q \in Prompts :
           \/ stage'[q] \in {"refused", "taken"} /\ q \in pending
           \/ stage'[q] = stage[q] /\ q \notin pending
  BY <1>1, StageAfterFacts
<1>7. DeliveryTypeOK'
  <2>1. /\ drafts' \in Seq(Prompts) /\ restored' \in [Prompts -> Nat]
        /\ swept' \subseteq Prompts /\ streaming' \in BOOLEAN /\ armed' \in BOOLEAN
        /\ up' \in BOOLEAN
    BY <1>1, <1>4, <1>5 DEF Handlings, DeliveryTypeOK
  <2>2. decoder' \in Decoders /\ Len(decoder'.assembly) <= 1
    BY DEF OpenDecoders
  <2>3. unread' \in Seq(PromptFrames)
    OBVIOUS
  <2>4. QED
    BY <1>1, <1>2, <1>5, <1>6, <2>1, <2>2, <2>3 DEF DeliveryTypeOK
<1>8. PipeTrue'
  BY <1>1, PipeShorter DEF WholeUnder
<1>9. PlacesKept'
  <2>1. OneDraft(Handling.drafts)
    BY <1>1, <1>3 DEF PlacesKept
  <2>2. \A q \in Prompts : stage'[q] \in Early <=> stage[q] \in Early
    BY <1>1, <1>6 DEF Early
  <2>3. swept' = m.swept
    BY <1>4, <1>5
  <2>4. QED
    BY <1>1, <1>2, <1>3, <1>4, <1>5, <2>1, <2>2, <2>3, PlacesMoved
<1>10. AnsweredOnce'
  <2>1. WholeUnder(pipe)' \subseteq WholeUnder(pipe)
    BY DEF WholeUnder
  <2>2. QED
    BY <1>1, <1>2, <1>6, <2>1, AnswersHost DEF Early
<1>11. ArmedForWork'
  <2>1. \A q \in Prompts : stage'[q] = "announcing" => stage[q] = "announcing"
    BY <1>6
  <2>2. QED
    BY <1>1, <1>4, <1>5, <2>1 DEF ArmedForWork
<1>12. QED
  BY <1>7, <1>8, <1>9, <1>10, <1>11 DEF IInv

\* A piece is handled: the requests its frames answer are settled, the drafts move, and
\* what the timeout waits for is still to come or has cleared it.
LEMMA DataHandled ==
  ASSUME IInv, running, NEW frames \in Seq(PromptFrames),
         \A i \in DOMAIN frames : frames[i] # Negotiated => ToldTruly(frames[i]),
         Range(frames) \subseteq WholeUnder(pipe) \cup {Output},
         WholeUnder(pipe) \subseteq Range(frames) \cup WholeUnder(pipe)',
         pipe' \in Seq(Lines), \A kind : Carried(pipe', kind) \subseteq Carried(pipe, kind),
         decoder' \in OpenDecoders, unread' \in Seq(PromptFrames), inOrder' \in BOOLEAN,
         NEW handled, handled = FoldLeft(HandleFrame, Handling, frames),
         NEW m, m = FoldLeft(GoOn, handled, handled.settled),
         Become(m), stage' = StageAfter(handled.settled, {}),
         UNCHANGED <<running, failed, ompVars, watched, draining, stale, aborting, countVars,
                     finished>>
  PROVE  IInv'
<1>1. /\ DeliveryTypeOK /\ PipeTrue /\ PlacesKept /\ AnsweredOnce /\ ArmedForWork
      /\ pending \subseteq Prompts /\ \A q \in pending : stage[q] = "requested"
  BY DEF IInv, DeliveryTypeOK
<1>2. UNCHANGED <<turn, silent, followUps, cmds, owns, soiled, restarts, broken, dropped>>
  BY DEF ompVars, countVars
<1>3. /\ Handling \in Handlings /\ Handling.pending = pending /\ Handling.drafts = drafts
      /\ Handling.swept = swept /\ Handling.armed = armed /\ Handling.up = up
      /\ Handling.settled = <<>>
  BY <1>1, HandlingFields
<1>4. /\ handled \in Handlings /\ Keeps(Handling, handled)
      /\ up => handled.up
      /\ handled.armed => armed
      /\ up => \A f \in Range(frames) : f # Negotiated /\ Observed(f) => ~handled.armed
      /\ handled.pending \subseteq pending
      /\ \A p \in handled.pending, f \in Range(frames) : ~Answers(f, p)
      /\ \A p \in pending :
           p \in handled.pending \/ \E s \in Range(handled.settled) : Answers(s, p)
      /\ \A s \in Range(handled.settled) :
           /\ s \in PromptAnswers /\ s \in Range(frames) /\ Answers(s, s.id)
           /\ s.id \in pending /\ s.id \notin handled.pending
  <2> DEFINE h == Handling
  <2>1. /\ h \in Handlings /\ h.settled = <<>> /\ h.pending = pending /\ h.armed = armed
        /\ h.up = up /\ h = Handling
    BY <1>3
  <2> HIDE DEF h
  <2>2. SoFar(h, frames, Len(frames), handled)
    BY <2>1, PieceHandled
  <2>3. \A f \in Range(frames) : \E j \in 1..Len(frames) : frames[j] = f
    BY DEF Range
  <2>4. \A s : s \in {frames[j] : j \in 1..Len(frames)} => s \in Range(frames)
    BY DEF Range
  <2>5. /\ handled \in Handlings /\ Keeps(h, handled) /\ (h.up => handled.up)
        /\ (handled.armed => h.armed) /\ handled.pending \subseteq h.pending
    BY <2>2 DEF SoFar
  <2>6. h.up => \A f \in Range(frames) : f # Negotiated /\ Observed(f) => ~handled.armed
    BY <2>2, <2>3 DEF SoFar
  <2>7. \A p \in handled.pending, f \in Range(frames) : ~Answers(f, p)
    BY <2>2, <2>3 DEF SoFar
  <2>8. /\ \A p \in h.pending :
             p \in handled.pending \/ \E s \in Range(handled.settled) : Answers(s, p)
        /\ \A s \in Range(handled.settled) :
             /\ s \in PromptAnswers /\ s \in Range(frames) /\ Answers(s, s.id)
             /\ s.id \in h.pending /\ s.id \notin handled.pending
    BY <2>2, <2>4 DEF SoFar
  <2>9. QED
    BY <2>1, <2>5, <2>6, <2>7, <2>8
<1>5. /\ m \in Handlings /\ Keeps(handled, m) /\ m.pending = handled.pending
      /\ m.up = handled.up /\ (m.armed => handled.armed)
      /\ \A s \in Range(handled.settled) : ~s.ok /\ s.id \in watched => ~m.armed
  <2>1. handled.settled \in Seq(PromptAnswers)
    BY <1>4 DEF Handlings
  <2>2. QED
    BY <1>4, <2>1, AnswersStood
<1>6. Keeps(Handling, m)
  BY <1>3, <1>4, <1>5, KeepsAlso
<1>7. /\ pending' = handled.pending /\ drafts' = m.drafts /\ restored' = m.restored
      /\ swept' = m.swept /\ streaming' = m.streaming /\ armed' = m.armed /\ up' = handled.up
  BY <1>5 DEF Become
<1>8. /\ stage' \in [Prompts -> Stages]
      /\ \A q \in Prompts :
           \/ stage'[q] \in {"refused", "taken"} /\ q \in pending /\ q \notin pending'
           \/ stage'[q] = stage[q]
  <2>1. /\ stage' \in [Prompts -> Stages]
        /\ \A q \in Prompts :
             \/ /\ stage'[q] \in {"refused", "taken"}
                /\ q \in {} \/ \E i \in DOMAIN handled.settled : handled.settled[i].id = q
             \/ stage'[q] = stage[q]
    BY <1>1, StageAfterFacts
  <2>2. \A i \in DOMAIN handled.settled :
          handled.settled[i].id \in pending /\ handled.settled[i].id \notin handled.pending
    BY <1>4 DEF Range
  <2>3. QED
    BY <1>7, <2>1, <2>2
<1>9. DeliveryTypeOK'
  <2>1. /\ drafts' \in Seq(Prompts) /\ restored' \in [Prompts -> Nat]
        /\ swept' \subseteq Prompts /\ streaming' \in BOOLEAN /\ armed' \in BOOLEAN
        /\ up' \in BOOLEAN
    BY <1>4, <1>5, <1>7 DEF Handlings
  <2>2. decoder' \in Decoders /\ Len(decoder'.assembly) <= 1
    BY DEF OpenDecoders
  <2>3. pending' \subseteq {q \in Prompts : stage'[q] = "requested"}
    BY <1>1, <1>4, <1>7, <1>8
  <2>4. QED
    BY <1>1, <1>2, <1>8, <2>1, <2>2, <2>3 DEF DeliveryTypeOK
<1>10. PipeTrue'
  BY <1>1, PipeShorter DEF WholeUnder
<1>11. PlacesKept'
  <2>1. OneDraft(Handling.drafts)
    BY <1>1, <1>3 DEF PlacesKept
  <2>2. \A q \in Prompts : stage'[q] \in Early <=> stage[q] \in Early
    BY <1>1, <1>8 DEF Early
  <2>3. QED
    BY <1>1, <1>2, <1>3, <1>5, <1>6, <1>7, <2>1, <2>2, PlacesMoved
<1>12. AnsweredOnce'
  <2>1. WholeUnder(pipe)' \subseteq WholeUnder(pipe)
    BY DEF WholeUnder
  <2>2. QED
    BY <1>1, <1>2, <1>8, <2>1, AnswersHost DEF Early
<1>13. ArmedForWork'
  <2>1. \A q \in Prompts : stage'[q] = "announcing" => stage[q] = "announcing"
    BY <1>8
  <2>2. armed' => armed /\ up /\ up'
    BY <1>1, <1>4, <1>5, <1>7 DEF ArmedForWork
  <2>3. ASSUME armed', ~failed
        PROVE  \/ turn # {}
               \/ Range(cmds) \cap pending' \cap watched # {}
               \/ \E f \in WholeUnder(pipe)' : Clears(f)'
    <3>1. \A p \in pending, s \in Range(handled.settled) :
            Answers(s, p) => s \in WholeUnder(pipe) /\ s.id = p
      BY <1>1, <1>4, TurnFrame DEF Answers
    <3>2. CASE turn # {}
      BY <3>2
    <3>3. ASSUME NEW p \in Range(cmds) \cap pending \cap watched PROVE p \in pending'
      <4>1. \A f \in WholeUnder(pipe) : ~Answers(f, p)
        BY <1>1, <3>3 DEF AnsweredOnce
      <4>2. QED
        BY <1>4, <1>7, <3>1, <3>3, <4>1
    <3>4. ASSUME NEW f \in WholeUnder(pipe), Clears(f)
          PROVE  f \in WholeUnder(pipe)' /\ Clears(f)'
      <4>1. f \notin Range(frames) \/ f.type \notin {"agent_end", "prompt_result"}
        BY <1>4, <1>5, <1>7, <2>2, <2>3, <3>4 DEF Clears, Observed
      <4>2. ASSUME f.type = "response", ~f.ok, f.id \in pending \cap watched
            PROVE  f \notin Range(frames) /\ f.id \in pending'
        <5>1. Answers(f, f.id)
          BY <3>4, <4>2 DEF Clears, Answers
        <5>2. f.id \in handled.pending
          <6>1. SUFFICES ASSUME f.id \notin handled.pending PROVE FALSE
            OBVIOUS
          <6>2. PICK s \in Range(handled.settled) : Answers(s, f.id)
            BY <1>4, <4>2, <6>1
          <6>3. s \in WholeUnder(pipe) /\ s.id = f.id
            BY <3>1, <4>2, <6>2
          <6>4. s = f
            BY <1>1, <4>2, <5>1, <6>2, <6>3 DEF AnsweredOnce
          <6>5. QED
            BY <1>5, <1>7, <2>3, <4>2, <6>2, <6>4
        <5>3. QED
          BY <1>4, <1>7, <5>1, <5>2
      <4>3. QED
        BY <3>4, <4>1, <4>2 DEF Clears
    <3>5. QED
      BY <1>1, <2>2, <2>3, <3>2, <3>3, <3>4 DEF ArmedForWork
  <2>4. UNCHANGED <<turn, cmds, running, failed, watched, stale>>
    BY <1>2
  <2>5. \A q \in Prompts : stage'[q] = "announcing" => q \in watched' /\ (q \in stale' \/ up')
    <3>1. up => up'
      BY <1>4, <1>7
    <3>2. QED
      BY <1>1, <2>1, <2>4, <3>1 DEF ArmedForWork
  <2>6. armed' /\ ~failed' =>
          \/ turn' # {}
          \/ Range(cmds') \cap pending' \cap watched' # {}
          \/ \E f \in WholeUnder(pipe)' : Clears(f)'
    BY <2>3, <2>4
  <2>7. QED
    BY <2>2, <2>5, <2>6 DEF ArmedForWork
<1>14. QED
  BY <1>9, <1>10, <1>11, <1>12, <1>13 DEF IInv

-----------------------------------------------------------------------------
\* The invariant and its theorems.

\* A "data" event.
LEMMA DataStep ==
  ASSUME IInv, Data
  PROVE  IInv'
<1>1. DeliveryTypeOK /\ running
  BY DEF IInv, Data
<1>2. PICK k \in 1..Len(pipe) :
        LET pushed == Push(decoder, SubSeq(pipe, 1, k))
            frames == pushed.frames
            handled == FoldLeft(HandleFrame, Handling, frames)
            after == FoldLeft(GoOn, handled, handled.settled)
        IN  /\ decoder' = IF Negotiated \in Range(frames) THEN EnableV2(pushed.decoder)
                         ELSE pushed.decoder
            /\ pipe' = SubSeq(pipe, pushed.read + 1, Len(pipe))
            /\ IF pushed.threw
                 THEN /\ failed' = TRUE
                      /\ Become(Reject(Handling, pending))
                      /\ stage' = StageAfter(<<>>, pending)
                      /\ unread' = <<>> /\ UNCHANGED inOrder
                 ELSE /\ UNCHANGED failed
                      /\ Become(after)
                      /\ stage' = StageAfter(handled.settled, {})
                      /\ unread' = SubSeq(unread, Len(frames) + 1, Len(unread))
                      /\ inOrder' = (inOrder /\ (failed \/ IsPrefix(frames, unread)))
  BY DEF Data
<1>3. UNCHANGED <<running, ompVars, watched, draining, stale, aborting, countVars, finished>>
  BY DEF Data
<1> DEFINE pushed == Push(decoder, SubSeq(pipe, 1, k))
           frames == pushed.frames
           handled == FoldLeft(HandleFrame, Handling, frames)
           after == FoldLeft(GoOn, handled, handled.settled)
           left == SubSeq(pipe, pushed.read + 1, Len(pipe))
<1>4. /\ pushed.decoder \in OpenDecoders /\ pushed.threw \in BOOLEAN
      /\ pushed.read \in 0..Len(pipe) /\ (~pushed.threw => pushed.read = k)
      /\ frames \in Seq(PromptFrames)
      /\ \A i \in DOMAIN frames : frames[i] # Negotiated => ToldTruly(frames[i])
      /\ Range(frames) \subseteq WholeUnder(pipe) \cup {Output}
      /\ ~pushed.threw =>
           WholeUnder(pipe) \subseteq
             Range(frames) \cup WholeUnder(SubSeq(pipe, k + 1, Len(pipe)))
  BY PieceRead
<1>5. /\ decoder' = IF Negotiated \in Range(frames) THEN EnableV2(pushed.decoder)
                   ELSE pushed.decoder
      /\ pipe' = left
      /\ pushed.threw =>
           /\ failed' = TRUE /\ Become(Reject(Handling, pending))
           /\ stage' = StageAfter(<<>>, pending) /\ unread' = <<>> /\ UNCHANGED inOrder
      /\ ~pushed.threw =>
           /\ UNCHANGED failed /\ Become(after) /\ stage' = StageAfter(handled.settled, {})
           /\ unread' = SubSeq(unread, Len(frames) + 1, Len(unread))
           /\ inOrder' = (inOrder /\ (failed \/ IsPrefix(frames, unread)))
  BY <1>2
<1>6. left \in Seq(Lines) /\ \A kind : Carried(left, kind) \subseteq Carried(pipe, kind)
  <2> DEFINE read == pushed.read
  <2>1. read \in 0..Len(pipe)
    BY <1>4
  <2> HIDE DEF read
  <2>2. /\ SubSeq(pipe, read + 1, Len(pipe)) \in Seq(Lines)
        /\ \A kind : Carried(SubSeq(pipe, read + 1, Len(pipe)), kind) \subseteq Carried(pipe, kind)
    BY <1>1, <2>1, LinesLeft
  <2>3. QED
    BY <2>2 DEF read
<1>7. ~pushed.threw => WholeUnder(pipe) \subseteq Range(frames) \cup WholeUnder(left)
  BY <1>4
<1> HIDE DEF left, pushed
<1>8. pipe' \in Seq(Lines) /\ \A kind : Carried(pipe', kind) \subseteq Carried(pipe, kind)
  BY <1>5, <1>6
<1>9. decoder' \in OpenDecoders
  <2>1. \A d \in OpenDecoders : EnableV2(d) \in OpenDecoders
    BY DEF OpenDecoders, Decoders, EnableV2
  <2>2. QED
    BY <1>4, <1>5, <2>1
<1>10. CASE pushed.threw
  BY <1>1, <1>3, <1>5, <1>8, <1>9, <1>10, DataThrew
<1>11. CASE ~pushed.threw
  <2>1. /\ UNCHANGED failed /\ Become(after) /\ stage' = StageAfter(handled.settled, {})
        /\ unread' = SubSeq(unread, Len(frames) + 1, Len(unread))
        /\ inOrder' = (inOrder /\ (failed \/ IsPrefix(frames, unread)))
    BY <1>5, <1>11
  <2>2. WholeUnder(pipe) \subseteq Range(frames) \cup WholeUnder(pipe)'
    BY <1>5, <1>7, <1>11
  <2>3. unread' \in Seq(PromptFrames)
    <3>1. unread \in Seq(PromptFrames)
      BY <1>1 DEF DeliveryTypeOK
    <3>2. frames \in Seq(PromptFrames)
      BY <1>4
    <3> HIDE DEF frames
    <3>3. Len(frames) + 1 \in Nat /\ Len(frames) + 1 >= 1
      BY <3>2
    <3>4. QED
      BY <2>1, <3>1, <3>3
  <2>4. inOrder' \in BOOLEAN
    BY <2>1
  <2> HIDE DEF frames, handled
  <2>5. handled = FoldLeft(HandleFrame, Handling, frames)
    BY DEF handled
  <2>6. after = FoldLeft(GoOn, handled, handled.settled)
    OBVIOUS
  <2> HIDE DEF after
  <2>7. QED
    BY <1>1, <1>3, <1>4, <1>8, <1>9, <2>1, <2>2, <2>3, <2>4, <2>5, <2>6, DataHandled
<1>12. QED
  BY <1>10, <1>11

\* A runtime starts with nothing sent.
LEMMA InitIInv ==
  ASSUME DeliveryInit
  PROVE  IInv
<1>1. /\ running = TRUE /\ turn = {} /\ silent = FALSE /\ followUps = <<>> /\ cmds = <<>>
      /\ pipe = <<Whole(Negotiated)>> /\ decoder = BeginNegotiation(NewDecoder)
      /\ pending = {} /\ up = FALSE /\ failed = FALSE
      /\ stage = [p \in Prompts |-> "unsent"] /\ watched = {}
      /\ drafts = <<>> /\ draining = <<>> /\ stale = {}
      /\ streaming = FALSE /\ armed = FALSE /\ aborting = FALSE
      /\ owns = 0 /\ soiled = 0 /\ restarts = 0 /\ broken = FALSE /\ dropped = {}
      /\ restored = [p \in Prompts |-> 0] /\ finished = {} /\ swept = {}
      /\ unread = <<Negotiated>> /\ inOrder = TRUE
  BY DEF DeliveryInit
<1>2. pipe \in Seq(Lines) /\ WholeUnder(pipe) = {Negotiated} /\ Carried(pipe, "chunk") = {}
  <2>1. Whole(Negotiated) \in Lines
    BY DecoderAssumption DEF Lines
  <2>2. DOMAIN pipe = {1} /\ pipe[1] = Whole(Negotiated)
    BY <1>1
  <2>3. Whole(Negotiated).kind = "whole" /\ Whole(Negotiated).frame = Negotiated
    BY DEF Whole
  <2>4. pipe \in Seq(Lines)
    BY <1>1, <2>1
  <2>5. QED
    BY <2>2, <2>3, <2>4 DEF WholeUnder, Carried
<1>3. DeliveryTypeOK
  <2>1. unread \in Seq(PromptFrames)
    BY <1>1, TurnFrame
  <2>2. decoder \in Decoders /\ Len(decoder.assembly) <= 1
    <3>1. decoder = [assembly |-> <<>>, negotiating |-> TRUE, v2 |-> FALSE]
      BY <1>1 DEF BeginNegotiation, NewDecoder
    <3>2. QED
      BY <3>1 DEF Decoders
  <2>3. turn \in Turns /\ stage \in [Prompts -> Stages] /\ restored \in [Prompts -> Nat]
    BY <1>1 DEF Turns, Stages
  <2>4. /\ followUps \in Seq(Prompts) /\ cmds \in Seq(Prompts \cup {Abort})
        /\ drafts \in Seq(Prompts) /\ draining \in Seq(Seq(Prompts)) /\ Len(draining) <= 1
    BY <1>1
  <2>5. /\ owns \in 0..MaxOwn /\ soiled \in 0..MaxSoiled /\ restarts \in 0..MaxRestarted
    BY <1>1, DeliveryAssumption
  <2>6. QED
    BY <1>1, <1>2, <2>1, <2>2, <2>3, <2>4, <2>5 DEF DeliveryTypeOK
<1>4. PipeTrue
  BY <1>2, TurnFrame DEF PipeTrue
<1>5. PlacesKept
  <2>1. Range(drafts) = {} /\ OneDraft(drafts)
    BY <1>1 DEF Range, OneDraft
  <2>2. \A q \in Prompts : restored[q] = 0 /\ stage[q] = "unsent"
    BY <1>1
  <2>3. \A q \in Prompts : InPlaces(q) = 0
    BY <1>1, <2>1, <2>2 DEF InPlaces
  <2>4. QED
    BY <1>1, <2>1, <2>2, <2>3 DEF PlacesKept, PromptKept
<1>6. AnsweredOnce
  <2>1. Range(cmds) = {} /\ DOMAIN cmds = {} /\ \A q : ~Answers(Negotiated, q)
    BY <1>1 DEF Range, Answers
  <2>2. QED
    BY <1>2, <2>1 DEF AnsweredOnce
<1>7. ArmedForWork
  BY <1>1 DEF ArmedForWork
<1>8. QED
  BY <1>3, <1>4, <1>5, <1>6, <1>7 DEF IInv

\* Nothing happens.
LEMMA Stutter ==
  ASSUME IInv, UNCHANGED deliveryVars
  PROVE  IInv'
<1>1. UNCHANGED <<turn, silent, followUps, cmds, running, pipe, decoder, pending, up, failed,
                  stage, watched, drafts, draining, stale, streaming, armed, aborting,
                  owns, soiled, restarts, broken, dropped, restored, finished, swept, unread,
                  inOrder>>
  BY DEF deliveryVars, ompVars, wireVars, hostVars, countVars, proofVars
<1>2. DeliveryTypeOK'
  BY <1>1 DEF IInv, DeliveryTypeOK
<1>3. PipeTrue'
  BY <1>1 DEF IInv, PipeTrue, ToldTruly
<1>4. PlacesKept'
  BY <1>1 DEF IInv, PlacesKept, PromptKept, InPlaces
<1>5. AnsweredOnce'
  BY <1>1 DEF IInv, AnsweredOnce
<1>6. ArmedForWork'
  BY <1>1 DEF IInv, ArmedForWork, Clears
<1>7. QED
  BY <1>2, <1>3, <1>4, <1>5, <1>6 DEF IInv

\* The invariant is inductive.
LEMMA Inductive ==
  ASSUME IInv, [DeliveryNext]_deliveryVars
  PROVE  IInv'
<1>1. CASE OmpReads
  BY <1>1, OmpReadsStep
<1>2. CASE OmpOutput
  BY <1>2, OmpOutputStep
<1>3. CASE OmpEnds
  BY <1>3, OmpEndsStep
<1>4. CASE OmpBegins
  BY <1>4, OmpBeginsStep
<1>5. CASE OmpSoils
  BY <1>5, OmpSoilsStep
<1>6. CASE Data
  BY <1>6, DataStep
<1>7. ASSUME NEW p \in Prompts, Submit(p) PROVE IInv'
  BY <1>7, SubmitStep
<1>8. ASSUME NEW p \in Prompts, Prepared(p) PROVE IInv'
  BY <1>8, PreparedStep
<1>9. ASSUME NEW p \in Prompts, Announced(p) PROVE IInv'
  BY <1>9, AnnouncedStep
<1>10. ASSUME NEW p \in Prompts, TimesOut(p) PROVE IInv'
  BY <1>10, TimesOutStep
<1>11. CASE TimerFires
  BY <1>11, TimerFiresStep
<1>12. CASE AbortSent
  BY <1>12, AbortSentStep
<1>13. CASE Exit
  BY <1>13, ExitStep
<1>14. CASE ParityBlocked
  BY <1>14, ParityBlockedStep
<1>15. CASE Restart
  BY <1>15, RestartStep
<1>16. CASE Restarted
  BY <1>16, RestartedStep
<1>17. CASE RestartFails
  BY <1>17, RestartFailsStep
<1>18. CASE UNCHANGED deliveryVars
  BY <1>18, Stutter
<1>19. QED
  BY <1>1, <1>2, <1>3, <1>4, <1>5, <1>6, <1>7, <1>8, <1>9, <1>10, <1>11, <1>12, <1>13,
     <1>14, <1>15, <1>16, <1>17, <1>18 DEF DeliveryNext

\* The invariant holds of every state of every behaviour.
LEMMA AlwaysIInv == DeliverySpec => []IInv
<1>1. DeliveryInit => IInv
  BY InitIInv
<1>2. IInv /\ [DeliveryNext]_deliveryVars => IInv'
  BY Inductive
<1>3. QED
  BY <1>1, <1>2, PTL DEF DeliverySpec

\* Every variable has its type.
THEOREM TypeSafety == DeliverySpec => []DeliveryTypeOK
<1>1. IInv => DeliveryTypeOK
  BY DEF IInv
<1>2. QED
  BY <1>1, AlwaysIInv, PTL

\* PromptKept, for any prompts, any frames and any bounds: a prompt that was sent is lost in
\* two ways only, to the end of a turn that names no prompt and to a restart whose wait for
\* the teardowns is rejected.  Until OMP has dealt with it, it is otherwise a draft of the
\* lifecycle, held by a restart that gives it back or in the composer, once, through every
\* order of exits, restarts, refusals, timeouts and soiled output.
THEOREM PromptSafety == DeliverySpec => []PromptKept
<1>1. IInv => PromptKept
  BY DEF IInv, PlacesKept
<1>2. QED
  BY <1>1, AlwaysIInv, PTL

\* TimerHasWork, for any prompts, any frames and any bounds: the timeout that stands for the
\* end of a turn is armed only for a runtime that has work or has told of its end.
THEOREM TimerSafety == DeliverySpec => []TimerHasWork
<1>1. ASSUME IInv PROVE TimerHasWork
  <2>1. SUFFICES ASSUME armed, up, running, ~failed, pipe = <<>>
                 PROVE  turn # {} \/ Range(cmds) \cap Prompts # {}
    BY DEF TimerHasWork
  <2>2. WholeUnder(pipe) = {}
    BY <2>1 DEF WholeUnder, Carried
  <2>3. turn # {} \/ Range(cmds) \cap pending \cap watched # {}
    BY <1>1, <2>1, <2>2 DEF IInv, ArmedForWork
  <2>4. watched \subseteq Prompts
    BY <1>1 DEF IInv, DeliveryTypeOK
  <2>5. QED
    BY <2>3, <2>4
<1>2. QED
  BY <1>1, AlwaysIInv, PTL

-----------------------------------------------------------------------------
\* The frames arrive in order.

\* The push of a piece, when i of its lines are read.
Read(d, lines, i) == FoldLeft(PushLine, Unpushed(d), SubSeq(lines, 1, i))
\* What may follow the first chunk of the output.
Tails ==
  Strays \cup
  {Chunk(id, 1, 2, MinChunked, MinChunked - MaxChunkBytes, Output) : id \in ChunkIds}
\* As long as no line throws, the lines give the frames that were written, in order.  A
\* run of chunks that is open is of the output that comes next.
ReadTruly(d, lines, written, i) ==
  LET r == Read(d, lines, i) IN
  ~r.threw =>
    /\ IsPrefix(r.frames, written)
    /\ Negotiated \in Range(r.frames) => r.decoder.v2 /\ ~r.decoder.negotiating
    /\ r.decoder.assembly # <<>> =>
         /\ i < Len(lines) /\ lines[i + 1] \in Tails
         /\ IsPrefix(Append(r.frames, Output), written)
\* All the lines together give all the frames.
ReadsAll(d, lines, written) ==
  /\ \A i \in 0..Len(lines) : ReadTruly(d, lines, written, i)
  /\ LET all == Read(d, lines, Len(lines)) IN
     ~all.threw => all.frames = written /\ all.decoder.v2
\* A runtime that has not broken the protocol.
Works == running /\ ~failed
\* The lines tell the frames that were written and not handled.
WireTrue ==
  /\ inOrder
  /\ running /\ ~failed =>
       /\ ReadsAll(decoder, pipe, unread)
       /\ soiled = 0 => ~Read(decoder, pipe, Len(pipe)).threw

\* A push is read line by line.
LEMMA ReadLines ==
  ASSUME NEW d \in OpenDecoders, NEW ls \in Seq(Lines)
  PROVE  /\ Read(d, ls, 0) = Unpushed(d)
         /\ \A i \in 0..Len(ls) : Read(d, ls, i) \in Pushes
         /\ \A i \in 1..Len(ls) : Read(d, ls, i) = PushLine(Read(d, ls, i - 1), ls[i])
         /\ FoldLeft(PushLine, Unpushed(d), ls) = Read(d, ls, Len(ls))
<1> DEFINE n == Len(ls)
<1>1. PICK g : /\ g[0] = Unpushed(d)
               /\ \A i \in 0..n : g[i] \in Pushes
               /\ \A i \in 1..n : g[i] = PushLine(g[i - 1], ls[i])
               /\ FoldLeft(PushLine, Unpushed(d), ls) = g[n]
  BY PushTrace
<1>2. n \in Nat
  OBVIOUS
<1>3. ASSUME NEW k \in 0..n PROVE Read(d, ls, k) = g[k]
  <2> DEFINE part == SubSeq(ls, 1, k)
  <2>1. part \in Seq(Lines) /\ Len(part) = k /\ \A i \in 1..k : part[i] = ls[i] /\ i \in 1..n
    OBVIOUS
  <2>2. Read(d, ls, k) = FoldLeft(PushLine, Unpushed(d), part)
    BY DEF Read
  <2> HIDE DEF part
  <2>3. PICK f : /\ f[0] = Unpushed(d)
                 /\ \A i \in 1..k : f[i] = PushLine(f[i - 1], part[i])
                 /\ FoldLeft(PushLine, Unpushed(d), part) = f[k]
    BY <2>1, PushTrace
  <2> DEFINE S == [i \in 0..k |-> {g[i]}]
  <2>4. f[0] \in S[0]
    BY <1>1, <1>2, <2>3
  <2>5. ASSUME NEW i \in 1..k, f[i - 1] \in S[i - 1] PROVE f[i] \in S[i]
    <3>1. i \in 0..k /\ i - 1 \in 0..k /\ i \in 1..n
      BY <2>1
    <3>2. f[i - 1] = g[i - 1]
      BY <2>5, <3>1
    <3>3. f[i] = g[i]
      BY <1>1, <2>1, <2>3, <3>1, <3>2
    <3>4. QED
      BY <3>1, <3>3
  <2> HIDE DEF S
  <2>6. \A i \in 0..k : f[i] \in S[i]
    <3>1. k \in Nat
      BY <1>2
    <3>2. QED
      BY <2>4, <2>5, <3>1, Along
  <2>7. f[k] \in S[k] /\ k \in 0..k
    BY <2>6
  <2>8. QED
    BY <2>2, <2>3, <2>7 DEF S
<1>4. \A i \in 1..n : i \in 0..n /\ i - 1 \in 0..n
  BY <1>2
<1>5. 0 \in 0..n /\ n \in 0..n
  BY <1>2
<1>6. QED
  BY <1>1, <1>3, <1>4, <1>5

\* What is read depends on the lines that are read.
LEMMA ReadSame ==
  ASSUME NEW a \in Seq(Lines), NEW b \in Seq(Lines), NEW d, NEW k \in Nat,
         k <= Len(a), k <= Len(b), \A j \in 1..k : a[j] = b[j]
  PROVE  \A i \in 0..k : Read(d, a, i) = Read(d, b, i)
<1> SUFFICES ASSUME NEW i \in 0..k PROVE Read(d, a, i) = Read(d, b, i)
  OBVIOUS
<1> DEFINE x == SubSeq(a, 1, i)
           y == SubSeq(b, 1, i)
<1>1. /\ x \in Seq(Lines) /\ y \in Seq(Lines) /\ Len(x) = i /\ Len(y) = i
      /\ \A j \in 1..i : x[j] = a[j] /\ y[j] = b[j] /\ j \in 1..k
  OBVIOUS
<1>2. Read(d, a, i) = FoldLeft(PushLine, Unpushed(d), x)
      /\ Read(d, b, i) = FoldLeft(PushLine, Unpushed(d), y)
  BY DEF Read
<1> HIDE DEF x, y
<1>3. x = y
  BY <1>1, SeqEqual
<1>4. QED
  BY <1>2, <1>3

\* A push that threw reads no further.
LEMMA ReadThrew ==
  ASSUME NEW d \in OpenDecoders, NEW ls \in Seq(Lines), NEW i \in 1..Len(ls),
         Read(d, ls, i - 1).threw
  PROVE  Read(d, ls, i).threw
<1>1. i - 1 \in 0..Len(ls) /\ Read(d, ls, i - 1) \in Pushes
  <2>1. i - 1 \in 0..Len(ls)
    BY LenProperties
  <2>2. QED
    BY <2>1, ReadLines
<1>2. Read(d, ls, i) = PushLine(Read(d, ls, i - 1), ls[i])
  BY ReadLines
<1>3. QED
  BY <1>2 DEF PushLine

\* One line more.
LEMMA ReadLine ==
  ASSUME NEW d \in OpenDecoders, NEW ls \in Seq(Lines), NEW i \in 1..Len(ls),
         ~Read(d, ls, i - 1).threw
  PROVE  LET r == Read(d, ls, i - 1)
             next == DecodeLine(r.decoder, ls[i])
         IN  /\ r \in Pushes /\ r.decoder \in OpenDecoders
             /\ Read(d, ls, i).decoder = next.decoder
             /\ Read(d, ls, i).frames = r.frames \o next.frames
             /\ Read(d, ls, i).threw = next.threw
<1>1. i - 1 \in 0..Len(ls) /\ Read(d, ls, i - 1) \in Pushes
  <2>1. i - 1 \in 0..Len(ls)
    BY LenProperties
  <2>2. QED
    BY <2>1, ReadLines
<1>2. Read(d, ls, i) = PushLine(Read(d, ls, i - 1), ls[i])
  BY ReadLines
<1> DEFINE r == Read(d, ls, i - 1)
           line == ls[i]
           next == DecodeLine(r.decoder, line)
           n == Read(d, ls, i)
<1>3. r \in Pushes /\ ~r.threw /\ n = PushLine(r, line)
  BY <1>1, <1>2
<1> HIDE DEF r, line, n
<1>4. n = [decoder |-> next.decoder, frames |-> r.frames \o next.frames,
           threw |-> next.threw, read |-> r.read + 1]
  BY <1>3 DEF PushLine
<1>5. r.decoder \in OpenDecoders
  BY <1>3 DEF Pushes
<1>6. n.decoder = next.decoder /\ n.frames = r.frames \o next.frames /\ n.threw = next.threw
  BY <1>4
<1>7. QED
  BY <1>3, <1>5, <1>6 DEF r, line, n
\* One line more, as one fact about the values before and after it.
OneMore(r, line, n) ==
  LET next == DecodeLine(r.decoder, line) IN
  n.decoder = next.decoder /\ n.frames = r.frames \o next.frames /\ n.threw = next.threw
\* The reading of one more line.
LEMMA ReadNext ==
  ASSUME NEW d \in OpenDecoders, NEW ls \in Seq(Lines), NEW i \in 0..Len(ls), i < Len(ls),
         NEW line, line = ls[i + 1], ~Read(d, ls, i).threw
  PROVE  /\ Read(d, ls, i) \in Pushes /\ Read(d, ls, i).decoder \in OpenDecoders
         /\ OneMore(Read(d, ls, i), line, Read(d, ls, i + 1))
<1> DEFINE j == i + 1
<1>1. j \in 1..Len(ls) /\ j - 1 = i
  OBVIOUS
<1>2. ~Read(d, ls, j - 1).threw /\ ls[j] = line
  BY <1>1
<1> HIDE DEF j
<1>3. /\ Read(d, ls, j - 1) \in Pushes /\ Read(d, ls, j - 1).decoder \in OpenDecoders
      /\ OneMore(Read(d, ls, j - 1), ls[j], Read(d, ls, j))
  BY <1>1, <1>2, ReadLine DEF OneMore
<1>4. QED
  BY <1>1, <1>2, <1>3 DEF j

\* What a line gives are frames.
LEMMA DecodedFrames ==
  ASSUME NEW d \in OpenDecoders, NEW line \in Lines
  PROVE  DecodeLine(d, line).frames \in Seq(Frames)
<1> DEFINE r == DecodeLine(d, line)
<1>1. r.frames = <<>> \/ (r.frames = <<line.frame>> /\ line.frame \in Frames)
  BY DecodeFacts
<1> DEFINE f == line.frame
<1>2. f \in Frames => <<f>> \in Seq(Frames)
  OBVIOUS
<1>3. <<>> \in Seq(Frames)
  OBVIOUS
<1> HIDE DEF r, f
<1>4. r.frames = <<>> \/ (r.frames = <<f>> /\ f \in Frames)
  BY <1>1 DEF f
<1>5. r.frames \in Seq(Frames)
  BY <1>2, <1>3, <1>4, Zenon
<1>6. QED
  BY <1>5 DEF r

\* x is y with the frames of first given before those of y.
Beyond(first, x, y) ==
  x.decoder = y.decoder /\ x.threw = y.threw /\ x.frames = first \o y.frames
\* Reading goes on where it stopped: from the decoder the first k lines left, the rest
\* gives what follows the frames of those.
LEMMA ReadRest ==
  ASSUME NEW d \in OpenDecoders, NEW ls \in Seq(Lines), NEW k \in 0..Len(ls),
         ~Read(d, ls, k).threw
  PROVE  LET r == Read(d, ls, k)
             rest == SubSeq(ls, k + 1, Len(ls))
         IN  /\ rest \in Seq(Lines) /\ Len(rest) = Len(ls) - k
             /\ \A i \in 1..Len(rest) : rest[i] = ls[k + i]
             /\ \A i \in 0..Len(rest) :
                  Beyond(r.frames, Read(d, ls, k + i), Read(r.decoder, rest, i))
<1> DEFINE r == Read(d, ls, k)
           rest == SubSeq(ls, k + 1, Len(ls))
           n == Len(ls) - k
<1>1. /\ Len(ls) \in Nat /\ n \in Nat /\ k \in Nat
      /\ rest \in Seq(Lines) /\ Len(rest) = n
      /\ \A i \in 1..n : rest[i] = ls[k + i] /\ k + i \in 1..Len(ls) /\ (k + i) - 1 = k + (i - 1)
  OBVIOUS
<1>2. r \in Pushes /\ r.decoder \in OpenDecoders /\ r.frames \in Seq(Frames)
  BY ReadLines DEF Pushes
<1>3. \A i \in 0..n : k + i \in 0..Len(ls)
  BY <1>1
<1> HIDE DEF rest, n
<1> DEFINE e == r.decoder
           first == r.frames
<1>4. /\ Read(e, rest, 0) = Unpushed(e)
      /\ \A i \in 0..n : Read(e, rest, i) \in Pushes
      /\ \A i \in 1..n : Read(e, rest, i) = PushLine(Read(e, rest, i - 1), rest[i])
  BY <1>1, <1>2, ReadLines
<1> DEFINE g == [i \in 0..n |-> Read(e, rest, i)]
           S == [i \in 0..n |-> {y \in Pushes : Beyond(first, Read(d, ls, k + i), y)}]
<1>5. g[0] \in S[0]
  <2>1. 0 \in 0..n /\ k + 0 = k
    BY <1>1
  <2>2. first \o <<>> = first
    BY <1>2, ConcatEmptySeq
  <2>3. Beyond(first, r, Unpushed(e))
    <3>1. r.threw = FALSE
      BY <1>2 DEF Pushes
    <3>2. Unpushed(e).decoder = e /\ Unpushed(e).frames = <<>> /\ Unpushed(e).threw = FALSE
      BY DEF Unpushed
    <3> HIDE DEF r
    <3>3. QED
      BY <2>2, <3>1, <3>2 DEF Beyond
  <2>4. QED
    BY <1>4, <2>1, <2>3
<1>6. ASSUME NEW i \in 1..n, g[i - 1] \in S[i - 1] PROVE g[i] \in S[i]
  <2> DEFINE x == Read(d, ls, k + (i - 1))
             y == Read(e, rest, i - 1)
             line == ls[k + i]
             next == DecodeLine(y.decoder, line)
  <2>1. i \in 0..n /\ i - 1 \in 0..n /\ k + (i - 1) \in 0..Len(ls)
    BY <1>1, <1>3
  <2>2. y \in Pushes /\ x \in Pushes /\ Beyond(first, x, y)
    BY <1>6, <2>1, ReadLines
  <2>3. Read(d, ls, k + i) = PushLine(x, line)
    BY <1>1, ReadLines
  <2>4. Read(e, rest, i) = PushLine(y, line)
    BY <1>1, <1>4
  <2>5. line \in Lines
    <3>1. k + i \in 1..Len(ls)
      BY <1>1
    <3>2. QED
      BY <3>1, ElementOfSeq
  <2>6. next.frames \in Seq(Frames) /\ y.frames \in Seq(Frames)
    <3> HIDE DEF y, line
    <3>1. y.decoder \in OpenDecoders /\ y.frames \in Seq(Frames)
      BY <2>2 DEF Pushes
    <3>2. QED
      BY <2>5, <3>1, DecodedFrames
  <2> HIDE DEF x, y, line
  <2>7. CASE y.threw
    BY <2>1, <2>2, <2>3, <2>4, <2>7, <1>4 DEF PushLine, Beyond
  <2>8. CASE ~y.threw
    <3>1. first \o (y.frames \o next.frames) = (first \o y.frames) \o next.frames
      <4>1. first \in Seq(Frames)
        BY <1>2
      <4> DEFINE a == y.frames
                 b == next.frames
      <4>2. a \in Seq(Frames) /\ b \in Seq(Frames)
        BY <2>6
      <4> HIDE DEF first, a, b
      <4>3. \A s, t, u \in Seq(Frames) : (s \o t) \o u = s \o (t \o u)
        BY ConcatAssociative, SMTT(30)
      <4>4. first \o (a \o b) = (first \o a) \o b
        BY <4>1, <4>2, <4>3
      <4>5. QED
        BY <4>4 DEF a, b
    <3>2. next = DecodeLine(x.decoder, line) /\ x.frames = first \o y.frames /\ ~x.threw
      BY <2>2, <2>8 DEF Beyond
    <3>3. Beyond(first, PushLine(x, line), PushLine(y, line))
      <4> HIDE DEF next, first
      <4>1. PushLine(y, line) = [decoder |-> next.decoder, frames |-> y.frames \o next.frames,
                                 threw |-> next.threw, read |-> y.read + 1]
        BY <2>8 DEF PushLine, next
      <4>2. PushLine(x, line) = [decoder |-> next.decoder, frames |-> x.frames \o next.frames,
                                 threw |-> next.threw, read |-> x.read + 1]
        BY <3>2 DEF PushLine
      <4> DEFINE both == y.frames \o next.frames
                 all == x.frames \o next.frames
                 m == PushLine(x, line)
                 l == PushLine(y, line)
      <4>3. /\ m = [decoder |-> next.decoder, frames |-> all,
                    threw |-> next.threw, read |-> x.read + 1]
            /\ l = [decoder |-> next.decoder, frames |-> both,
                    threw |-> next.threw, read |-> y.read + 1]
        BY <4>1, <4>2
      <4>4. all = first \o both
        BY <3>1, <3>2
      <4> HIDE DEF m, l, both, all
      <4>5. Beyond(first, m, l)
        BY <4>3, <4>4 DEF Beyond
      <4>6. QED
        BY <4>5 DEF m, l
    <3>4. QED
      BY <1>4, <2>1, <2>3, <2>4, <3>3
  <2>9. QED
    BY <2>7, <2>8
<1>7. \A i \in 0..n : g[i] \in S[i]
  <2> HIDE DEF g, S
  <2>1. QED
    BY <1>1, <1>5, <1>6, Along
<1>8. \A i \in 0..n : Beyond(first, Read(d, ls, k + i), Read(e, rest, i))
  BY <1>7
<1>9. QED
  BY <1>1, <1>8 DEF rest, n

\* What may follow the first chunk of the output is a line, and no first chunk.
LEMMA TailLine ==
  ASSUME NEW line \in Tails
  PROVE  /\ line \in Lines
         /\ \/ line.kind = "garbled"
            \/ /\ line.kind = "chunk" /\ line \in ChunkLines /\ line.frame = Output
               /\ ~WellFormed(line) \/ (line.index = 1 /\ line.count = 2)
<1>1. CASE line = Garbled
  BY <1>1 DEF Garbled, Lines
<1>2. ASSUME NEW id \in ChunkIds, NEW index \in 0..1,
             NEW bytes \in {MinChunked, MaxReassembled + 1},
             NEW size \in {MaxChunkBytes, MinChunked - MaxChunkBytes},
             line = Chunk(id, index, 2, bytes, size, Output),
             index = 1 \/ bytes = MaxReassembled + 1
      PROVE  /\ line \in Lines /\ line.kind = "chunk" /\ line \in ChunkLines
             /\ line.frame = Output
             /\ ~WellFormed(line) \/ (line.index = 1 /\ line.count = 2)
  <2>1. line \in Lines /\ line.kind = "chunk" /\ line.frame = Output
    BY <1>2, ChunkLine
  <2>2. line \in ChunkLines
    BY <2>1, LineKinds
  <2>3. line.index = index /\ line.count = 2 /\ line.bytes = bytes
    BY <1>2 DEF Chunk
  <2>4. CASE index = 1
    BY <2>1, <2>2, <2>3, <2>4
  <2>5. CASE bytes = MaxReassembled + 1
    <3>1. ~(bytes <= MaxReassembled)
      BY <2>5, DecoderAssumption
    <3>2. ~WellFormed(line)
      BY <2>3, <3>1 DEF WellFormed
    <3>3. QED
      BY <2>1, <2>2, <3>2
  <2>6. QED
    BY <1>2, <2>4, <2>5
<1>3. 0 \in 0..1 /\ 1 \in 0..1
  OBVIOUS
<1>4. \/ line = Garbled
      \/ \E id \in ChunkIds : line = Chunk(id, 1, 2, MinChunked, MaxChunkBytes, Output)
      \/ \E id \in ChunkIds : line = Chunk(id, 0, 2, MaxReassembled + 1, MaxChunkBytes, Output)
      \/ \E id \in ChunkIds :
           line = Chunk(id, 1, 2, MinChunked, MinChunked - MaxChunkBytes, Output)
  BY DEF Tails, Strays
<1>5. CASE \E id \in ChunkIds : line = Chunk(id, 1, 2, MinChunked, MaxChunkBytes, Output)
  BY <1>2, <1>3, <1>5
<1>6. CASE \E id \in ChunkIds :
             line = Chunk(id, 0, 2, MaxReassembled + 1, MaxChunkBytes, Output)
  BY <1>2, <1>3, <1>6
<1>7. CASE \E id \in ChunkIds :
             line = Chunk(id, 1, 2, MinChunked, MinChunked - MaxChunkBytes, Output)
  BY <1>2, <1>3, <1>7
<1>8. QED
  BY <1>1, <1>4, <1>5, <1>6, <1>7

\* It throws where no run of chunks is open, and ends the run that is, or throws.
LEMMA TailRead ==
  ASSUME NEW d \in OpenDecoders, NEW line \in Tails
  PROVE  LET r == DecodeLine(d, line) IN
         /\ d.assembly = <<>> => r.threw
         /\ ~r.threw =>
              /\ r.decoder.assembly = <<>> /\ r.frames = <<Output>>
              /\ r.decoder.v2 = d.v2 /\ r.decoder.negotiating = d.negotiating
<1> DEFINE r == DecodeLine(d, line)
           a == Assembly(d, line)
           received == a.received + line.size
           grown == [a EXCEPT !.next = @ + 1, !.received = received]
           open == [d EXCEPT !.assembly = <<grown>>]
           closed == Closed(open)
<1>1. /\ line \in Lines
      /\ \/ line.kind = "garbled"
         \/ /\ line.kind = "chunk" /\ line \in ChunkLines /\ line.frame = Output
            /\ ~WellFormed(line) \/ (line.index = 1 /\ line.count = 2)
  BY TailLine
<1>2. ~Negotiates(d, line)
  BY <1>1 DEF Negotiates
<1>3. CASE line.kind = "garbled"
  <2>1. r = Threw(d)
    BY <1>2, <1>3 DEF DecodeLine
  <2>2. QED
    BY <2>1 DEF Threw, Result
<1>4. CASE line.kind = "chunk" /\ ~d.v2
  <2>1. r = Threw(d)
    BY <1>2, <1>4 DEF DecodeLine
  <2>2. QED
    BY <2>1 DEF Threw, Result
<1>5. CASE line.kind = "chunk" /\ d.v2
  <2>1. r = AcceptChunk(d, line)
    BY <1>2, <1>5 DEF DecodeLine
  <2>2. CASE ~WellFormed(line) \/ (d.assembly = <<>> /\ line.index # 0)
    <3>1. r = Threw(d)
      BY <2>1, <2>2 DEF AcceptChunk
    <3>2. QED
      BY <3>1 DEF Threw, Result
  <2>3. CASE ~(~WellFormed(line) \/ (d.assembly = <<>> /\ line.index # 0))
    <3>1. line.index = 1 /\ line.count = 2 /\ d.assembly # <<>> /\ line.frame = Output
      BY <1>1, <1>5, <2>3
    <3>2. a = d.assembly[1] /\ a \in Assemblies
      <4>1. d.assembly \in Seq(Assemblies)
        BY DEF OpenDecoders, Decoders
      <4>2. QED
        BY <3>1, <4>1 DEF Assembly
    <3> HIDE DEF a
    <3>3. CASE ~Continues(a, line) \/ line.size > MaxChunkBytes
      <4>1. r = Threw([d EXCEPT !.assembly = <<a>>])
        BY <2>1, <2>3, <3>3 DEF AcceptChunk, a
      <4>2. QED
        BY <3>1, <4>1 DEF Threw, Result
    <3>4. CASE ~(~Continues(a, line) \/ line.size > MaxChunkBytes)
      <4>1. a.next = 1 /\ a.count = 2
        BY <3>1, <3>4 DEF Continues
      <4>2. ~(grown.next < a.count)
        BY <3>2, <4>1 DEF Assemblies
      <4> HIDE DEF grown, received
      <4>3. r = IF received > a.bytes THEN Threw(open)
                ELSE IF grown.next < a.count THEN Result(open, <<>>, FALSE)
                ELSE IF received # a.bytes THEN Threw(closed)
                ELSE Result(closed, <<line.frame>>, FALSE)
        BY <2>1, <2>3, <3>4 DEF AcceptChunk, a, grown, received
      <4>4. /\ closed.assembly = <<>> /\ closed.v2 = d.v2
            /\ closed.negotiating = d.negotiating
        BY DEF Closed, OpenDecoders, Decoders
      <4> HIDE DEF open, closed, r
      <4>5. CASE received > a.bytes \/ received # a.bytes
        <5>1. r = Threw(open) \/ r = Threw(closed)
          BY <4>2, <4>3, <4>5
        <5>2. QED
          BY <3>1, <5>1 DEF Threw, Result, r
      <4>6. CASE ~(received > a.bytes \/ received # a.bytes)
        <5>1. r = Result(closed, <<Output>>, FALSE)
          BY <3>1, <4>2, <4>3, <4>6
        <5>2. QED
          BY <3>1, <4>4, <5>1 DEF Result, r
      <4>7. QED
        BY <4>5, <4>6
    <3>5. QED
      BY <3>3, <3>4
  <2>4. QED
    BY <2>2, <2>3
<1>6. QED
  BY <1>1, <1>3, <1>4, <1>5

\* Prefixes, element by element.
LEMMA PrefixPoints ==
  ASSUME NEW S, NEW s \in Seq(S), NEW t \in Seq(S)
  PROVE  IsPrefix(s, t) <=> Len(s) <= Len(t) /\ \A i \in 1..Len(s) : s[i] = t[i]
<1> DEFINE n == Len(s)
           x == SubSeq(t, 1, n)
<1>1. n \in Nat /\ Len(t) \in Nat
  OBVIOUS
<1>2. SubSeq(s, 1, n) = s
  BY SubSeqFull
<1>3. ASSUME n <= Len(t)
      PROVE  x \in Seq(S) /\ Len(x) = n /\ \A i \in 1..n : x[i] = t[i]
  BY <1>1, <1>3
<1>4. IsPrefix(s, t) <=> n <= Len(t) /\ s = x
  BY <1>2 DEF IsPrefix
<1> HIDE DEF x
<1>5. CASE n <= Len(t)
  <2>1. s = x <=> \A i \in 1..n : s[i] = x[i]
    BY <1>3, <1>5, SeqEqual
  <2>2. QED
    BY <1>3, <1>4, <1>5, <2>1
<1>6. CASE ~(n <= Len(t))
  BY <1>4, <1>6
<1>7. QED
  BY <1>5, <1>6

\* A prefix of a sequence is one of what extends it.
LEMMA PrefixLonger ==
  ASSUME NEW S, NEW s \in Seq(S), NEW t \in Seq(S), NEW u \in Seq(S), IsPrefix(s, t)
  PROVE  IsPrefix(s, t \o u)
<1> DEFINE x == t \o u
<1>1. x \in Seq(S) /\ Len(t) <= Len(x) /\ \A i \in 1..Len(t) : x[i] = t[i]
  BY ConcatProperties, LenProperties
<1>2. Len(s) <= Len(t) /\ \A i \in 1..Len(s) : s[i] = t[i]
  BY PrefixPoints
<1>3. Len(s) \in Nat /\ Len(t) \in Nat /\ Len(x) \in Nat
  BY <1>1, LenProperties
<1> HIDE DEF x
<1>4. Len(s) <= Len(x) /\ \A i \in 1..Len(s) : s[i] = x[i]
  BY <1>1, <1>2, <1>3
<1>5. IsPrefix(s, x)
  BY <1>1, <1>4, PrefixPoints
<1>6. QED
  BY <1>5 DEF x

\* A sequence is a prefix of itself.
LEMMA PrefixSelf ==
  ASSUME NEW S, NEW s \in Seq(S)
  PROVE  IsPrefix(s, s)
<1>1. Len(s) <= Len(s)
  BY LenProperties
<1>2. QED
  BY <1>1, PrefixPoints

\* What is left of a prefix, and of all, when a part of it is taken away.
LEMMA PrefixRest ==
  ASSUME NEW S, NEW s \in Seq(S), NEW t \in Seq(S), NEW u \in Seq(S), IsPrefix(s \o t, u)
  PROVE  LET rest == SubSeq(u, Len(s) + 1, Len(u)) IN
         /\ rest \in Seq(S) /\ IsPrefix(t, rest) /\ IsPrefix(s, u)
         /\ s \o t = u => t = rest
<1> DEFINE x == s \o t
           rest == SubSeq(u, Len(s) + 1, Len(u))
           a == Len(s)
           b == Len(t)
           c == Len(u)
<1>1. /\ a \in Nat /\ b \in Nat /\ c \in Nat
      /\ x \in Seq(S) /\ Len(x) = a + b
      /\ \A i \in 1..(a + b) : x[i] = IF i <= a THEN s[i] ELSE t[i - a]
  BY ConcatProperties, LenProperties
<1>2. a + b <= c /\ \A i \in 1..(a + b) : x[i] = u[i]
  <2>1. IsPrefix(x, u)
    OBVIOUS
  <2>2. x \in Seq(S)
    BY <1>1
  <2> HIDE DEF x
  <2>3. Len(x) <= Len(u) /\ \A i \in 1..Len(x) : x[i] = u[i]
    BY <2>1, <2>2, PrefixPoints
  <2>4. QED
    BY <1>1, <2>3
<1>3. /\ rest \in Seq(S) /\ Len(rest) = c - a
      /\ \A i \in 1..(c - a) : rest[i] = u[a + i]
  <2>1. a <= c
    BY <1>1, <1>2
  <2>2. QED
    BY <1>1, <2>1
<1> HIDE DEF x, rest
<1>4. b <= c - a /\ \A i \in 1..b : t[i] = rest[i]
  <2>1. b <= c - a
    BY <1>1, <1>2
  <2>2. ASSUME NEW i \in 1..b PROVE t[i] = rest[i]
    <3>1. i \in 1..(c - a) /\ a + i \in 1..(a + b) /\ ~(a + i <= a) /\ (a + i) - a = i
      BY <1>1, <2>1
    <3>2. QED
      BY <1>1, <1>2, <1>3, <3>1
  <2>3. QED
    BY <2>1, <2>2
<1>5. IsPrefix(t, rest)
  BY <1>3, <1>4, PrefixPoints
<1>6. IsPrefix(s, u)
  <2>1. a <= c /\ \A i \in 1..a : s[i] = u[i] /\ i \in 1..(a + b)
    <3>1. \A i \in 1..a : i \in 1..(a + b) /\ i <= a
      BY <1>1
    <3>2. QED
      BY <1>1, <1>2, <3>1
  <2>2. QED
    BY <2>1, PrefixPoints
<1>7. ASSUME x = u PROVE t = rest
  <2>1. c = a + b
    BY <1>1, <1>7
  <2>2. Len(t) = Len(rest)
    BY <1>1, <1>3, <2>1
  <2>3. QED
    BY <1>3, <1>4, <2>2, SeqEqual
<1>8. QED
  BY <1>3, <1>5, <1>6, <1>7 DEF x, rest

\* A frame on a line of its own is given as it is.
LEMMA WholeRead ==
  ASSUME NEW d \in OpenDecoders, NEW f \in Frames, f # Negotiated, d.assembly = <<>>
  PROVE  DecodeLine(d, Whole(f)) = Result(d, <<f>>, FALSE)
<1>1. Whole(f).kind = "whole" /\ Whole(f).frame = f
  BY DEF Whole
<1>2. ~Negotiates(d, Whole(f))
  BY <1>1 DEF Negotiates
<1>3. QED
  BY <1>1, <1>2 DEF DecodeLine

\* The first chunk of the output opens a run, and gives nothing.
LEMMA FirstRead ==
  ASSUME NEW d \in OpenDecoders, d.assembly = <<>>, d.v2, NEW id \in ChunkIds
  PROVE  LET x == Chunk(id, 0, 2, MinChunked, MaxChunkBytes, Output)
             r == DecodeLine(d, x)
         IN  /\ ~r.threw /\ r.frames = <<>> /\ r.decoder \in OpenDecoders
             /\ r.decoder.v2 = d.v2 /\ r.decoder.negotiating = d.negotiating
             /\ r.decoder.assembly =
                  <<[id |-> id, count |-> 2, bytes |-> MinChunked, next |-> 1,
                     received |-> MaxChunkBytes]>>
<1> DEFINE x == Chunk(id, 0, 2, MinChunked, MaxChunkBytes, Output)
           a == Assembly(d, x)
           grown == [a EXCEPT !.next = @ + 1, !.received = a.received + x.size]
           open == [d EXCEPT !.assembly = <<grown>>]
           r == DecodeLine(d, x)
<1>1. /\ MinChunked \in Nat /\ MaxChunkBytes \in Nat \ {0} /\ MaxReassembled \in Nat
      /\ MaxChunks \in Nat /\ MinChunked >= 2 /\ MinChunked <= MaxReassembled
      /\ MaxChunks >= 2 /\ MaxChunkBytes <= MinChunked
  BY DecoderAssumption, FramesAssumption
<1>2. x \in Lines /\ x.kind = "chunk" /\ x.frame = Output
  BY ChunkLine
<1>3. /\ x.id = id /\ x.index = 0 /\ x.count = 2 /\ x.bytes = MinChunked
      /\ x.size = MaxChunkBytes
  BY DEF Chunk
<1> HIDE DEF x
<1>4. a = [id |-> id, count |-> 2, bytes |-> MinChunked, next |-> 0, received |-> 0]
  BY <1>3 DEF Assembly
<1>5. grown = [id |-> id, count |-> 2, bytes |-> MinChunked, next |-> 1,
               received |-> MaxChunkBytes]
  <2>1. a.received + x.size = MaxChunkBytes /\ a.next + 1 = 1
    BY <1>1, <1>3, <1>4
  <2> DEFINE sum == a.received + x.size
             next == a.next + 1
  <2>2. sum = MaxChunkBytes /\ next = 1
    BY <2>1
  <2>3. grown = [a EXCEPT !.next = next, !.received = sum]
    OBVIOUS
  <2> HIDE DEF a, sum, next, grown
  <2>4. QED
    BY <1>4, <2>2, <2>3
<1>6. Continues(a, x) /\ WellFormed(x) /\ ~(x.size > MaxChunkBytes)
  BY <1>1, <1>3, <1>4 DEF Continues, WellFormed
<1>7. /\ ~(a.received + x.size > a.bytes) /\ grown.next < a.count
  BY <1>1, <1>3, <1>4, <1>5
<1>8. r = AcceptChunk(d, x)
  BY <1>2 DEF DecodeLine, Negotiates
<1>9. r = Result(open, <<>>, FALSE)
  BY <1>3, <1>6, <1>7, <1>8 DEF AcceptChunk
<1>10. /\ open.assembly = <<grown>> /\ open.v2 = d.v2 /\ open.negotiating = d.negotiating
  BY DEF OpenDecoders, Decoders
<1>11. r.decoder \in OpenDecoders
  BY <1>2, DecodeFacts
<1> HIDE DEF a, grown, open, r
<1>12. /\ ~r.threw /\ r.frames = <<>> /\ r.decoder = open
  BY <1>9 DEF Result
<1>13. QED
  BY <1>5, <1>10, <1>11, <1>12 DEF r, x

\* The second ends it.
LEMMA SecondRead ==
  ASSUME NEW d \in OpenDecoders, d.v2, NEW id \in ChunkIds,
         d.assembly = <<[id |-> id, count |-> 2, bytes |-> MinChunked, next |-> 1,
                         received |-> MaxChunkBytes]>>
  PROVE  LET y == Chunk(id, 1, 2, MinChunked, MinChunked - MaxChunkBytes, Output)
             r == DecodeLine(d, y)
         IN  /\ ~r.threw /\ r.frames = <<Output>> /\ r.decoder \in OpenDecoders
             /\ r.decoder.v2 = d.v2 /\ r.decoder.negotiating = d.negotiating
             /\ r.decoder.assembly = <<>>
<1> DEFINE y == Chunk(id, 1, 2, MinChunked, MinChunked - MaxChunkBytes, Output)
           a == Assembly(d, y)
           received == a.received + y.size
           grown == [a EXCEPT !.next = @ + 1, !.received = received]
           open == [d EXCEPT !.assembly = <<grown>>]
           r == DecodeLine(d, y)
<1>1. /\ MinChunked \in Nat /\ MaxChunkBytes \in Nat \ {0} /\ MaxReassembled \in Nat
      /\ MaxChunks \in Nat /\ MinChunked >= 2 /\ MinChunked <= MaxReassembled
      /\ MaxChunks >= 2 /\ MinChunked - MaxChunkBytes \in 1..MaxChunkBytes
  BY DecoderAssumption, FramesAssumption
<1>2. y \in Lines /\ y.kind = "chunk" /\ y.frame = Output
  BY ChunkLine
<1>3. /\ y.id = id /\ y.index = 1 /\ y.count = 2 /\ y.bytes = MinChunked
      /\ y.size = MinChunked - MaxChunkBytes
  BY DEF Chunk
<1> HIDE DEF y
<1>4. a = [id |-> id, count |-> 2, bytes |-> MinChunked, next |-> 1,
           received |-> MaxChunkBytes]
  BY DEF Assembly
<1>5. received = MinChunked /\ grown.next = 2
  BY <1>1, <1>3, <1>4
<1>6. Continues(a, y) /\ WellFormed(y) /\ ~(y.size > MaxChunkBytes)
  BY <1>1, <1>3, <1>4 DEF Continues, WellFormed
<1>7. ~(received > a.bytes) /\ ~(grown.next < a.count) /\ received = a.bytes
  BY <1>1, <1>4, <1>5
<1>8. r = AcceptChunk(d, y)
  BY <1>2 DEF DecodeLine, Negotiates
<1>9. d.assembly # <<>>
  OBVIOUS
<1>10. r = Result(Closed(open), <<y.frame>>, FALSE)
  BY <1>6, <1>7, <1>8, <1>9 DEF AcceptChunk
<1>11. LET c == Closed(open) IN
       c.assembly = <<>> /\ c.v2 = d.v2 /\ c.negotiating = d.negotiating
  BY DEF Closed, OpenDecoders, Decoders
<1>12. r.decoder \in OpenDecoders
  BY <1>2, DecodeFacts
<1> HIDE DEF a, grown, open, r
<1>13. /\ ~r.threw /\ r.frames = <<Output>> /\ r.decoder = Closed(open)
  BY <1>2, <1>10 DEF Result
<1>14. QED
  BY <1>11, <1>12, <1>13 DEF r, y

\* Lines that come later change nothing of what the first lines give.
LEMMA ReadsOld ==
  ASSUME NEW a \in Seq(Lines), NEW b \in Seq(Lines), NEW d \in OpenDecoders,
         NEW w, NEW more, NEW k \in Nat,
         k <= Len(a), k <= Len(b), \A j \in 1..k : a[j] = b[j],
         \A s \in Seq(Frames) : IsPrefix(s, w) => IsPrefix(s, more),
         NEW i \in 0..k, ReadTruly(d, a, w, i),
         i = k => Read(d, a, k).threw \/ Read(d, a, k).decoder.assembly = <<>>
  PROVE  Read(d, b, i) = Read(d, a, i) /\ ReadTruly(d, b, more, i)
<1> DEFINE r == Read(d, a, i)
<1>1. Read(d, b, i) = r
  BY ReadSame
<1>2. Len(a) \in Nat /\ Len(b) \in Nat /\ i \in Nat
  OBVIOUS
<1>0. r.frames \in Seq(Frames) /\ Append(r.frames, Output) \in Seq(Frames)
  <2>1. i \in 0..Len(a)
    BY <1>2
  <2>2. r \in Pushes
    BY <2>1, ReadLines
  <2> HIDE DEF r
  <2>3. Output \in Frames
    BY TurnFrame
  <2>4. r.frames \in Seq(Frames)
    BY <2>2 DEF Pushes
  <2>5. QED
    BY <2>3, <2>4
<1> HIDE DEF r
<1>3. ASSUME ~r.threw
      PROVE  /\ IsPrefix(r.frames, more)
             /\ Negotiated \in Range(r.frames) => r.decoder.v2 /\ ~r.decoder.negotiating
             /\ r.decoder.assembly # <<>> =>
                  /\ i < Len(b) /\ b[i + 1] \in Tails
                  /\ IsPrefix(Append(r.frames, Output), more)
  <2>1. /\ IsPrefix(r.frames, w)
        /\ Negotiated \in Range(r.frames) => r.decoder.v2 /\ ~r.decoder.negotiating
        /\ r.decoder.assembly # <<>> =>
             /\ i < Len(a) /\ a[i + 1] \in Tails
             /\ IsPrefix(Append(r.frames, Output), w)
    BY <1>3 DEF ReadTruly, r
  <2>2. ASSUME r.decoder.assembly # <<>> PROVE i < Len(b) /\ b[i + 1] = a[i + 1]
    <3>1. i # k
      BY <1>3, <2>2 DEF r
    <3>2. i + 1 \in 1..k /\ i < k
      BY <1>2, <3>1
    <3>3. QED
      BY <1>2, <3>2
  <2>3. QED
    BY <1>0, <2>1, <2>2
<1>4. ReadTruly(d, b, more, i)
  BY <1>1, <1>3 DEF ReadTruly
<1>5. QED
  BY <1>1, <1>4 DEF r

\* All that is written is read, and no run is open at its end.
LEMMA ReadWhole ==
  ASSUME NEW d \in OpenDecoders, NEW ls \in Seq(Lines), NEW w,
         ReadsAll(d, ls, w), ~Read(d, ls, Len(ls)).threw
  PROVE  LET r == Read(d, ls, Len(ls)) IN
         /\ r \in Pushes /\ r.decoder \in OpenDecoders
         /\ r.frames = w /\ r.decoder.v2 /\ r.decoder.assembly = <<>>
         /\ Negotiated \in Range(w) => ~r.decoder.negotiating
<1> DEFINE n == Len(ls)
           r == Read(d, ls, n)
<1>1. n \in Nat /\ n \in 0..n
  OBVIOUS
<1>2. r \in Pushes
  BY <1>1, ReadLines
<1>3. ReadTruly(d, ls, w, n) /\ r.frames = w /\ r.decoder.v2
  BY <1>1 DEF ReadsAll
<1>4. r.decoder \in OpenDecoders
  BY <1>2 DEF Pushes
<1>5. /\ Negotiated \in Range(r.frames) => ~r.decoder.negotiating
      /\ r.decoder.assembly # <<>> => n < n
  BY <1>3 DEF ReadTruly
<1>6. ~(n < n)
  BY <1>1
<1>7. QED
  BY <1>2, <1>3, <1>4, <1>5, <1>6

\* What is written has what was written before as a prefix.
LEMMA Wrote ==
  ASSUME NEW w \in Seq(Frames), NEW f \in Frames
  PROVE  /\ Append(w, f) \in Seq(Frames) /\ Append(w, f) = w \o <<f>>
         /\ Range(Append(w, f)) = Range(w) \cup {f}
         /\ IsPrefix(w, Append(w, f)) /\ IsPrefix(Append(w, f), Append(w, f))
<1> DEFINE x == Append(w, f)
           one == <<f>>
<1>1. x \in Seq(Frames) /\ one \in Seq(Frames)
  OBVIOUS
<1>2. x = w \o one
  OBVIOUS
<1>3. Range(x) = Range(w) \cup {f}
  BY RangeAppend
<1>4. IsPrefix(w, w \o one)
  <2> HIDE DEF one
  <2>1. IsPrefix(w, w)
    BY PrefixSelf
  <2>2. QED
    BY <1>1, <2>1, PrefixLonger
<1>5. IsPrefix(x, x)
  <2> HIDE DEF x
  <2>1. QED
    BY <1>1, PrefixSelf
<1>6. QED
  BY <1>1, <1>2, <1>3, <1>4, <1>5

\* A frame is written on a line of its own.
LEMMA FrameWritten ==
  ASSUME NEW d \in OpenDecoders, NEW ls \in Seq(Lines), NEW w \in Seq(Frames),
         ReadsAll(d, ls, w), NEW f \in Frames, f # Negotiated, NEW b \in Seq(Lines),
         Len(b) = Len(ls) + 1, \A j \in 1..Len(ls) : b[j] = ls[j], b[Len(b)] = Whole(f)
  PROVE  /\ ReadsAll(d, b, Append(w, f))
         /\ ~Read(d, ls, Len(ls)).threw => ~Read(d, b, Len(b)).threw
<1> DEFINE n == Len(ls)
           more == Append(w, f)
           r == Read(d, ls, n)
           last == Read(d, b, n + 1)
<1>1. /\ n \in Nat /\ Len(b) = n + 1 /\ n + 1 \in 1..Len(b) /\ (n + 1) - 1 = n
      /\ n <= n /\ n <= Len(b) /\ n \in 0..n
  OBVIOUS
<1>2. /\ more \in Seq(Frames) /\ more = w \o <<f>> /\ Range(more) = Range(w) \cup {f}
      /\ IsPrefix(w, more) /\ IsPrefix(more, more)
  BY Wrote
<1> HIDE DEF more
<1>3. ASSUME NEW i \in 0..n
      PROVE  Read(d, b, i) = Read(d, ls, i) /\ ReadTruly(d, b, more, i)
  <2>1. ~r.threw => r.decoder.assembly = <<>>
    BY ReadWhole
  <2>2. ReadTruly(d, ls, w, i)
    BY DEF ReadsAll
  <2>3. \A j \in 1..n : ls[j] = b[j]
    OBVIOUS
  <2>4. ASSUME NEW s \in Seq(Frames), IsPrefix(s, w) PROVE IsPrefix(s, more)
    <3> DEFINE one == <<f>>
    <3>1. one \in Seq(Frames) /\ more = w \o one
      BY <1>2
    <3> HIDE DEF one
    <3>2. QED
      BY <2>4, <3>1, PrefixLonger
  <2>5. QED
    BY <1>1, <2>1, <2>2, <2>3, <2>4, ReadsOld
<1>4. Read(d, b, n) = r
  BY <1>1, <1>3
<1>5. CASE r.threw
  <2>1. last.threw
    BY <1>1, <1>4, <1>5, ReadThrew
  <2>2. ReadTruly(d, b, more, n + 1)
    BY <2>1 DEF ReadTruly
  <2>3. \A i \in 0..Len(b) : i = n + 1 \/ i \in 0..n
    BY <1>1
  <2>4. ReadsAll(d, b, more)
    BY <1>1, <1>3, <2>1, <2>2, <2>3 DEF ReadsAll
  <2>5. QED
    BY <1>5, <2>4 DEF more
<1>6. CASE ~r.threw
  <2>1. /\ r.decoder \in OpenDecoders /\ r.frames = w /\ r.decoder.v2
        /\ r.decoder.assembly = <<>> /\ (Negotiated \in Range(w) => ~r.decoder.negotiating)
    BY <1>6, ReadWhole
  <2> HIDE DEF r
  <2>2. DecodeLine(r.decoder, Whole(f)) = Result(r.decoder, <<f>>, FALSE)
    BY <2>1, WholeRead
  <2> DEFINE line == Whole(f)
             next == DecodeLine(r.decoder, line)
  <2>3. last.decoder = next.decoder /\ last.frames = r.frames \o next.frames
        /\ last.threw = next.threw
    <3>1. line = b[n + 1] /\ n \in 0..Len(b) /\ n < Len(b) /\ ~Read(d, b, n).threw
      BY <1>1, <1>4, <1>6
    <3> HIDE DEF line
    <3>2. OneMore(Read(d, b, n), line, Read(d, b, n + 1))
      <4> HIDE DEF n
      <4>1. QED
        BY <3>1, ReadNext
    <3>3. QED
      BY <1>4, <3>2 DEF OneMore
  <2>4. last.decoder = r.decoder /\ last.frames = more /\ ~last.threw
    <3>1. next.decoder = r.decoder /\ next.frames = <<f>> /\ ~next.threw
      BY <2>2 DEF Result
    <3> HIDE DEF next
    <3>2. QED
      BY <1>2, <2>1, <2>3, <3>1
  <2> HIDE DEF last
  <2>5. Negotiated \in Range(more) => last.decoder.v2 /\ ~last.decoder.negotiating
    BY <1>2, <2>1, <2>4
  <2>6. ReadTruly(d, b, more, n + 1)
    BY <1>2, <2>1, <2>4, <2>5 DEF ReadTruly, last
  <2>7. \A i \in 0..Len(b) : i = n + 1 \/ i \in 0..n
    BY <1>1
  <2>8. ReadsAll(d, b, more) /\ ~Read(d, b, Len(b)).threw
    BY <1>1, <1>3, <2>1, <2>4, <2>6, <2>7 DEF ReadsAll, last
  <2>9. QED
    BY <2>8 DEF more
<1>7. QED
  BY <1>5, <1>6

\* The output is written in two chunks.
LEMMA OutputWritten ==
  ASSUME NEW d \in OpenDecoders, NEW ls \in Seq(Lines), NEW w \in Seq(Frames),
         ReadsAll(d, ls, w), NEW id \in ChunkIds, NEW b \in Seq(Lines),
         Len(b) = Len(ls) + 2, \A j \in 1..Len(ls) : b[j] = ls[j],
         b[Len(ls) + 1] = Chunk(id, 0, 2, MinChunked, MaxChunkBytes, Output),
         b[Len(ls) + 2] = Chunk(id, 1, 2, MinChunked, MinChunked - MaxChunkBytes, Output)
  PROVE  /\ ReadsAll(d, b, Append(w, Output))
         /\ ~Read(d, ls, Len(ls)).threw => ~Read(d, b, Len(b)).threw
<1> DEFINE n == Len(ls)
           more == Append(w, Output)
           r == Read(d, ls, n)
           one == Read(d, b, n + 1)
           two == Read(d, b, n + 2)
           x == Chunk(id, 0, 2, MinChunked, MaxChunkBytes, Output)
           y == Chunk(id, 1, 2, MinChunked, MinChunked - MaxChunkBytes, Output)
<1>1. /\ n \in Nat /\ Len(b) = n + 2 /\ n + 1 \in 1..Len(b) /\ (n + 1) - 1 = n
      /\ n + 2 \in 1..Len(b) /\ (n + 2) - 1 = n + 1 /\ (n + 1) + 1 = n + 2
      /\ n <= n /\ n <= Len(b) /\ n \in 0..n /\ n \in 0..Len(b) /\ n < Len(b)
      /\ n + 1 \in 0..Len(b) /\ n + 1 < Len(b) /\ ~(n + 2 < n + 2)
  OBVIOUS
<1>0. Output \in Frames /\ Output # Negotiated
  BY TurnFrame
<1>2. /\ more \in Seq(Frames) /\ more = w \o <<Output>> /\ Range(more) = Range(w) \cup {Output}
      /\ IsPrefix(w, more) /\ IsPrefix(more, more)
  BY <1>0, Wrote
<1> HIDE DEF more
<1>3. ASSUME NEW i \in 0..n
      PROVE  Read(d, b, i) = Read(d, ls, i) /\ ReadTruly(d, b, more, i)
  <2>1. ~r.threw => r.decoder.assembly = <<>>
    BY ReadWhole
  <2>2. ReadTruly(d, ls, w, i)
    BY DEF ReadsAll
  <2>3. \A j \in 1..n : ls[j] = b[j]
    OBVIOUS
  <2>4. ASSUME NEW s \in Seq(Frames), IsPrefix(s, w) PROVE IsPrefix(s, more)
    <3> DEFINE u == <<Output>>
    <3>1. u \in Seq(Frames) /\ more = w \o u
      BY <1>0, <1>2
    <3> HIDE DEF u
    <3>2. QED
      BY <2>4, <3>1, PrefixLonger
  <2>5. QED
    BY <1>1, <2>1, <2>2, <2>3, <2>4, ReadsOld
<1>4. Read(d, b, n) = r
  BY <1>1, <1>3
<1>5. \A i \in 0..Len(b) : i = n + 2 \/ i = n + 1 \/ i \in 0..n
  BY <1>1
<1>6. CASE r.threw
  <2>1. one.threw
    BY <1>1, <1>4, <1>6, ReadThrew
  <2>2. two.threw
    BY <1>1, <2>1, ReadThrew
  <2>3. ReadTruly(d, b, more, n + 1) /\ ReadTruly(d, b, more, n + 2)
    BY <2>1, <2>2 DEF ReadTruly
  <2>4. ReadsAll(d, b, more)
    BY <1>1, <1>3, <1>5, <2>2, <2>3 DEF ReadsAll
  <2>5. QED
    BY <1>6, <2>4 DEF more
<1>7. CASE ~r.threw
  <2>1. /\ r.decoder \in OpenDecoders /\ r.frames = w /\ r.decoder.v2
        /\ r.decoder.assembly = <<>> /\ (Negotiated \in Range(w) => ~r.decoder.negotiating)
    BY <1>7, ReadWhole
  <2> HIDE DEF r
  <2>2. OneMore(r, x, one)
    <3>1. x = b[n + 1] /\ ~Read(d, b, n).threw
      BY <1>4, <1>7
    <3> HIDE DEF x, n
    <3>2. OneMore(Read(d, b, n), x, Read(d, b, n + 1))
      BY <1>1, <3>1, ReadNext
    <3>3. QED
      BY <1>4, <3>2
  <2>3. /\ ~DecodeLine(r.decoder, x).threw /\ DecodeLine(r.decoder, x).frames = <<>>
        /\ DecodeLine(r.decoder, x).decoder \in OpenDecoders
        /\ DecodeLine(r.decoder, x).decoder.v2 = r.decoder.v2
        /\ DecodeLine(r.decoder, x).decoder.negotiating = r.decoder.negotiating
        /\ DecodeLine(r.decoder, x).decoder.assembly =
             <<[id |-> id, count |-> 2, bytes |-> MinChunked, next |-> 1,
                received |-> MaxChunkBytes]>>
    BY <2>1, FirstRead
  <2> HIDE DEF x, one
  <2>4. /\ ~one.threw /\ one.frames = w /\ one.decoder \in OpenDecoders
        /\ one.decoder.v2 /\ one.decoder.negotiating = r.decoder.negotiating
        /\ one.decoder.assembly =
             <<[id |-> id, count |-> 2, bytes |-> MinChunked, next |-> 1,
                received |-> MaxChunkBytes]>>
    BY <2>1, <2>2, <2>3 DEF OneMore
  <2>5. OneMore(one, y, two)
    <3>1. y = b[(n + 1) + 1] /\ ~Read(d, b, n + 1).threw
      BY <1>1, <2>4 DEF one
    <3> DEFINE m == n + 1
    <3>2. m \in 0..Len(b) /\ m < Len(b) /\ m + 1 = n + 2 /\ y = b[m + 1] /\ ~Read(d, b, m).threw
      BY <1>1, <3>1
    <3> HIDE DEF y, m
    <3>3. OneMore(Read(d, b, m), y, Read(d, b, m + 1))
      BY <3>2, ReadNext
    <3>4. QED
      BY <3>2, <3>3 DEF one, m
  <2>6. /\ ~DecodeLine(one.decoder, y).threw /\ DecodeLine(one.decoder, y).frames = <<Output>>
        /\ DecodeLine(one.decoder, y).decoder.v2 = one.decoder.v2
        /\ DecodeLine(one.decoder, y).decoder.negotiating = one.decoder.negotiating
        /\ DecodeLine(one.decoder, y).decoder.assembly = <<>>
    BY <2>4, SecondRead
  <2>7. y \in Tails
    BY DEF Tails
  <2> HIDE DEF y, two
  <2>8. /\ ~two.threw /\ two.frames = more /\ two.decoder.v2
        /\ two.decoder.negotiating = r.decoder.negotiating /\ two.decoder.assembly = <<>>
    BY <1>2, <2>4, <2>5, <2>6 DEF OneMore
  <2>9. ReadTruly(d, b, more, n + 1)
    <3>1. b[(n + 1) + 1] \in Tails
      BY <1>1, <2>7 DEF y
    <3>2. Append(one.frames, Output) = more
      BY <2>4 DEF more
    <3>3. Negotiated \in Range(one.frames) => one.decoder.v2 /\ ~one.decoder.negotiating
      BY <2>1, <2>4
    <3>4. QED
      BY <1>1, <1>2, <2>4, <3>1, <3>2, <3>3 DEF ReadTruly, one
  <2>10. ReadTruly(d, b, more, n + 2)
    <3>1. Negotiated \in Range(two.frames) => two.decoder.v2 /\ ~two.decoder.negotiating
      BY <1>0, <1>2, <2>1, <2>8
    <3>2. QED
      BY <1>2, <2>8, <3>1 DEF ReadTruly, two
  <2>11. ReadsAll(d, b, more) /\ ~Read(d, b, Len(b)).threw
    BY <1>1, <1>3, <1>5, <2>8, <2>9, <2>10 DEF ReadsAll, two
  <2>12. QED
    BY <2>11 DEF more
<1>8. QED
  BY <1>6, <1>7

\* The lines around one that was put between them.
LEMMA LinesInserted ==
  ASSUME NEW a \in Seq(Lines), NEW i \in 1..(Len(a) + 1), NEW line \in Lines
  PROVE  LET b == InsertAt(a, i, line) IN
         /\ b \in Seq(Lines) /\ Len(b) = Len(a) + 1 /\ b[i] = line
         /\ \A j \in 1..(i - 1) : b[j] = a[j]
         /\ \A j \in i..Len(a) : b[j + 1] = a[j]
<1> DEFINE n == Len(a)
           x == SubSeq(a, 1, i - 1)
           y == SubSeq(a, i, n)
           l == <<line>>
           b == InsertAt(a, i, line)
<1>1. /\ n \in Nat /\ i \in Nat /\ i - 1 \in Nat /\ n - (i - 1) \in Nat
      /\ x \in Seq(Lines) /\ Len(x) = i - 1 /\ \A j \in 1..(i - 1) : x[j] = a[j]
      /\ y \in Seq(Lines) /\ Len(y) = n - (i - 1)
      /\ \A j \in 1..(n - (i - 1)) : y[j] = a[(i - 1) + j]
  OBVIOUS
<1>2. l \in Seq(Lines) /\ Len(l) = 1 /\ l[1] = line
  OBVIOUS
<1>3. b = (x \o l) \o y
  BY DEF InsertAt
<1> DEFINE z == x \o l
<1> HIDE DEF x, y, l, b, n
<1>4. /\ z \in Seq(Lines) /\ Len(z) = i /\ z[i] = line
      /\ \A j \in 1..(i - 1) : z[j] = a[j]
  <2>1. /\ z \in Seq(Lines) /\ Len(z) = Len(x) + Len(l)
        /\ \A j \in 1..(Len(x) + Len(l)) : z[j] = IF j <= Len(x) THEN x[j] ELSE l[j - Len(x)]
    BY <1>1, <1>2, ConcatProperties
  <2> HIDE DEF z
  <2>2. /\ (i - 1) + 1 = i /\ i \in 1..i /\ ~(i <= i - 1) /\ i - (i - 1) = 1
        /\ \A j \in 1..(i - 1) : j \in 1..i /\ j <= i - 1
    BY <1>1
  <2>3. Len(z) = i /\ \A j \in 1..i : z[j] = IF j <= i - 1 THEN x[j] ELSE l[j - (i - 1)]
    BY <1>1, <1>2, <2>1, <2>2
  <2>4. QED
    BY <1>1, <1>2, <2>1, <2>2, <2>3
<1> HIDE DEF z
<1>5. /\ b \in Seq(Lines) /\ Len(b) = i + (n - (i - 1))
      /\ \A j \in 1..(i + (n - (i - 1))) : b[j] = IF j <= i THEN z[j] ELSE y[j - i]
  <2>1. b = z \o y
    BY <1>3 DEF z
  <2>2. z \in Seq(Lines) /\ y \in Seq(Lines)
    BY <1>1, <1>4
  <2>3. /\ z \o y \in Seq(Lines) /\ Len(z \o y) = Len(z) + Len(y)
        /\ \A j \in 1..(Len(z) + Len(y)) :
             (z \o y)[j] = IF j <= Len(z) THEN z[j] ELSE y[j - Len(z)]
    BY <2>2, ConcatProperties
  <2>4. QED
    BY <1>1, <1>4, <2>1, <2>3
<1>6. i + (n - (i - 1)) = n + 1
  BY <1>1
<1>7. b[i] = line /\ \A j \in 1..(i - 1) : b[j] = a[j]
  <2>1. i \in 1..(n + 1) /\ i <= i /\ \A j \in 1..(i - 1) : j \in 1..(n + 1) /\ j <= i
    BY <1>1
  <2>2. QED
    BY <1>4, <1>5, <1>6, <2>1
<1>8. ASSUME NEW j \in i..n PROVE b[j + 1] = a[j]
  <2> DEFINE m == j + 1
  <2>1. /\ m \in 1..(n + 1) /\ ~(m <= i) /\ m - i \in 1..(n - (i - 1))
        /\ (i - 1) + (m - i) = j
    BY <1>1, <1>8
  <2> HIDE DEF m
  <2>2. b[m] = y[m - i]
    BY <1>5, <1>6, <2>1
  <2>3. y[m - i] = a[j]
    BY <1>1, <2>1
  <2>4. QED
    BY <2>2, <2>3 DEF m
<1>9. QED
  BY <1>5, <1>6, <1>7, <1>8 DEF b, n

\* A line that is not of OMP's protocol throws, if not at once then with the next line,
\* and what was read before it is still true.
LEMMA SoilRead ==
  ASSUME NEW d \in OpenDecoders, NEW ls \in Seq(Lines), NEW w \in Seq(Frames),
         ReadsAll(d, ls, w), NEW stray \in Strays,
         NEW at \in {Len(ls), Len(ls) + 1} \ {0}
  PROVE  ReadsAll(d, InsertAt(ls, at, stray), w)
<1> DEFINE n == Len(ls)
           k == at - 1
           b == InsertAt(ls, at, stray)
           r == Read(d, b, k)
           one == Read(d, b, k + 1)
           all == Read(d, b, n + 1)
<1>1. /\ n \in Nat /\ at \in 1..(n + 1) /\ k \in 0..n /\ k <= n /\ k + 1 = at
      /\ k = n \/ (k + 1 = n /\ at \in at..n)
      /\ k \in Nat
  OBVIOUS
<1>2. stray \in Tails /\ stray \in Lines
  BY TailLine DEF Tails
<1>3. /\ b \in Seq(Lines) /\ Len(b) = n + 1 /\ b[at] = stray
      /\ \A j \in 1..k : b[j] = ls[j]
      /\ \A j \in at..n : b[j + 1] = ls[j]
  BY <1>1, <1>2, LinesInserted
<1> HIDE DEF b
<1>4. /\ k \in 0..Len(b) /\ k < Len(b) /\ k + 1 \in 1..Len(b) /\ (k + 1) - 1 = k
      /\ n + 1 \in 1..Len(b) /\ (n + 1) - 1 = n /\ k <= Len(b)
      /\ \A j \in 0..Len(b) : j \in 0..k \/ j = k + 1 \/ j = n + 1
  BY <1>1, <1>3
<1>5. ASSUME NEW j \in 0..k PROVE Read(d, b, j) = Read(d, ls, j) /\ ReadTruly(d, ls, w, j)
  <2>1. Read(d, ls, j) = Read(d, b, j)
    <3>1. \A m \in 1..k : ls[m] = b[m]
      BY <1>3
    <3> HIDE DEF k, n
    <3>2. k <= Len(ls)
      BY <1>1 DEF n
    <3>3. QED
      BY <1>1, <1>3, <1>4, <3>1, <3>2, ReadSame
  <2>2. j \in 0..n
    BY <1>1
  <2>3. QED
    BY <2>1, <2>2 DEF ReadsAll
<1>6. ASSUME NEW j \in 0..k PROVE ReadTruly(d, b, w, j)
  <2> DEFINE s == Read(d, ls, j)
  <2>1. ASSUME ~s.threw
        PROVE  /\ IsPrefix(s.frames, w)
               /\ Negotiated \in Range(s.frames) => s.decoder.v2 /\ ~s.decoder.negotiating
               /\ s.decoder.assembly # <<>> =>
                    /\ j < n /\ ls[j + 1] \in Tails /\ IsPrefix(Append(s.frames, Output), w)
    BY <1>5, <2>1 DEF ReadTruly
  <2>2. j < Len(b) /\ (j = k \/ j + 1 \in 1..k)
    BY <1>1, <1>3
  <2>3. b[j + 1] = stray \/ b[j + 1] = ls[j + 1]
    BY <1>1, <1>3, <2>2
  <2> HIDE DEF s
  <2>4. Read(d, b, j) = s
    BY <1>5 DEF s
  <2>5. QED
    BY <1>2, <2>1, <2>2, <2>3, <2>4 DEF ReadTruly
<1>7. ~r.threw => OneMore(r, stray, one)
  <2>1. stray = b[k + 1]
    BY <1>1, <1>3
  <2> HIDE DEF k
  <2>2. QED
    BY <1>3, <1>4, <2>1, ReadNext
<1>8. r \in Pushes
  BY <1>3, <1>4, ReadLines
<1>9. ~r.threw => r.decoder \in OpenDecoders
  BY <1>8 DEF Pushes
<1>10. r.threw => one.threw
  <2> HIDE DEF k
  <2>1. Read(d, b, (k + 1) - 1).threw => Read(d, b, k + 1).threw
    BY <1>3, <1>4, ReadThrew
  <2>2. QED
    BY <1>4, <2>1
<1>11. one.threw => all.threw
  <2>1. CASE k = n
    BY <2>1
  <2>2. CASE k # n
    <3>1. Read(d, b, (n + 1) - 1).threw => Read(d, b, n + 1).threw
      <4> HIDE DEF n
      <4>1. QED
        BY <1>3, <1>4, ReadThrew
    <3>2. k + 1 = n /\ (n + 1) - 1 = n
      <4> HIDE DEF n, k
      <4>1. QED
        BY <1>1, <2>2
    <3>3. one = Read(d, b, n) /\ Read(d, b, (n + 1) - 1) = Read(d, b, n)
      BY <3>2
    <3> HIDE DEF one, n
    <3>4. QED
      BY <3>1, <3>3
  <2>3. QED
    BY <2>1, <2>2
<1>12. CASE one.threw
  <2>1. ReadTruly(d, b, w, k + 1) /\ ReadTruly(d, b, w, n + 1)
    BY <1>11, <1>12 DEF ReadTruly
  <2>2. QED
    BY <1>3, <1>4, <1>6, <1>11, <1>12, <2>1 DEF ReadsAll, b
<1>13. CASE ~one.threw
  <2>1. ~r.threw /\ OneMore(r, stray, one) /\ r.decoder \in OpenDecoders
    BY <1>7, <1>9, <1>10, <1>13
  <2>2. /\ r.decoder.assembly # <<>>
        /\ one.decoder.assembly = <<>> /\ one.frames = r.frames \o <<Output>>
        /\ one.decoder.v2 = r.decoder.v2 /\ one.decoder.negotiating = r.decoder.negotiating
    <3> HIDE DEF r, one
    <3>1. QED
      BY <1>2, <1>13, <2>1, TailRead DEF OneMore
  <2>3. Read(d, ls, k) = r /\ ReadTruly(d, ls, w, k) /\ k \in 0..k
    BY <1>1, <1>5
  <2>4. /\ k < n /\ ls[k + 1] \in Tails /\ IsPrefix(Append(r.frames, Output), w)
        /\ Negotiated \in Range(r.frames) => r.decoder.v2 /\ ~r.decoder.negotiating
    <3> HIDE DEF k, n, r
    <3>1. QED
      BY <2>1, <2>2, <2>3 DEF ReadTruly, n
  <2>5. k + 1 = n /\ at = n
    BY <1>1, <2>4
  <2>6. one \in Pushes
    <3> DEFINE m == k + 1
    <3>1. m \in 0..Len(b)
      BY <1>4
    <3> HIDE DEF m
    <3>2. Read(d, b, m) \in Pushes
      BY <1>3, <3>1, ReadLines
    <3>3. QED
      BY <3>2 DEF m
  <2>7. one.decoder \in OpenDecoders
    BY <1>13, <2>6 DEF Pushes
  <2>8. all.threw
    <3> DEFINE line == ls[n]
    <3>1. line = b[n + 1] /\ line \in Tails
      BY <1>1, <1>3, <2>4, <2>5
    <3>2. n \in 0..Len(b) /\ n < Len(b) /\ Read(d, b, n) = one
      BY <1>1, <1>3, <2>5
    <3> HIDE DEF line, n, one
    <3>3. OneMore(Read(d, b, n), line, Read(d, b, n + 1))
      BY <1>3, <1>13, <3>1, <3>2, ReadNext
    <3>4. DecodeLine(one.decoder, line).threw
      BY <2>2, <2>7, <3>1, TailRead
    <3>5. QED
      BY <3>2, <3>3, <3>4 DEF OneMore
  <2>9. ReadTruly(d, b, w, n + 1)
    BY <2>8 DEF ReadTruly
  <2>10. one.frames = Append(r.frames, Output) /\ Range(one.frames) = Range(r.frames) \cup {Output}
    <3>1. r.frames \in Seq(Frames) /\ Output \in Frames
      BY <1>8, TurnFrame DEF Pushes
    <3> DEFINE fs == r.frames
    <3> HIDE DEF fs
    <3>2. /\ Append(fs, Output) = fs \o <<Output>>
          /\ Range(Append(fs, Output)) = Range(fs) \cup {Output}
      BY <3>1, Wrote DEF fs
    <3>3. QED
      BY <2>2, <3>2 DEF fs
  <2>11. ReadTruly(d, b, w, k + 1)
    <3>1. Output # Negotiated
      BY TurnFrame
    <3>2. Negotiated \in Range(one.frames) => one.decoder.v2 /\ ~one.decoder.negotiating
      BY <2>2, <2>4, <2>10, <3>1
    <3>3. QED
      BY <2>2, <2>4, <2>10, <3>2 DEF ReadTruly
  <2>12. QED
    BY <1>3, <1>4, <1>6, <2>8, <2>9, <2>11 DEF ReadsAll, b
<1>14. QED
  BY <1>12, <1>13

\* Elements of the second of two sequences are of both.
LEMMA RangeSecond ==
  ASSUME NEW S, NEW s \in Seq(S), NEW t \in Seq(S)
  PROVE  Range(t) \subseteq Range(s \o t)
<1> DEFINE u == s \o t
<1>1. /\ Len(s) \in Nat /\ Len(t) \in Nat /\ u \in Seq(S) /\ Len(u) = Len(s) + Len(t)
      /\ \A i \in 1..(Len(s) + Len(t)) : u[i] = IF i <= Len(s) THEN s[i] ELSE t[i - Len(s)]
  BY ConcatProperties, LenProperties
<1>2. DOMAIN u = 1..(Len(s) + Len(t)) /\ DOMAIN t = 1..Len(t)
  BY <1>1
<1> HIDE DEF u
<1>3. ASSUME NEW i \in DOMAIN t PROVE t[i] \in Range(u)
  <2> DEFINE j == Len(s) + i
  <2>1. j \in 1..(Len(s) + Len(t)) /\ ~(j <= Len(s)) /\ j - Len(s) = i
    BY <1>1, <1>2
  <2> HIDE DEF j
  <2>2. u[j] = t[i] /\ j \in DOMAIN u
    BY <1>1, <1>2, <2>1
  <2>3. QED
    BY <2>2 DEF Range
<1>4. QED
  BY <1>3 DEF Range, u

\* An element is appended to the second of two sequences.
LEMMA AppendLast ==
  ASSUME NEW s \in Seq(Frames), NEW t \in Seq(Frames), NEW e \in Frames
  PROVE  Append(s \o t, e) = s \o Append(t, e)
<1> DEFINE one == <<e>>
           u == s \o t
<1>1. one \in Seq(Frames) /\ u \in Seq(Frames)
  BY ConcatProperties
<1>2. Append(u, e) = u \o one /\ Append(t, e) = t \o one
  <2> HIDE DEF u
  <2>1. QED
    BY <1>1
<1> HIDE DEF one
<1>3. u \o one = s \o (t \o one)
  BY <1>1, ConcatAssociative
<1>4. QED
  BY <1>2, <1>3

\* What follows the lines read so far gives what follows the frames given so far.
LEMMA CutRead ==
  ASSUME NEW d \in OpenDecoders, NEW ls \in Seq(Lines), NEW w \in Seq(Frames),
         ReadsAll(d, ls, w), NEW k \in 0..Len(ls), ~Read(d, ls, k).threw
  PROVE  LET r == Read(d, ls, k)
             rest == SubSeq(ls, k + 1, Len(ls))
             left == SubSeq(w, Len(r.frames) + 1, Len(w))
         IN  /\ r.decoder \in OpenDecoders /\ IsPrefix(r.frames, w)
             /\ Negotiated \in Range(r.frames) => EnableV2(r.decoder) = r.decoder
             /\ ReadsAll(r.decoder, rest, left)
             /\ Read(r.decoder, rest, Len(rest)).threw => Read(d, ls, Len(ls)).threw
<1> DEFINE r == Read(d, ls, k)
           rest == SubSeq(ls, k + 1, Len(ls))
           n == Len(ls)
           m == Len(rest)
           left == SubSeq(w, Len(r.frames) + 1, Len(w))
           dr == r.decoder
           fr == r.frames
<1>1. r \in Pushes
  BY ReadLines
<1>2. dr \in OpenDecoders /\ fr \in Seq(Frames)
  BY <1>1 DEF Pushes
<1>3. ReadTruly(d, ls, w, k)
  BY DEF ReadsAll
<1>4. /\ IsPrefix(fr, w)
      /\ Negotiated \in Range(fr) => dr.v2 /\ ~dr.negotiating
  BY <1>3 DEF ReadTruly
<1>5. Negotiated \in Range(fr) => EnableV2(dr) = dr
  <2> HIDE DEF dr, fr
  <2>1. dr.v2 /\ ~dr.negotiating => EnableV2(dr) = dr
    BY <1>2 DEF OpenDecoders, Decoders, EnableV2
  <2>2. QED
    BY <1>4, <2>1
<1>6. /\ n \in Nat /\ k \in Nat /\ rest \in Seq(Lines) /\ m = n - k /\ k + m = n
      /\ m \in Nat /\ m \in 0..m
      /\ \A i \in 1..m : rest[i] = ls[k + i]
      /\ \A i \in 0..m : Beyond(fr, Read(d, ls, k + i), Read(dr, rest, i))
  <2>1. /\ rest \in Seq(Lines) /\ m = n - k
        /\ \A i \in 1..m : rest[i] = ls[k + i]
        /\ \A i \in 0..m : Beyond(fr, Read(d, ls, k + i), Read(dr, rest, i))
    BY ReadRest
  <2> HIDE DEF m, rest
  <2>2. n \in Nat /\ k \in 0..n
    OBVIOUS
  <2> HIDE DEF n
  <2>3. k \in Nat /\ n - k \in Nat /\ k + (n - k) = n
    BY <2>2
  <2>4. QED
    BY <2>1, <2>2, <2>3
<1> HIDE DEF rest, n, m, dr, fr
<1>7. ASSUME NEW i \in 0..m
      PROVE  ReadTruly(dr, rest, left, i)
  <2> DEFINE q == Read(dr, rest, i)
             p == Read(d, ls, k + i)
  <2>1. p.decoder = q.decoder /\ p.threw = q.threw /\ p.frames = fr \o q.frames
    BY <1>6 DEF Beyond
  <2>2. k + i \in 0..Len(ls) /\ i \in 0..Len(rest)
    BY <1>6 DEF n, m
  <2>3. ReadTruly(d, ls, w, k + i)
    BY <2>2 DEF ReadsAll
  <2>4. ASSUME ~p.threw
        PROVE  /\ IsPrefix(p.frames, w)
               /\ Negotiated \in Range(p.frames) => p.decoder.v2 /\ ~p.decoder.negotiating
               /\ p.decoder.assembly # <<>> =>
                    /\ k + i < n /\ ls[(k + i) + 1] \in Tails
                    /\ IsPrefix(Append(p.frames, Output), w)
    BY <2>3, <2>4 DEF ReadTruly, n
  <2>5. q \in Pushes
    BY <1>2, <1>6, <2>2, ReadLines
  <2> DEFINE fq == q.frames
  <2>6. fq \in Seq(Frames) /\ Append(fq, Output) \in Seq(Frames)
    <3>1. fq \in Seq(Frames)
      BY <2>5 DEF Pushes
    <3> HIDE DEF fq
    <3>2. Output \in Frames
      BY TurnFrame
    <3>3. QED
      BY <3>1, <3>2
  <2> HIDE DEF p, q
  <2>7. ASSUME ~q.threw
        PROVE  /\ IsPrefix(fq, left)
               /\ Negotiated \in Range(fq) => q.decoder.v2 /\ ~q.decoder.negotiating
               /\ q.decoder.assembly # <<>> =>
                    /\ i < m /\ rest[i + 1] \in Tails /\ IsPrefix(Append(fq, Output), left)
    <3>1. ~p.threw
      BY <2>1, <2>7
    <3>2. IsPrefix(fr \o fq, w)
      BY <2>1, <2>4, <3>1
    <3>3. IsPrefix(fq, left)
      <4> HIDE DEF fq
      <4>1. QED
        BY <1>2, <2>6, <3>2, PrefixRest DEF fr
    <3>4. Negotiated \in Range(fq) => q.decoder.v2 /\ ~q.decoder.negotiating
      <4>1. Range(fq) \subseteq Range(fr \o fq)
        BY <1>2, <2>6, RangeSecond
      <4>2. Range(p.frames) = Range(fr \o fq)
        BY <2>1
      <4>3. QED
        BY <2>1, <2>4, <3>1, <4>1, <4>2
    <3>5. ASSUME q.decoder.assembly # <<>>
          PROVE  i < m /\ rest[i + 1] \in Tails /\ IsPrefix(Append(fq, Output), left)
      <4>1. /\ k + i < n /\ ls[(k + i) + 1] \in Tails /\ IsPrefix(Append(p.frames, Output), w)
        BY <2>1, <2>4, <3>1, <3>5
      <4>2. i < m /\ i + 1 \in 1..m /\ (k + i) + 1 = k + (i + 1)
        BY <1>6, <4>1
      <4>3. rest[i + 1] \in Tails
        BY <1>6, <4>1, <4>2
      <4>4. Append(p.frames, Output) = fr \o Append(fq, Output)
        <5> HIDE DEF fq
        <5>1. p.frames = fr \o fq
          BY <2>1 DEF fq
        <5>2. Output \in Frames
          BY TurnFrame
        <5>3. Append(fr \o fq, Output) = fr \o Append(fq, Output)
          BY <1>2, <2>6, <5>2, AppendLast
        <5>4. QED
          BY <5>1, <5>3
      <4>5. IsPrefix(Append(fq, Output), left)
        <5> DEFINE longer == Append(fq, Output)
        <5>1. longer \in Seq(Frames) /\ IsPrefix(fr \o longer, w)
          BY <2>6, <4>1, <4>4
        <5> HIDE DEF longer
        <5>2. IsPrefix(longer, left)
          BY <1>2, <5>1, PrefixRest DEF fr
        <5>3. QED
          BY <5>2 DEF longer
      <4>6. QED
        BY <4>2, <4>3, <4>5
    <3>6. QED
      BY <3>3, <3>4, <3>5
  <2>8. QED
    BY <2>7 DEF ReadTruly, q, m
<1>8. LET all == Read(dr, rest, m) IN
      /\ ~all.threw => all.frames = left /\ all.decoder.v2
      /\ all.threw => Read(d, ls, n).threw
  <2> DEFINE q == Read(dr, rest, m)
             p == Read(d, ls, n)
             fq == q.frames
  <2>1. p.decoder = q.decoder /\ p.threw = q.threw /\ p.frames = fr \o fq
    <3>1. Beyond(fr, Read(d, ls, k + m), Read(dr, rest, m))
      BY <1>6
    <3>2. Read(d, ls, k + m) = p
      BY <1>6
    <3>3. QED
      BY <3>1, <3>2 DEF Beyond
  <2>2. ~p.threw => p.frames = w /\ p.decoder.v2
    BY DEF ReadsAll, n
  <2>3. q \in Pushes
    BY <1>2, <1>6, ReadLines DEF m
  <2>4. fq \in Seq(Frames)
    BY <2>3 DEF Pushes
  <2> HIDE DEF p, q, fq
  <2>5. ASSUME ~q.threw PROVE fq = left
    <3>1. fr \o fq = w
      BY <2>1, <2>2, <2>5
    <3>2. IsPrefix(fr \o fq, w)
      BY <3>1, PrefixSelf
    <3>3. fq = SubSeq(w, Len(fr) + 1, Len(w))
      BY <1>2, <2>4, <3>1, <3>2, PrefixRest
    <3>4. QED
      BY <3>3 DEF fr
  <2>6. QED
    BY <2>1, <2>2, <2>5 DEF p, q, fq
<1>9. ReadsAll(dr, rest, left)
  BY <1>7, <1>8 DEF ReadsAll, m
<1>10. QED
  BY <1>2, <1>4, <1>5, <1>8, <1>9 DEF r, rest, n, m, left, dr, fr

\* One frame, or two, each on a line of its own.
LEMMA OneWritten ==
  ASSUME NEW d \in OpenDecoders, NEW ls \in Seq(Lines), NEW w \in Seq(Frames),
         ReadsAll(d, ls, w), NEW f \in Frames, f # Negotiated
  PROVE  /\ Append(ls, Whole(f)) \in Seq(Lines) /\ Append(w, f) \in Seq(Frames)
         /\ ReadsAll(d, Append(ls, Whole(f)), Append(w, f))
         /\ ~Read(d, ls, Len(ls)).threw =>
              ~Read(d, Append(ls, Whole(f)), Len(Append(ls, Whole(f)))).threw
<1> DEFINE line == Whole(f)
           b == Append(ls, line)
<1>1. line \in Lines
  BY DEF Lines
<1> HIDE DEF line
<1>2. /\ b \in Seq(Lines) /\ Len(b) = Len(ls) + 1 /\ b[Len(b)] = line
      /\ \A j \in 1..Len(ls) : b[j] = ls[j]
  BY <1>1
<1> HIDE DEF b
<1>3. b[Len(b)] = Whole(f)
  BY <1>2 DEF line
<1>4. ReadsAll(d, b, Append(w, f)) /\ (~Read(d, ls, Len(ls)).threw => ~Read(d, b, Len(b)).threw)
  BY <1>2, <1>3, FrameWritten
<1>5. QED
  BY <1>2, <1>4 DEF b, line
\* Two elements, one after the other.
LEMMA Two ==
  ASSUME NEW S, NEW a \in S, NEW b \in S
  PROVE  <<a>> \o <<b>> = <<a, b>>
<1> DEFINE x == <<a>>
           y == <<b>>
           u == x \o y
           v == <<a, b>>
<1>1. /\ x \in Seq(S) /\ Len(x) = 1 /\ x[1] = a
      /\ y \in Seq(S) /\ Len(y) = 1 /\ y[1] = b
      /\ v \in Seq(S) /\ Len(v) = 2 /\ v[1] = a /\ v[2] = b
  OBVIOUS
<1> HIDE DEF x, y, v
<1>2. /\ u \in Seq(S) /\ Len(u) = Len(x) + Len(y)
      /\ \A i \in 1..(Len(x) + Len(y)) : u[i] = IF i <= Len(x) THEN x[i] ELSE y[i - Len(x)]
  BY <1>1, ConcatProperties
<1> HIDE DEF u
<1>3. Len(u) = 2 /\ u[1] = a /\ u[2] = b
  BY <1>1, <1>2
<1>4. \A i \in 1..2 : u[i] = v[i]
  BY <1>1, <1>3
<1>5. u = v
  BY <1>1, <1>2, <1>3, <1>4, SeqEqual
<1>6. QED
  BY <1>5 DEF u, v, x, y

\* The lines OMP writes frames on.
LEMMA OnLines ==
  ASSUME NEW ls \in Seq(Lines), NEW f \in Frames, NEW g \in Frames
  PROVE  /\ ls \o [i \in DOMAIN <<f>> |-> Whole(<<f>>[i])] = Append(ls, Whole(f))
         /\ ls \o [i \in DOMAIN <<f, g>> |-> Whole(<<f, g>>[i])]
              = Append(Append(ls, Whole(f)), Whole(g))
<1> DEFINE x == Whole(f)
           y == Whole(g)
           one == [i \in DOMAIN <<f>> |-> Whole(<<f>>[i])]
           two == [i \in DOMAIN <<f, g>> |-> Whole(<<f, g>>[i])]
<1>1. x \in Lines /\ y \in Lines
  BY DEF Lines
<1>2. one = <<x>> /\ two = <<x, y>>
  OBVIOUS
<1> HIDE DEF x, y, one, two
<1>3. ls \o one = Append(ls, x)
  BY <1>1, <1>2
<1>4. ls \o two = Append(Append(ls, x), y)
  <2>1. two = <<x>> \o <<y>>
    <3>1. <<x>> \o <<y>> = <<x, y>>
      BY <1>1, Two
    <3>2. QED
      BY <1>2, <3>1
  <2> DEFINE a == <<x>>
             b == <<y>>
             c == ls \o a
  <2>2. a \in Seq(Lines) /\ b \in Seq(Lines) /\ c \in Seq(Lines)
    BY <1>1
  <2>3. c = Append(ls, x)
    BY <1>1
  <2> HIDE DEF c
  <2>4. c \o b = Append(c, y)
    BY <1>1, <2>2
  <2> HIDE DEF a, b
  <2>5. (ls \o a) \o b = ls \o (a \o b)
    BY <2>2, ConcatAssociative, SMTT(30)
  <2>6. QED
    BY <2>1, <2>3, <2>4, <2>5 DEF a, b, c
<1>5. QED
  BY <1>3, <1>4 DEF x, y, one, two

\* After the protocol was broken nothing is said of the lines.
LEMMA WireFailed ==
  ASSUME WireTrue, failed, UNCHANGED <<failed, inOrder>>
  PROVE  WireTrue'
BY DEF WireTrue

\* OMP writes one frame or two.
LEMMA WireWritten ==
  ASSUME IInv, WireTrue, Works, NEW f \in TurnFrames, NEW g \in TurnFrames,
         Write(<<f>>) \/ Write(<<f, g>>), UNCHANGED <<failed, soiled>>
  PROVE  WireTrue'
<1>1. /\ pipe \in Seq(Lines) /\ unread \in Seq(Frames) /\ decoder \in OpenDecoders
      /\ f \in Frames /\ g \in Frames /\ f # Negotiated /\ g # Negotiated
  <2>1. unread \in Seq(Frames)
    <3>1. unread \in Seq(PromptFrames)
      BY DEF IInv, DeliveryTypeOK
    <3>2. QED
      BY <3>1, FramesAssumption, SeqMonotonic
  <2>2. QED
    BY <2>1, TurnFrame DEF IInv, DeliveryTypeOK, OpenDecoders
<1>2. /\ inOrder /\ running /\ ~failed /\ ReadsAll(decoder, pipe, unread)
      /\ soiled = 0 => ~Read(decoder, pipe, Len(pipe)).threw
  BY DEF WireTrue, Works
<1>3. UNCHANGED <<running, decoder, inOrder>>
  BY DEF Write, WriteLines
<1> DEFINE l1 == Append(pipe, Whole(f))
           w1 == Append(unread, f)
           l2 == Append(l1, Whole(g))
           w2 == Append(w1, g)
<1>4. /\ l1 \in Seq(Lines) /\ w1 \in Seq(Frames) /\ ReadsAll(decoder, l1, w1)
      /\ ~Read(decoder, pipe, Len(pipe)).threw => ~Read(decoder, l1, Len(l1)).threw
  BY <1>1, <1>2, OneWritten
<1>5. /\ ReadsAll(decoder, l2, w2)
      /\ ~Read(decoder, l1, Len(l1)).threw => ~Read(decoder, l2, Len(l2)).threw
  <2> HIDE DEF l1, w1
  <2>1. QED
    BY <1>1, <1>4, OneWritten
<1>6. CASE Write(<<f>>)
  <2>1. pipe' = l1 /\ unread' = w1
    <3>1. pipe' = pipe \o [i \in DOMAIN <<f>> |-> Whole(<<f>>[i])] /\ unread' = unread \o <<f>>
      BY <1>6 DEF Write, WriteLines
    <3>2. pipe \o [i \in DOMAIN <<f>> |-> Whole(<<f>>[i])] = l1
      BY <1>1, OnLines
    <3>3. unread \o <<f>> = w1
      BY <1>1, Wrote
    <3>4. QED
      BY <3>1, <3>2, <3>3
  <2> HIDE DEF l1, w1
  <2>2. ReadsAll(decoder', pipe', unread')
    BY <1>3, <1>4, <2>1
  <2>3. soiled' = 0 => ~Read(decoder', pipe', Len(pipe')).threw
    BY <1>2, <1>3, <1>4, <2>1
  <2>4. QED
    BY <1>2, <1>3, <2>2, <2>3 DEF WireTrue
<1>7. CASE Write(<<f, g>>)
  <2>1. pipe' = l2 /\ unread' = w2
    <3>1. /\ pipe' = pipe \o [i \in DOMAIN <<f, g>> |-> Whole(<<f, g>>[i])]
          /\ unread' = unread \o <<f, g>>
      BY <1>7 DEF Write, WriteLines
    <3>2. pipe \o [i \in DOMAIN <<f, g>> |-> Whole(<<f, g>>[i])] = l2
      BY <1>1, OnLines
    <3>3. unread \o <<f, g>> = w2
      <4>0. /\ <<f>> \in Seq(Frames) /\ <<g>> \in Seq(Frames)
            /\ <<f, g>> = <<f>> \o <<g>>
        <5>1. <<f>> \o <<g>> = <<f, g>>
          BY <1>1, Two
        <5>2. <<f>> \in Seq(Frames) /\ <<g>> \in Seq(Frames)
          BY <1>1
        <5>3. QED
          BY <5>1, <5>2
      <4> DEFINE two == <<f, g>>
             a == <<f>>
             b == <<g>>
      <4>1. a \in Seq(Frames) /\ b \in Seq(Frames) /\ two = a \o b
        BY <4>0
      <4>2. unread \o a = w1
        BY <1>1, Wrote
      <4>3. w1 \o b = w2
        <5> HIDE DEF w1
        <5>1. QED
          BY <1>1, <1>4, Wrote
      <4> HIDE DEF two, a, b
      <4>4. (unread \o a) \o b = unread \o (a \o b)
        BY <1>1, <4>1, ConcatAssociative, SMTT(30)
      <4>5. unread \o two = w2
        BY <4>1, <4>2, <4>3, <4>4
      <4>6. QED
        BY <4>5 DEF two
    <3>4. QED
      BY <3>1, <3>2, <3>3
  <2> HIDE DEF l1, w1, l2, w2
  <2>2. ReadsAll(decoder', pipe', unread')
    BY <1>3, <1>5, <2>1
  <2>3. soiled' = 0 => ~Read(decoder', pipe', Len(pipe')).threw
    BY <1>2, <1>3, <1>4, <1>5, <2>1
  <2>4. QED
    BY <1>2, <1>3, <2>2, <2>3 DEF WireTrue
<1>8. QED
  BY <1>6, <1>7

\* The end of a turn is told in order.
LEMMA WireEndOfTurn ==
  ASSUME IInv, WireTrue, Works, EndOfTurn, UNCHANGED <<failed, soiled>>
  PROVE  WireTrue'
<1>1. turn \in Turns
  BY DEF IInv, DeliveryTypeOK
<1>2. AgentEnd(turn) \in TurnFrames /\ AgentStart \in TurnFrames
  BY <1>1, TurnFrame
<1>3. Write(<<AgentEnd(turn)>>) \/ Write(<<AgentEnd(turn), AgentStart>>)
  BY DEF EndOfTurn
<1>4. QED
  BY <1>2, <1>3, WireWritten

\* OMP reads a command.
LEMMA WireOmpReads ==
  ASSUME IInv, WireTrue, OmpReads
  PROVE  WireTrue'
<1>0. running /\ UNCHANGED <<hostVars, countVars, inOrder>>
  <2>1. UNCHANGED <<hostVars, countVars>>
    BY DEF OmpReads
  <2>2. UNCHANGED inOrder
    BY DEF OmpReads, OmpRefuse, OmpLocal, OmpAccept, EndOfTurn, Write, WriteLines
  <2>3. QED
    BY <2>1, <2>2 DEF OmpReads
<1>1. CASE failed
  <2>1. UNCHANGED failed
    BY <1>0 DEF hostVars
  <2>2. QED
    BY <1>0, <1>1, <2>1, WireFailed
<1>2. UNCHANGED <<failed, soiled>>
  BY <1>0 DEF hostVars, countVars
<1>2a. ASSUME ~failed PROVE Works
  BY <1>0, <1>2a DEF Works
<1>3. ASSUME ~failed, NEW p \in Prompts, OmpRefuse(p) PROVE WireTrue'
  <2>1. Answer(p, FALSE, FALSE) \in TurnFrames /\ Write(<<Answer(p, FALSE, FALSE)>>)
    BY <1>3, TurnFrame DEF OmpRefuse
  <2>2. QED
    BY <1>2, <1>2a, <1>3, <2>1, WireWritten
<1>4. ASSUME ~failed, NEW p \in Prompts, OmpLocal(p) PROVE WireTrue'
  <2>1. PromptResult(p) \in TurnFrames /\ Answer(p, TRUE, FALSE) \in TurnFrames
    BY TurnFrame
  <2>2. Write(<<PromptResult(p), Answer(p, TRUE, FALSE)>>)
    BY <1>4 DEF OmpLocal
  <2>3. QED
    BY <1>2, <1>2a, <1>4, <2>1, <2>2, WireWritten
<1>5. ASSUME ~failed, NEW p \in Prompts, OmpAccept(p) PROVE WireTrue'
  <2>1. Answer(p, TRUE, TRUE) \in TurnFrames /\ AgentStart \in TurnFrames
    BY TurnFrame
  <2>2. Write(<<Answer(p, TRUE, TRUE)>>) \/ Write(<<Answer(p, TRUE, TRUE), AgentStart>>)
    BY <1>5 DEF OmpAccept
  <2>3. QED
    BY <1>2, <1>2a, <1>5, <2>1, <2>2, WireWritten
<1>6. CASE ~failed /\ EndOfTurn
  BY <1>2, <1>2a, <1>6, WireEndOfTurn
<1>7. CASE UNCHANGED <<wireVars, unread, inOrder>>
  <2>1. UNCHANGED <<running, pipe, decoder, unread, inOrder, failed, soiled>>
    BY <1>2, <1>7 DEF wireVars
  <2>2. QED
    BY <2>1 DEF WireTrue
<1>8. QED
  BY <1>1, <1>3, <1>4, <1>5, <1>6, <1>7 DEF OmpReads

\* A turn ends or begins by itself.
LEMMA WireTurns ==
  ASSUME IInv, WireTrue, OmpEnds \/ OmpBegins
  PROVE  WireTrue'
<1>0. CASE failed
  <2>1. UNCHANGED <<hostVars, inOrder>>
    BY DEF OmpEnds, OmpBegins, EndOfTurn, Write, WriteLines
  <2>2. UNCHANGED failed
    BY <2>1 DEF hostVars
  <2>3. QED
    BY <1>0, <2>1, <2>2, WireFailed
<1>1. CASE ~failed /\ OmpEnds
  <2>1. Works /\ EndOfTurn /\ UNCHANGED <<hostVars, countVars>>
    BY <1>1 DEF OmpEnds, Works
  <2>2. UNCHANGED <<failed, soiled>>
    BY <2>1 DEF hostVars, countVars
  <2>3. QED
    BY <2>1, <2>2, WireEndOfTurn
<1>2. CASE ~failed /\ OmpBegins
  <2>1. Works /\ Write(<<AgentStart>>) /\ UNCHANGED <<hostVars, soiled>>
    BY <1>2 DEF OmpBegins, Works
  <2>2. UNCHANGED <<failed, soiled>>
    BY <2>1 DEF hostVars
  <2>3. AgentStart \in TurnFrames
    BY TurnFrame
  <2>4. QED
    BY <2>1, <2>2, <2>3, WireWritten
<1>3. QED
  BY <1>0, <1>1, <1>2

\* What the invariant says of a runtime that works.
LEMMA WireWorks ==
  ASSUME IInv, WireTrue, Works
  PROVE  /\ pipe \in Seq(Lines) /\ unread \in Seq(Frames) /\ decoder \in OpenDecoders
         /\ inOrder /\ running /\ ~failed /\ ReadsAll(decoder, pipe, unread)
         /\ soiled = 0 => ~Read(decoder, pipe, Len(pipe)).threw
<1>1. unread \in Seq(PromptFrames)
  BY DEF IInv, DeliveryTypeOK
<1>2. unread \in Seq(Frames)
  BY <1>1, FramesAssumption, SeqMonotonic
<1>3. pipe \in Seq(Lines) /\ decoder \in OpenDecoders
  BY DEF IInv, DeliveryTypeOK, OpenDecoders
<1>4. QED
  BY <1>2, <1>3 DEF WireTrue, Works

\* OMP writes an output in two chunks.
LEMMA WireOmpOutput ==
  ASSUME IInv, WireTrue, OmpOutput
  PROVE  WireTrue'
<1>1. PICK id \in ChunkIds : WriteLines(ChunksOf(id, Output), <<Output>>)
  BY DEF OmpOutput
<1>2. running /\ UNCHANGED <<hostVars, countVars>>
  BY DEF OmpOutput
<1>3. UNCHANGED <<failed, soiled>>
  BY <1>2 DEF hostVars, countVars
<1>4. /\ pipe' = pipe \o ChunksOf(id, Output) /\ unread' = unread \o <<Output>>
      /\ UNCHANGED <<running, decoder, inOrder>>
  BY <1>1 DEF WriteLines
<1>4a. SUFFICES ASSUME ~failed PROVE WireTrue'
  BY <1>3, <1>4, WireFailed
<1>5. /\ pipe \in Seq(Lines) /\ unread \in Seq(Frames) /\ decoder \in OpenDecoders
      /\ inOrder /\ running /\ ~failed /\ ReadsAll(decoder, pipe, unread)
      /\ soiled = 0 => ~Read(decoder, pipe, Len(pipe)).threw
  BY <1>2, <1>4a, WireWorks DEF Works
<1> DEFINE x == Chunk(id, 0, 2, MinChunked, MaxChunkBytes, Output)
           y == Chunk(id, 1, 2, MinChunked, MinChunked - MaxChunkBytes, Output)
<1>6. x \in Lines /\ y \in Lines
  BY ChunkLine
<1>7. pipe' = pipe \o <<x, y>>
  BY <1>4 DEF ChunksOf
<1>8. /\ pipe' \in Seq(Lines) /\ Len(pipe') = Len(pipe) + 2
      /\ \A j \in 1..Len(pipe) : pipe'[j] = pipe[j]
      /\ pipe'[Len(pipe) + 1] = x /\ pipe'[Len(pipe) + 2] = y
  <2> HIDE DEF x, y
  <2> DEFINE two == <<x, y>>
  <2>1. two \in Seq(Lines) /\ Len(two) = 2 /\ two[1] = x /\ two[2] = y
    BY <1>6
  <2> HIDE DEF two
  <2>2. Len(pipe) \in Nat
    BY <1>5, LenProperties
  <2>3. pipe' = pipe \o two
    BY <1>7 DEF two
  <2>4. /\ pipe' \in Seq(Lines) /\ Len(pipe') = Len(pipe) + Len(two)
        /\ \A i \in 1..(Len(pipe) + Len(two)) :
             pipe'[i] = IF i <= Len(pipe) THEN pipe[i] ELSE two[i - Len(pipe)]
    BY <1>5, <2>1, <2>3, ConcatProperties
  <2>5. /\ Len(pipe) + 1 \in 1..(Len(pipe) + Len(two)) /\ ~(Len(pipe) + 1 <= Len(pipe))
        /\ (Len(pipe) + 1) - Len(pipe) = 1
        /\ Len(pipe) + 2 \in 1..(Len(pipe) + Len(two)) /\ ~(Len(pipe) + 2 <= Len(pipe))
        /\ (Len(pipe) + 2) - Len(pipe) = 2
    BY <2>1, <2>2
  <2>6. \A j \in 1..Len(pipe) : j \in 1..(Len(pipe) + Len(two)) /\ j <= Len(pipe)
    BY <2>1, <2>2
  <2>7. pipe'[Len(pipe) + 1] = x /\ pipe'[Len(pipe) + 2] = y
    BY <2>1, <2>4, <2>5
  <2>8. \A j \in 1..Len(pipe) : pipe'[j] = pipe[j]
    BY <2>4, <2>6
  <2>9. QED
    BY <2>1, <2>4, <2>7, <2>8
<1>9. unread' = Append(unread, Output)
  BY <1>4, <1>5, Wrote, TurnFrame
<1>10. /\ ReadsAll(decoder, pipe', Append(unread, Output))
       /\ ~Read(decoder, pipe, Len(pipe)).threw => ~Read(decoder, pipe', Len(pipe')).threw
  BY <1>5, <1>8, OutputWritten
<1>11. QED
  BY <1>3, <1>4, <1>5, <1>9, <1>10 DEF WireTrue

\* A line that is no frame gets among the lines.
LEMMA WireOmpSoils ==
  ASSUME IInv, WireTrue, OmpSoils
  PROVE  WireTrue'
<1>1. PICK at \in {Len(pipe), Len(pipe) + 1} \ {0}, stray \in Strays :
        pipe' = InsertAt(pipe, at, stray)
  BY DEF OmpSoils
<1>2. running /\ soiled' = soiled + 1 /\ UNCHANGED <<running, decoder, hostVars, proofVars>>
  BY DEF OmpSoils
<1>3. UNCHANGED <<running, decoder, failed, unread, inOrder>>
  BY <1>2 DEF hostVars, proofVars
<1>3a. SUFFICES ASSUME ~failed PROVE WireTrue'
  BY <1>3, WireFailed
<1>4. /\ pipe \in Seq(Lines) /\ unread \in Seq(Frames) /\ decoder \in OpenDecoders
      /\ inOrder /\ ReadsAll(decoder, pipe, unread)
  BY <1>2, <1>3a, WireWorks DEF Works
<1>5. soiled' # 0
  <2>1. soiled \in Nat
    BY DeliveryAssumption DEF IInv, DeliveryTypeOK
  <2>2. QED
    BY <1>2, <2>1
<1>6. ReadsAll(decoder, InsertAt(pipe, at, stray), unread)
  BY <1>4, SoilRead
<1>7. QED
  BY <1>1, <1>3, <1>4, <1>5, <1>6 DEF WireTrue

\* What a data event does of the lines and the frames.
LEMMA DataPiece ==
  ASSUME Data
  PROVE  \E k \in 1..Len(pipe) :
           LET pushed == Push(decoder, SubSeq(pipe, 1, k)) IN
           /\ decoder' = IF Negotiated \in Range(pushed.frames) THEN EnableV2(pushed.decoder)
                        ELSE pushed.decoder
           /\ pipe' = SubSeq(pipe, pushed.read + 1, Len(pipe))
           /\ pushed.threw => failed' = TRUE /\ UNCHANGED inOrder
           /\ ~pushed.threw =>
                /\ UNCHANGED failed
                /\ unread' = SubSeq(unread, Len(pushed.frames) + 1, Len(unread))
                /\ inOrder' = (inOrder /\ (failed \/ IsPrefix(pushed.frames, unread)))
BY DEF Data

\* Output reaches the host.
LEMMA WireData ==
  ASSUME IInv, WireTrue, Data
  PROVE  WireTrue'
<1> DEFINE piece(k) == Push(decoder, SubSeq(pipe, 1, k))
<1>1. PICK k \in 1..Len(pipe) :
        /\ decoder' = IF Negotiated \in Range(piece(k).frames) THEN EnableV2(piece(k).decoder)
                     ELSE piece(k).decoder
        /\ pipe' = SubSeq(pipe, piece(k).read + 1, Len(pipe))
        /\ piece(k).threw => failed' = TRUE /\ UNCHANGED inOrder
        /\ ~piece(k).threw =>
             /\ UNCHANGED failed
             /\ unread' = SubSeq(unread, Len(piece(k).frames) + 1, Len(unread))
             /\ inOrder' = (inOrder /\ (failed \/ IsPrefix(piece(k).frames, unread)))
  BY DataPiece
<1>2. UNCHANGED <<running, soiled>> /\ running
  BY DEF Data, countVars
<1> DEFINE pushed == piece(k)
<1>3. pushed.threw \in BOOLEAN /\ (~pushed.threw => pushed.read = k)
  BY PieceRead
<1>4. CASE pushed.threw
  BY <1>1, <1>4 DEF WireTrue
<1>5. CASE failed
  BY <1>1, <1>3, <1>5 DEF WireTrue
<1>6. CASE ~failed /\ ~pushed.threw
  <2>1. /\ pipe \in Seq(Lines) /\ unread \in Seq(Frames) /\ decoder \in OpenDecoders
        /\ inOrder /\ ReadsAll(decoder, pipe, unread)
        /\ soiled = 0 => ~Read(decoder, pipe, Len(pipe)).threw
    BY <1>2, <1>6, WireWorks DEF Works
  <2> DEFINE r == Read(decoder, pipe, k)
  <2>2. pushed = r
    BY <1>6 DEF Push, Read
  <2>3. k \in 0..Len(pipe) /\ ~r.threw
    BY <1>6, <2>2
  <2> DEFINE rest == SubSeq(pipe, k + 1, Len(pipe))
             left == SubSeq(unread, Len(r.frames) + 1, Len(unread))
  <2>4. /\ IsPrefix(r.frames, unread)
        /\ Negotiated \in Range(r.frames) => EnableV2(r.decoder) = r.decoder
        /\ ReadsAll(r.decoder, rest, left)
        /\ Read(r.decoder, rest, Len(rest)).threw => Read(decoder, pipe, Len(pipe)).threw
    BY <2>1, <2>3, CutRead
  <2>5. /\ decoder' = IF Negotiated \in Range(r.frames) THEN EnableV2(r.decoder) ELSE r.decoder
        /\ pipe' = rest /\ UNCHANGED failed /\ unread' = left
        /\ inOrder' = (inOrder /\ (failed \/ IsPrefix(r.frames, unread)))
    <3>1. pushed.read = k
      BY <1>3, <1>6
    <3> HIDE DEF pushed, r
    <3>2. /\ decoder' = IF Negotiated \in Range(pushed.frames) THEN EnableV2(pushed.decoder)
                       ELSE pushed.decoder
          /\ pipe' = SubSeq(pipe, pushed.read + 1, Len(pipe))
          /\ UNCHANGED failed
          /\ unread' = SubSeq(unread, Len(pushed.frames) + 1, Len(unread))
          /\ inOrder' = (inOrder /\ (failed \/ IsPrefix(pushed.frames, unread)))
      BY <1>1, <1>6 DEF pushed
    <3>3. QED
      BY <2>2, <3>1, <3>2
  <2> HIDE DEF r, rest, left
  <2>6. decoder' = r.decoder
    BY <2>4, <2>5
  <2>7. inOrder'
    BY <2>1, <2>4, <2>5
  <2>8. ReadsAll(decoder', pipe', unread')
    BY <2>4, <2>5, <2>6
  <2>9. soiled' = 0 => ~Read(decoder', pipe', Len(pipe')).threw
    BY <1>2, <2>1, <2>4, <2>5, <2>6
  <2>10. QED
    BY <2>7, <2>8, <2>9 DEF WireTrue
<1>7. QED
  BY <1>3, <1>4, <1>5, <1>6

\* A runtime starts with the answer to the negotiation.
LEMMA Fresh ==
  ASSUME NEW d, d = BeginNegotiation(NewDecoder), NEW ls, ls = <<Whole(Negotiated)>>,
         NEW w, w = <<Negotiated>>
  PROVE  ReadsAll(d, ls, w) /\ ~Read(d, ls, Len(ls)).threw
<1> DEFINE line == Whole(Negotiated)
           none == <<>>
           e == EnableV2(d)
           one == Read(d, ls, 1)
           zero == Read(d, ls, 0)
<1>1. d = [assembly |-> none, negotiating |-> TRUE, v2 |-> FALSE]
  BY DEF BeginNegotiation, NewDecoder
<1>2. PICK f : f = e
  OBVIOUS
<1>3. d \in OpenDecoders
  BY <1>1 DEF OpenDecoders, Decoders
<1>0. f.assembly = none /\ f.v2 /\ ~f.negotiating
  <2>1. f = [d EXCEPT !.v2 = TRUE, !.negotiating = FALSE]
    BY <1>2 DEF EnableV2
  <2>2. d.assembly = none /\ DOMAIN d = {"assembly", "negotiating", "v2"}
    BY <1>1
  <2> HIDE DEF none, e
  <2>3. QED
    BY <2>1, <2>2
<1>4. line \in Lines /\ Negotiated \in Frames
  BY DecoderAssumption DEF Lines
<1>5. ls \in Seq(Lines) /\ Len(ls) = 1 /\ ls[1] = line
  BY <1>4
<1>6. w \in Seq(Frames) /\ none \in Seq(Frames) /\ none \o w = w
  BY <1>4
<1>7. DecodeLine(d, line) = Result(e, w, FALSE)
  <2>1. line.kind = "whole" /\ line.frame = Negotiated
    BY DEF Whole
  <2>2. d.negotiating /\ e.assembly = <<>>
    BY <1>0, <1>1, <1>2
  <2>3. Negotiates(d, line)
    BY <2>1, <2>2 DEF Negotiates
  <2> HIDE DEF e, line
  <2>4. QED
    BY <2>1, <2>2, <2>3 DEF DecodeLine, e
<1> HIDE DEF line
<1>8. zero = Unpushed(d) /\ one = PushLine(zero, line)
  <2> DEFINE at == 1
             before == at - 1
  <2>1. at \in 1..Len(ls) /\ before = 0
    BY <1>5
  <2>2. Read(d, ls, at) = PushLine(Read(d, ls, before), ls[at])
    <3> HIDE DEF at
    <3>1. QED
      BY <1>3, <1>5, <2>1, ReadLines
  <2>3. Read(d, ls, 0) = Unpushed(d)
    BY <1>3, <1>5, ReadLines
  <2>4. QED
    BY <1>5, <2>1, <2>2, <2>3
<1> HIDE DEF e, one, zero, none
<1>9. zero.decoder = d /\ zero.frames = none /\ ~zero.threw
  BY <1>8 DEF Unpushed, none
<1>10. one.decoder = e /\ one.frames = w /\ one.threw = FALSE
  <2>1. one = [decoder |-> e, frames |-> none \o w, threw |-> FALSE, read |-> zero.read + 1]
    <3>1. DecodeLine(zero.decoder, line) = [decoder |-> e, frames |-> w, threw |-> FALSE]
      BY <1>7, <1>9 DEF Result
    <3>2. QED
      BY <1>8, <1>9, <3>1 DEF PushLine
  <2>2. QED
    BY <1>6, <2>1
<1>11. IsPrefix(none, w) /\ IsPrefix(w, w)
  <2>1. Len(none) <= Len(w) /\ \A i \in 1..Len(none) : none[i] = w[i]
    BY <1>6 DEF none
  <2>2. IsPrefix(none, w)
    BY <1>6, <2>1, PrefixPoints
  <2>3. IsPrefix(w, w)
    BY <1>6, PrefixSelf
  <2>4. QED
    BY <2>2, <2>3
<1>12. ReadTruly(d, ls, w, 0)
  <2>1. Range(none) = {} /\ d.assembly = <<>>
    BY <1>1 DEF none, Range
  <2>2. QED
    BY <1>9, <1>11, <2>1 DEF ReadTruly, zero
<1>13. ReadTruly(d, ls, w, 1)
  <2>1. e.v2 /\ ~e.negotiating /\ e.assembly = <<>>
    BY <1>0, <1>2 DEF none
  <2>2. QED
    BY <1>10, <1>11, <2>1 DEF ReadTruly, one
<1>14. e.v2
  BY <1>0, <1>2
<1>15. ~Read(d, ls, Len(ls)).threw /\ Read(d, ls, Len(ls)).frames = w
       /\ Read(d, ls, Len(ls)).decoder.v2
  BY <1>5, <1>10, <1>14 DEF one
<1>16. \A i \in 0..Len(ls) : ReadTruly(d, ls, w, i)
  <2>1. \A i \in 0..Len(ls) : i = 0 \/ i = 1
    BY <1>5
  <2>2. QED
    BY <1>12, <1>13, <2>1
<1>17. ReadsAll(d, ls, w)
  BY <1>15, <1>16 DEF ReadsAll
<1>18. QED
  BY <1>15, <1>17

\* A runtime that is gone has nothing to say, and the next one starts afresh.
LEMMA WireGone ==
  ASSUME WireTrue, Exit \/ ParityBlocked \/ Restart
  PROVE  WireTrue'
<1>1. UNCHANGED inOrder /\ Gone
  BY DEF Exit, ParityBlocked, Restart
<1>2. ~running'
  BY <1>1 DEF Gone
<1>3. QED
  BY <1>1, <1>2 DEF WireTrue

\* The next runtime starts afresh.
LEMMA WireRestarted ==
  ASSUME WireTrue, Restarted
  PROVE  WireTrue'
<1>1. /\ pipe' = <<Whole(Negotiated)>> /\ unread' = <<Negotiated>>
      /\ decoder' = BeginNegotiation(NewDecoder) /\ UNCHANGED inOrder
  BY DEF Restarted
<1>2. ReadsAll(decoder', pipe', unread') /\ ~Read(decoder', pipe', Len(pipe')).threw
  BY <1>1, Fresh
<1>3. QED
  BY <1>1, <1>2 DEF WireTrue

\* So does the first.
LEMMA WireInit ==
  ASSUME DeliveryInit
  PROVE  WireTrue
<1>1. /\ pipe = <<Whole(Negotiated)>> /\ unread = <<Negotiated>>
      /\ decoder = BeginNegotiation(NewDecoder) /\ inOrder
  BY DEF DeliveryInit
<1>2. ReadsAll(decoder, pipe, unread) /\ ~Read(decoder, pipe, Len(pipe)).threw
  BY <1>1, Fresh
<1>3. QED
  BY <1>1, <1>2 DEF WireTrue

\* The steps of the host that touch neither the lines nor the frames.
LEMMA WireHost ==
  ASSUME WireTrue,
         \/ \E p \in Prompts : Submit(p) \/ Prepared(p) \/ Announced(p) \/ TimesOut(p)
         \/ TimerFires \/ AbortSent \/ RestartFails \/ UNCHANGED deliveryVars
  PROVE  WireTrue'
<1>1. UNCHANGED <<wireVars, failed, soiled, unread, inOrder>>
  <2>1. ASSUME NEW p \in Prompts, Submit(p)
        PROVE  UNCHANGED <<wireVars, failed, soiled, unread, inOrder>>
    BY <2>1 DEF Submit, countVars
  <2>2. ASSUME NEW p \in Prompts, Prepared(p)
        PROVE  UNCHANGED <<wireVars, failed, soiled, unread, inOrder>>
    BY <2>2 DEF Prepared, countVars
  <2>3. ASSUME NEW p \in Prompts, Announced(p)
        PROVE  UNCHANGED <<wireVars, failed, soiled, unread, inOrder>>
    BY <2>3 DEF Announced, countVars
  <2>4. ASSUME NEW p \in Prompts, TimesOut(p)
        PROVE  UNCHANGED <<wireVars, failed, soiled, unread, inOrder>>
    BY <2>4 DEF TimesOut, countVars
  <2>5. CASE TimerFires
    BY <2>5 DEF TimerFires, countVars, proofVars
  <2>6. CASE AbortSent
    BY <2>6 DEF AbortSent, countVars, proofVars
  <2>7. CASE UNCHANGED deliveryVars
    BY <2>7 DEF deliveryVars, hostVars, countVars, proofVars
  <2>8. CASE RestartFails
    BY <2>8 DEF RestartFails, proofVars
  <2>9. QED
    BY <2>1, <2>2, <2>3, <2>4, <2>5, <2>6, <2>7, <2>8
<1>2. UNCHANGED <<running, pipe, decoder, failed, soiled, unread, inOrder>>
  BY <1>1 DEF wireVars
<1>3. QED
  BY <1>2 DEF WireTrue

\* Every step keeps the lines true to the frames.
LEMMA WireInductive ==
  ASSUME IInv, WireTrue, [DeliveryNext]_deliveryVars
  PROVE  WireTrue'
<1>1. CASE OmpReads
  BY <1>1, WireOmpReads
<1>2. CASE OmpEnds \/ OmpBegins
  BY <1>2, WireTurns
<1>3. CASE OmpOutput
  BY <1>3, WireOmpOutput
<1>4. CASE OmpSoils
  BY <1>4, WireOmpSoils
<1>5. CASE Data
  BY <1>5, WireData
<1>6. CASE Exit \/ ParityBlocked \/ Restart
  BY <1>6, WireGone
<1>7. CASE Restarted
  BY <1>7, WireRestarted
<1>8. CASE \/ \E p \in Prompts : Submit(p) \/ Prepared(p) \/ Announced(p) \/ TimesOut(p)
           \/ TimerFires \/ AbortSent \/ RestartFails \/ UNCHANGED deliveryVars
  BY <1>8, WireHost
<1>9. QED
  BY <1>1, <1>2, <1>3, <1>4, <1>5, <1>6, <1>7, <1>8 DEF DeliveryNext

\* The lines are true to the frames in every state of every behaviour.
LEMMA AlwaysWire == DeliverySpec => [](IInv /\ WireTrue)
<1>1. DeliveryInit => IInv /\ WireTrue
  BY InitIInv, WireInit
<1>2. (IInv /\ WireTrue) /\ [DeliveryNext]_deliveryVars => (IInv /\ WireTrue)'
  BY Inductive, WireInductive
<1>3. QED
  BY <1>1, <1>2, PTL DEF DeliverySpec

\* WireInOrder, for any frames, any limits of the decoder and any bounds: what the host
\* handles is what OMP wrote, in order and without a gap, until something that is no frame
\* comes; and output by the protocol never fails, wherever the pipe cuts it and although
\* chunks may follow the negotiation in the piece that answers it.
THEOREM WireSafety == DeliverySpec => []WireInOrder
<1>1. ASSUME IInv, WireTrue PROVE WireInOrder
  <2>1. ASSUME soiled = 0, running, ~failed
        PROVE  LET rest == Push(decoder, pipe) IN ~rest.threw /\ rest.frames = unread
    <3> DEFINE all == Read(decoder, pipe, Len(pipe))
    <3>1. /\ pipe \in Seq(Lines) /\ decoder \in OpenDecoders
          /\ ReadsAll(decoder, pipe, unread) /\ ~all.threw
      BY <1>1, <2>1, WireWorks DEF Works
    <3>2. FoldLeft(PushLine, Unpushed(decoder), pipe) = all
      BY <3>1, ReadLines
    <3>3. all.frames = unread
      BY <3>1 DEF ReadsAll
    <3> HIDE DEF all
    <3>4. Push(decoder, pipe) = all
      BY <3>1, <3>2 DEF Push
    <3>5. QED
      BY <3>1, <3>3, <3>4
  <2>2. QED
    BY <1>1, <2>1 DEF WireInOrder, WireTrue
<1>2. QED
  BY <1>1, AlwaysWire, PTL
=============================================================================
