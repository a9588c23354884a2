------------------------- MODULE StructCyclesProofs -------------------------
(***************************************************************************)
(* Proofs about StructCycles: the search misses no cycle of the dependency *)
(* graph and reports nothing without one, and the walk over a stage        *)
(* variable's type finds a double exactly if one is inside, for any set of *)
(* structs, any fields and any order of the hash sets.                     *)
(***************************************************************************)
EXTENDS StructCycles, SequenceTheorems, TLAPS

(* A set that the graph g does not lead out of and goes round nowhere in. *)
Harmless(g, F) ==
  /\ \A s \in F : g[s] \subseteq F
  /\ ~\E S \in SUBSET F : IsCore(g, S)

(* What a search has seen of a frame's dependencies is finished, but for the
   one that the next frame is about. *)
Above(i) == IF i < Len(stack) THEN {stack[i + 1].name} ELSE {}
FramesInv ==
  /\ onStack = {stack[i].name : i \in DOMAIN stack}
  /\ \A i, j \in DOMAIN stack : stack[i].name = stack[j].name => i = j
  /\ \A i \in DOMAIN stack : stack[i].left \subseteq deps[stack[i].name]
  /\ \A i \in DOMAIN stack :
       deps[stack[i].name] \ stack[i].left \subseteq Finished \cup Above(i)
  /\ \A i \in 1 .. Len(stack) - 1 : stack[i + 1].name \in deps[stack[i].name]

(* Structs that have been searched from. *)
Searched == {s \in Structs \ pending : stack = <<>> \/ s # stack[1].name}

GraphInv ==
  /\ \A s \in Structs : deps[s] \subseteq Dependencies(program)[s]
  /\ reported = {} => deps = Dependencies(program)
  /\ \A s \in Searched : \E F \in SUBSET Structs : s \in F /\ Harmless(deps, F)
  /\ phase # "cycles" => stack = <<>> /\ pending = {}

IInv ==
  /\ TypeOK
  /\ FramesInv
  /\ Harmless(deps, Finished)
  /\ GraphInv
  /\ ReportsJustified

----------------------------------------------------------------------------
(* Graphs. *)

(* A finished set stays harmless when a struct joins whose dependencies are
   all in it. *)
LEMMA JoinHarmless ==
  ASSUME NEW g, NEW F, NEW n, n \notin F, Harmless(g, F), g[n] \subseteq F
  PROVE  Harmless(g, F \cup {n})
<1>1. \A s \in F \cup {n} : g[s] \subseteq F \cup {n}
  BY DEF Harmless
<1>2. ASSUME NEW S \in SUBSET (F \cup {n}), IsCore(g, S) PROVE FALSE
  <2> DEFINE R == S \ {n}
  <2>1. R \subseteq F
    OBVIOUS
  <2>2. R # {}
    BY <1>2 DEF IsCore
  <2>3. \A s \in R : g[s] \cap R # {}
    BY <1>2, <2>1 DEF IsCore, Harmless
  <2> QED
    BY <2>1, <2>2, <2>3 DEF IsCore, Harmless
<1> QED
  BY <1>1, <1>2 DEF Harmless

(* Taking dependencies away harms nothing. *)
LEMMA ShrinkHarmless ==
  ASSUME NEW g, NEW h, NEW F, \A s \in F : h[s] \subseteq g[s], Harmless(g, F)
  PROVE  Harmless(h, F)
BY DEF Harmless, IsCore

(* A graph whose every struct is in a harmless set has no cycle. *)
LEMMA HarmlessAcyclic ==
  ASSUME NEW g,
         \A s \in Structs : \E F \in SUBSET Structs : s \in F /\ Harmless(g, F)
  PROVE  ~Cyclic(g)
<1> SUFFICES ASSUME NEW S \in SUBSET Structs, IsCore(g, S) PROVE FALSE
  BY DEF Cyclic
<1>1. PICK s \in S : TRUE
  BY DEF IsCore
<1>2. PICK F \in SUBSET Structs : s \in F /\ Harmless(g, F)
  OBVIOUS
<1>3. IsCore(g, S \cap F)
  BY <1>1, <1>2 DEF IsCore, Harmless
<1> QED
  BY <1>2, <1>3 DEF Harmless

----------------------------------------------------------------------------
(* Stacks of frames. *)

LEMMA TopFacts ==
  ASSUME NEW T, NEW s \in Seq(T), s # <<>>
  PROVE  /\ Len(s) \in Nat \ {0} /\ DOMAIN s = 1 .. Len(s) /\ Len(s) \in DOMAIN s
         /\ \A i \in DOMAIN s : s[i] \in T
OBVIOUS

LEMMA TookFacts ==
  ASSUME NEW Y, NEW s \in Seq(Frames(Y)), s # <<>>, NEW x
  PROVE  /\ Took(s, x) \in Seq(Frames(Y))
         /\ Len(Took(s, x)) = Len(s) /\ Len(s) \in Nat \ {0}
         /\ \A i \in 1 .. Len(s) : Took(s, x)[i].name = s[i].name
         /\ \A i \in 1 .. Len(s) - 1 : Took(s, x)[i] = s[i]
         /\ Took(s, x)[Len(s)].left = s[Len(s)].left \ {x}
<1> DEFINE n == Len(s)
           new == [s[n] EXCEPT !.left = @ \ {x}]
<1>1. /\ n \in Nat \ {0} /\ DOMAIN s = 1 .. n /\ n \in DOMAIN s
      /\ s[n] \in Frames(Y)
  BY TopFacts
<1>2. /\ new \in Frames(Y)
      /\ new.name = s[n].name /\ new.left = s[n].left \ {x}
  BY <1>1 DEF Frames
<1>3. Took(s, x) = [s EXCEPT ![n] = new]
  BY DEF Took
<1> HIDE DEF new, n
<1>4. /\ DOMAIN Took(s, x) = 1 .. n /\ Took(s, x)[n] = new
      /\ \A i \in 1 .. n - 1 : Took(s, x)[i] = s[i]
  BY <1>1, <1>3
<1>5. Took(s, x) \in Seq(Frames(Y))
  BY <1>2, <1>3, <1>1
<1>6. Len(Took(s, x)) = n
  BY <1>1, <1>4, <1>5
<1>7. \A i \in 1 .. n : Took(s, x)[i].name = s[i].name
  BY <1>1, <1>2, <1>4
<1> QED
  BY <1>1, <1>2, <1>4, <1>5, <1>6, <1>7 DEF n

LEMMA RestFacts ==
  ASSUME NEW T, NEW s \in Seq(T), s # <<>>
  PROVE  /\ Rest(s) \in Seq(T)
         /\ Len(Rest(s)) = Len(s) - 1 /\ Len(s) \in Nat \ {0}
         /\ \A i \in 1 .. Len(s) - 1 : Rest(s)[i] = s[i]
<1> DEFINE n == Len(s)
<1>1. n \in Nat \ {0} /\ \A i \in 1 .. n : s[i] \in T
  BY TopFacts
<1>2. 1 \in Int /\ n - 1 \in Int /\ \A i \in 1 .. n - 1 : s[i] \in T
  BY <1>1
<1>3. Rest(s) = SubSeq(s, 1, n - 1)
  BY DEF Rest
<1> HIDE DEF n
<1>4. /\ Rest(s) \in Seq(T)
      /\ Len(Rest(s)) = IF 1 <= n - 1 THEN (n - 1) - 1 + 1 ELSE 0
      /\ \A i \in 1 .. (n - 1) - 1 + 1 : Rest(s)[i] = s[1 + i - 1]
  BY <1>2, <1>3, SubSeqProperties
<1>5. Len(Rest(s)) = n - 1
  BY <1>1, <1>4
<1>6. \A i \in 1 .. n - 1 : Rest(s)[i] = s[i]
  <2> TAKE i \in 1 .. n - 1
  <2>1. i \in 1 .. (n - 1) - 1 + 1 /\ 1 + i - 1 = i
    BY <1>1
  <2> QED
    BY <1>4, <2>1
<1> QED
  BY <1>1, <1>4, <1>5, <1>6 DEF n

----------------------------------------------------------------------------
(* The actions of the search. *)

LEMMA InitIInv == Init => IInv
<1> SUFFICES ASSUME Init PROVE IInv
  OBVIOUS
<1>1. program \in Program
  BY ProgramsAssumption DEF Init
<1>2. Dependencies(program) \in [Structs -> SUBSET Structs]
  BY DEF Dependencies
<1>3. TypeOK
  <2>1. <<>> \in Seq(Frames(Structs)) /\ <<>> \in Seq(Frames(Field))
    OBVIOUS
  <2> QED
    BY <1>1, <1>2, <2>1 DEF Init, TypeOK
<1>4. FramesInv
  BY DEF Init, FramesInv
<1>5. Harmless(deps, Finished)
  BY DEF Init, Harmless, Finished, IsCore
<1>6. GraphInv
  BY DEF Init, GraphInv, Searched
<1>7. ReportsJustified
  BY DEF Init, ReportsJustified
<1> QED
  BY <1>3, <1>4, <1>5, <1>6, <1>7 DEF IInv

(* The parts of the invariant about the graph, for a step inside a search. *)
LEMMA InsideKeepsGraph ==
  ASSUME IInv, stack # <<>>, stack' # <<>>, stack'[1].name = stack[1].name,
         UNCHANGED <<program, phase, deps, pending, reported>>
  PROVE  GraphInv' /\ ReportsJustified'
<1>1. Searched' = Searched
  BY DEF Searched
<1> QED
  BY <1>1 DEF IInv, GraphInv, ReportsJustified

LEMMA StartSearchKeeps ==
  ASSUME IInv, StartSearch
  PROVE  IInv'
<1>1. PICK name \in pending :
        /\ pending' = pending \ {name}
        /\ stack' = <<Frame(name, deps[name])>>
        /\ visited' = {name} /\ onStack' = {name}
  BY DEF StartSearch
<1>2. /\ phase = "cycles" /\ stack = <<>> /\ name \in Structs
      /\ UNCHANGED <<program, phase, deps, reported, calls, double>>
  BY DEF StartSearch, IInv, TypeOK
<1>3. Frame(name, deps[name]) \in Frames(Structs)
  BY <1>2 DEF Frame, Frames, IInv, TypeOK
<1>4. TypeOK'
  BY <1>1, <1>2, <1>3 DEF IInv, TypeOK
<1>5. /\ Len(stack') = 1 /\ DOMAIN stack' = {1}
      /\ stack'[1].name = name /\ stack'[1].left = deps[name]
  BY <1>1 DEF Frame
<1>6. FramesInv'
  BY <1>1, <1>2, <1>5 DEF FramesInv, Above
<1>7. Harmless(deps, Finished)'
  BY <1>1 DEF Harmless, Finished, IsCore
<1>8. GraphInv' /\ ReportsJustified'
  <2>1. Searched' \subseteq Searched
    BY <1>1, <1>2, <1>5 DEF Searched
  <2> QED
    BY <1>2, <2>1 DEF IInv, GraphInv, ReportsJustified
<1> QED
  BY <1>4, <1>6, <1>7, <1>8 DEF IInv

LEMMA DescendKeeps ==
  ASSUME IInv, NEW dep \in Structs, Descend(dep)
  PROVE  IInv'
<1> DEFINE n == Len(stack)
           T == Frames(Structs)
           took == Took(stack, dep)
<1>1. /\ stack # <<>> /\ dep \in stack[n].left /\ dep \notin visited
      /\ stack' = Push(took, Frame(dep, deps[dep]))
      /\ visited' = visited \cup {dep} /\ onStack' = onStack \cup {dep}
      /\ UNCHANGED <<program, phase, deps, pending, reported, calls, double>>
  BY DEF Descend, Looking, Top
<1>2. TypeOK /\ FramesInv
  BY DEF IInv
<1>3. /\ took \in Seq(T) /\ Len(took) = n /\ n \in Nat \ {0}
      /\ \A i \in 1 .. n : took[i].name = stack[i].name
      /\ \A i \in 1 .. n - 1 : took[i] = stack[i]
      /\ took[n].left = stack[n].left \ {dep}
  BY <1>1, <1>2, TookFacts DEF TypeOK
<1>4. Frame(dep, deps[dep]) \in T
  BY <1>2 DEF Frame, Frames, TypeOK
<1> HIDE DEF n, took, T
<1>5. /\ stack' \in Seq(T) /\ Len(stack') = n + 1
      /\ \A i \in 1 .. n : stack'[i] = took[i]
      /\ stack'[n + 1].name = dep /\ stack'[n + 1].left = deps[dep]
  <2> DEFINE f == Frame(dep, deps[dep])
  <2>1. f.name = dep /\ f.left = deps[dep]
    BY DEF Frame
  <2>2. took \in Seq(T) /\ f \in T /\ Len(took) = n /\ stack' = Push(took, f)
    BY <1>1, <1>3, <1>4
  <2> HIDE DEF f
  <2>3. /\ Push(took, f) \in Seq(T)
        /\ Len(Push(took, f)) = Len(took) + 1
        /\ \A i \in 1 .. Len(took) : Push(took, f)[i] = took[i]
        /\ Push(took, f)[Len(took) + 1] = f
    BY <2>2 DEF Push
  <2> QED
    BY <2>1, <2>2, <2>3
<1> DOMAIN stack = 1 .. n /\ DOMAIN stack' = 1 .. n + 1
  BY <1>2, <1>5 DEF TypeOK, n
<1>6. TypeOK'
  BY <1>1, <1>2, <1>5 DEF TypeOK, T
<1>7. Finished' = Finished
  BY <1>1, <1>2 DEF Finished, TypeOK
<1>8. FramesInv'
  <2>1. onStack' = {stack'[i].name : i \in DOMAIN stack'}
    BY <1>1, <1>2, <1>3, <1>5 DEF FramesInv
  <2>2. \A i, j \in DOMAIN stack' : stack'[i].name = stack'[j].name => i = j
    <3>0. \A i \in 1 .. n : stack'[i].name = stack[i].name
      BY <1>3, <1>5
    <3>1. \A i \in 1 .. n : stack'[i].name \in visited
      BY <1>2, <3>0 DEF FramesInv, TypeOK
    <3>2. \A i, j \in 1 .. n : stack'[i].name = stack'[j].name => i = j
      BY <1>2, <3>0 DEF FramesInv
    <3> QED
      BY <1>1, <1>3, <1>5, <3>1, <3>2
  <2>3. ASSUME NEW i \in DOMAIN stack'
        PROVE  /\ stack'[i].left \subseteq deps'[stack'[i].name]
               /\ deps'[stack'[i].name] \ stack'[i].left \subseteq Finished' \cup Above(i)'
    <3>1. CASE i \in 1 .. n - 1
      <4>1. /\ i \in DOMAIN stack /\ i < n /\ i + 1 \in 1 .. n /\ i < Len(stack')
            /\ stack'[i] = stack[i] /\ stack'[i + 1].name = stack[i + 1].name
        BY <1>3, <1>5, <3>1
      <4>2. Above(i)' = Above(i)
        BY <4>1 DEF Above, n
      <4> QED
        BY <1>1, <1>2, <1>7, <4>1, <4>2 DEF FramesInv
    <3>2. CASE i = n
      <4>1. /\ i \in DOMAIN stack /\ i < Len(stack') /\ stack'[i].name = stack[i].name
            /\ stack'[i].left = stack[i].left \ {dep} /\ stack'[i + 1].name = dep
        BY <1>3, <1>5, <3>2
      <4>2. Above(i) = {} /\ Above(i)' = {dep}
        BY <1>3, <3>2, <4>1 DEF Above, n
      <4> QED
        BY <1>1, <1>2, <1>7, <4>1, <4>2 DEF FramesInv
    <3>3. CASE i = n + 1
      BY <1>1, <1>5, <3>3
    <3> QED
      BY <1>3, <3>1, <3>2, <3>3
  <2>4. \A i \in 1 .. Len(stack') - 1 : stack'[i + 1].name \in deps'[stack'[i].name]
    <3> SUFFICES ASSUME NEW i \in 1 .. n PROVE stack'[i + 1].name \in deps[stack[i].name]
      BY <1>1, <1>3, <1>5
    <3>1. CASE i = n
      BY <1>1, <1>2, <1>5, <3>1 DEF FramesInv
    <3>2. CASE i # n
      <4>1. i \in 1 .. n - 1 /\ i + 1 \in 1 .. n
        BY <1>3, <3>2
      <4> QED
        BY <1>2, <1>3, <1>5, <4>1 DEF FramesInv, n
    <3> QED
      BY <3>1, <3>2
  <2> QED
    BY <2>1, <2>2, <2>3, <2>4 DEF FramesInv
<1>9. GraphInv' /\ ReportsJustified'
  <2>1. stack' # <<>> /\ stack'[1].name = stack[1].name
    BY <1>3, <1>5
  <2> QED
    BY <1>1, <2>1, InsideKeepsGraph
<1>10. Harmless(deps, Finished)'
  BY <1>1, <1>7 DEF IInv, Harmless, IsCore
<1> QED
  BY <1>6, <1>8, <1>9, <1>10 DEF IInv

LEMMA SkipVisitedKeeps ==
  ASSUME IInv, NEW dep \in Structs, SkipVisited(dep)
  PROVE  IInv'
<1> DEFINE n == Len(stack)
           T == Frames(Structs)
<1>1. /\ stack # <<>> /\ dep \in visited \ onStack
      /\ stack' = Took(stack, dep)
      /\ UNCHANGED <<program, phase, deps, pending, visited, onStack, reported, calls, double>>
  BY DEF SkipVisited, Looking
<1>2. TypeOK /\ FramesInv
  BY DEF IInv
<1>3. /\ stack' \in Seq(T) /\ Len(stack') = n /\ n \in Nat \ {0}
      /\ \A i \in 1 .. n : stack'[i].name = stack[i].name
      /\ \A i \in 1 .. n - 1 : stack'[i] = stack[i]
      /\ stack'[n].left = stack[n].left \ {dep}
  BY <1>1, <1>2, TookFacts DEF TypeOK
<1> DOMAIN stack = 1 .. n /\ DOMAIN stack' = 1 .. n
  BY <1>2, <1>3 DEF TypeOK
<1> HIDE DEF n, T
<1>4. TypeOK'
  BY <1>1, <1>2, <1>3 DEF TypeOK, T
<1>5. Finished' = Finished /\ dep \in Finished
  BY <1>1 DEF Finished
<1>6. FramesInv'
  <2>1. onStack' = {stack'[i].name : i \in DOMAIN stack'}
    BY <1>1, <1>2, <1>3 DEF FramesInv
  <2>2. \A i, j \in DOMAIN stack' : stack'[i].name = stack'[j].name => i = j
    BY <1>2, <1>3 DEF FramesInv
  <2>3. ASSUME NEW i \in DOMAIN stack'
        PROVE  /\ stack'[i].left \subseteq deps'[stack'[i].name]
               /\ deps'[stack'[i].name] \ stack'[i].left \subseteq Finished' \cup Above(i)'
    <3>1. stack'[i].name = stack[i].name
          /\ (stack'[i].left = stack[i].left \/ stack'[i].left = stack[i].left \ {dep})
      BY <1>3
    <3>2. Above(i)' = Above(i)
      <4>1. i < n => i + 1 \in 1 .. n
        BY <1>3
      <4> QED
        BY <1>3, <4>1 DEF Above, n
    <3> QED
      BY <1>1, <1>2, <1>5, <3>1, <3>2 DEF FramesInv
  <2>4. ASSUME NEW i \in 1 .. Len(stack') - 1
        PROVE  stack'[i + 1].name \in deps'[stack'[i].name]
    <3>1. i \in 1 .. n - 1 /\ i \in 1 .. n /\ i + 1 \in 1 .. n
      BY <1>3
    <3> QED
      BY <1>1, <1>2, <1>3, <3>1 DEF FramesInv, n
  <2> QED
    BY <2>1, <2>2, <2>3, <2>4 DEF FramesInv
<1>7. GraphInv' /\ ReportsJustified'
  <2>1. stack' # <<>> /\ stack'[1].name = stack[1].name
    BY <1>3
  <2> QED
    BY <1>1, <2>1, InsideKeepsGraph
<1>8. Harmless(deps, Finished)'
  BY <1>1, <1>5 DEF IInv
<1> QED
  BY <1>4, <1>6, <1>7, <1>8 DEF IInv

(* The frames are a way round: each struct on the stack depends on the next
   one, and the last on one of them. *)
LEMMA FoundCycleKeeps ==
  ASSUME IInv, NEW dep \in Structs, FoundCycle(dep)
  PROVE  IInv'
<1> DEFINE n == Len(stack)
           start == stack[1].name
<1>1. /\ stack # <<>> /\ dep \in stack[n].left /\ dep \in onStack
      /\ reported' = reported \cup {start}
      /\ deps' = [deps EXCEPT ![start] = {}]
      /\ stack' = <<>> /\ visited' = {} /\ onStack' = {}
      /\ UNCHANGED <<program, phase, pending, calls, double>>
  BY DEF FoundCycle, Looking, Top
<1>2. TypeOK /\ FramesInv /\ GraphInv
  BY DEF IInv
<1>3. n \in Nat \ {0} /\ DOMAIN stack = 1 .. n /\ 1 \in 1 .. n /\ n \in 1 .. n
  BY <1>1, <1>2, TopFacts DEF TypeOK
<1>4. start \in onStack /\ start \in Structs /\ onStack \subseteq Structs
  BY <1>2, <1>3 DEF FramesInv, TypeOK
<1> HIDE DEF n
<1>5. IsCore(deps, onStack)
  <2>1. ASSUME NEW i \in 1 .. n PROVE deps[stack[i].name] \cap onStack # {}
    <3>1. CASE i = n
      BY <1>1, <1>2, <1>3, <3>1 DEF FramesInv
    <3>2. CASE i # n
      <4>1. i \in 1 .. n - 1 /\ i + 1 \in 1 .. n
        BY <1>3, <3>2
      <4>2. stack[i + 1].name \in deps[stack[i].name]
        BY <1>2, <4>1 DEF FramesInv, n
      <4>3. stack[i + 1].name \in onStack
        BY <1>2, <1>3, <4>1 DEF FramesInv
      <4> QED
        BY <4>2, <4>3
    <3> QED
      BY <3>1, <3>2
  <2>2. \A s \in onStack : \E i \in 1 .. n : s = stack[i].name
    BY <1>2, <1>3 DEF FramesInv
  <2> QED
    BY <1>4, <2>1, <2>2 DEF IsCore
<1>6. TypeOK'
  <2>1. <<>> \in Seq(Frames(Structs))
    OBVIOUS
  <2>2. deps' \in [Structs -> SUBSET Structs]
    BY <1>1, <1>2 DEF TypeOK
  <2> QED
    BY <1>1, <1>2, <1>4, <2>1, <2>2 DEF TypeOK
<1>7. FramesInv'
  BY <1>1 DEF FramesInv
<1>8. Harmless(deps, Finished)'
  BY <1>1 DEF Harmless, Finished, IsCore
<1>9. \A s \in Structs : deps'[s] \subseteq deps[s]
  BY <1>1, <1>2 DEF TypeOK
<1>10. GraphInv'
  <2>1. \A s \in Structs : deps'[s] \subseteq Dependencies(program')[s]
    BY <1>1, <1>2, <1>9 DEF GraphInv
  <2>2. ASSUME NEW s \in Searched' PROVE \E F \in SUBSET Structs : s \in F /\ Harmless(deps', F)
    <3>1. CASE s = start
      <4>1. deps'[start] = {}
        BY <1>1, <1>2, <1>4 DEF TypeOK
      <4>2. Harmless(deps', {start})
        BY <4>1 DEF Harmless, IsCore
      <4> QED
        BY <1>4, <3>1, <4>2
    <3>2. CASE s # start
      <4>1. s \in Searched
        BY <1>1, <3>2 DEF Searched
      <4>2. PICK F \in SUBSET Structs : s \in F /\ Harmless(deps, F)
        BY <1>2, <4>1 DEF GraphInv
      <4>3. Harmless(deps', F)
        BY <1>9, <4>2, ShrinkHarmless
      <4> QED
        BY <4>2, <4>3
    <3> QED
      BY <3>1, <3>2
  <2> QED
    BY <1>1, <1>2, <2>1, <2>2 DEF GraphInv
<1>11. ReportsJustified'
  <2>1. IsCore(Dependencies(program), onStack)
    BY <1>2, <1>4, <1>5 DEF IsCore, GraphInv
  <2> QED
    BY <1>1, <1>4, <2>1 DEF IInv, ReportsJustified
<1> QED
  BY <1>6, <1>7, <1>8, <1>10, <1>11 DEF IInv

LEMMA LeaveKeeps ==
  ASSUME IInv, Leave
  PROVE  IInv'
<1> DEFINE n == Len(stack)
           name == stack[n].name
           T == Frames(Structs)
<1>1. /\ stack # <<>> /\ stack[n].left = {}
      /\ onStack' = onStack \ {name}
      /\ stack' = Rest(stack)
      /\ UNCHANGED <<program, phase, deps, pending, visited, reported, calls, double>>
  BY DEF Leave, Top
<1>2. TypeOK /\ FramesInv /\ GraphInv
  BY DEF IInv
<1>3. /\ stack' \in Seq(T) /\ Len(stack') = n - 1 /\ n \in Nat \ {0}
      /\ \A i \in 1 .. n - 1 : stack'[i] = stack[i]
  BY <1>1, <1>2, RestFacts DEF TypeOK
<1> DOMAIN stack = 1 .. n /\ DOMAIN stack' = 1 .. n - 1 /\ n \in 1 .. n
  BY <1>2, <1>3 DEF TypeOK
<1>4. name \in onStack /\ name \in visited /\ name \in Structs
  BY <1>2 DEF FramesInv, TypeOK
<1>5. deps[name] \subseteq Finished
  BY <1>1, <1>2 DEF FramesInv, Above
<1> HIDE DEF n, name, T
<1>6. TypeOK'
  BY <1>1, <1>2, <1>3 DEF TypeOK, T
<1>7. Finished' = Finished \cup {name} /\ name \notin Finished
  BY <1>1, <1>4 DEF Finished
<1>8. Harmless(deps, Finished)'
  BY <1>1, <1>5, <1>7, JoinHarmless DEF IInv
<1>9. FramesInv'
  <2>1. onStack' = {stack'[i].name : i \in DOMAIN stack'}
    <3>1. onStack = {stack[i].name : i \in 1 .. n} /\ name = stack[n].name
      BY <1>2 DEF FramesInv, name
    <3>2. \A i \in 1 .. n : stack[i].name = name => i = n
      BY <1>2, <3>1 DEF FramesInv
    <3>3. \A i \in 1 .. n - 1 : i \in 1 .. n /\ i # n
      BY <1>3
    <3>4. \A i \in 1 .. n : i # n => i \in 1 .. n - 1
      BY <1>3
    <3> QED
      BY <1>1, <1>3, <3>1, <3>2, <3>3, <3>4
  <2>2. \A i, j \in DOMAIN stack' : stack'[i].name = stack'[j].name => i = j
    <3>1. \A i \in 1 .. n - 1 : i \in 1 .. n
      BY <1>3
    <3> QED
      BY <1>2, <1>3, <3>1 DEF FramesInv
  <2>3. ASSUME NEW i \in DOMAIN stack'
        PROVE  /\ stack'[i].left \subseteq deps'[stack'[i].name]
               /\ deps'[stack'[i].name] \ stack'[i].left \subseteq Finished' \cup Above(i)'
    <3>1. i \in DOMAIN stack /\ stack'[i] = stack[i] /\ i + 1 \in 1 .. n
      BY <1>3
    <3>2. Above(i) \subseteq {name} \cup Above(i)'
      <4>1. CASE i + 1 = n
        BY <1>3, <4>1 DEF Above, n, name
      <4>2. CASE i + 1 # n
        <5>1. i < n - 1 /\ i < n /\ i + 1 \in 1 .. n - 1
          BY <1>3, <3>1, <4>2
        <5> QED
          BY <1>3, <5>1 DEF Above, n
      <4> QED
        BY <4>1, <4>2
    <3> QED
      BY <1>1, <1>2, <1>7, <3>1, <3>2 DEF FramesInv
  <2>4. ASSUME NEW i \in 1 .. Len(stack') - 1
        PROVE  stack'[i + 1].name \in deps'[stack'[i].name]
    <3>1. i \in 1 .. n - 1 /\ i + 1 \in 1 .. n - 1
      BY <1>3
    <3> QED
      BY <1>1, <1>2, <1>3, <3>1 DEF FramesInv, n
  <2> QED
    BY <2>1, <2>2, <2>3, <2>4 DEF FramesInv
<1>10. GraphInv' /\ ReportsJustified'
  <2>1. CASE n = 1
    <3>1. stack' = <<>> /\ name = stack[1].name
      BY <1>3, <2>1 DEF name
    <3>2. Searched' \subseteq Searched \cup {name}
      BY <1>1, <3>1 DEF Searched
    <3>3. Finished' \in SUBSET Structs /\ name \in Finished'
      BY <1>2, <1>7, <1>4 DEF Finished, TypeOK
    <3>4. \A s \in Searched' : \E F \in SUBSET Structs : s \in F /\ Harmless(deps', F)
      BY <1>1, <1>2, <1>8, <3>2, <3>3 DEF GraphInv
    <3> QED
      BY <1>1, <1>2, <3>1, <3>4 DEF IInv, GraphInv, ReportsJustified
  <2>2. CASE n # 1
    <3>1. stack' # <<>> /\ stack'[1].name = stack[1].name
      BY <1>3, <2>2
    <3> QED
      BY <1>1, <3>1, InsideKeepsGraph
  <2> QED
    BY <2>1, <2>2
<1> QED
  BY <1>6, <1>8, <1>9, <1>10 DEF IInv

----------------------------------------------------------------------------
(* The other steps leave the search and the graph alone. *)

LEMMA OutsideKeeps ==
  ASSUME IInv, TypeOK',
         UNCHANGED <<program, deps, pending, search, reported>>,
         phase' # "cycles" => stack = <<>> /\ pending = {}
  PROVE  IInv'
<1>1. UNCHANGED <<stack, visited, onStack>>
  BY DEF search
<1>2. FramesInv'
  BY <1>1 DEF IInv, FramesInv, Above, Finished
<1>3. Harmless(deps, Finished)'
  BY <1>1 DEF IInv, Finished
<1>4. GraphInv' /\ ReportsJustified'
  <2>1. Searched' = Searched
    BY <1>1 DEF Searched
  <2> QED
    BY <1>1, <2>1 DEF IInv, GraphInv, ReportsJustified
<1> QED
  BY <1>2, <1>3, <1>4 DEF IInv

LEMMA CheckKeeps ==
  ASSUME IInv, Check
  PROVE  IInv'
<1>1. TypeOK /\ GraphInv
  BY DEF IInv
<1>2. \A s \in Structs : Frame(s, program.fields[s]) \in Frames(Field)
  BY <1>1 DEF TypeOK, Program, Frame, Frames
<1>3. <<>> \in Seq(Frames(Field))
  OBVIOUS
<1>4. CASE CheckStageVar
  <2>1. calls' \in Seq(Frames(Field))
    <3>1. CASE program.stageVar = NoVar
      BY <1>1, <1>4, <3>1 DEF CheckStageVar, TypeOK
    <3>2. CASE program.stageVar # NoVar
      <4> DEFINE frame == Frame(program.stageVar, program.fields[program.stageVar])
                 F == Frames(Field)
      <4>1. program.stageVar \in Structs
        BY <1>1, <3>2 DEF TypeOK, Program
      <4>2. frame \in F
        BY <1>2, <4>1
      <4>3. calls' = <<frame>>
        BY <1>4, <3>2 DEF CheckStageVar
      <4> HIDE DEF frame, F
      <4>4. <<frame>> \in Seq(F)
        BY <4>2
      <4> QED
        BY <4>3, <4>4 DEF F
    <3> QED
      BY <3>1, <3>2
  <2>2. TypeOK'
    BY <1>1, <1>4, <2>1 DEF CheckStageVar, TypeOK, search
  <2> QED
    BY <1>4, <2>2, OutsideKeeps DEF CheckStageVar
<1>5. CASE LeaveStruct
  <2>1. calls' \in Seq(Frames(Field))
    BY <1>1, <1>5, RestFacts DEF LeaveStruct, TypeOK
  <2>2. TypeOK'
    BY <1>1, <1>5, <2>1 DEF LeaveStruct, TypeOK, search
  <2> QED
    BY <1>1, <1>5, <2>2, OutsideKeeps DEF LeaveStruct, GraphInv
<1>6. CASE Return
  <2>1. TypeOK'
    BY <1>1, <1>6 DEF Return, TypeOK, search
  <2> QED
    BY <1>1, <1>6, <2>1, OutsideKeeps DEF Return, GraphInv
<1>7. ASSUME NEW f \in Field, EnterField(f) \/ FoundDouble(f) \/ SkipField(f)
      PROVE  IInv'
  <2>1. phase = "types" /\ calls # <<>>
    BY <1>7 DEF EnterField, FoundDouble, SkipField, LookingAt
  <2>2. Took(calls, f) \in Seq(Frames(Field))
    BY <1>1, <2>1, TookFacts DEF TypeOK
  <2>3. calls' \in Seq(Frames(Field)) /\ double' \in BOOLEAN
    <3>1. CASE EnterField(f)
      BY <1>1, <1>2, <2>2, <3>1 DEF EnterField, Push, TypeOK
    <3>2. CASE FoundDouble(f)
      BY <1>3, <3>2 DEF FoundDouble
    <3>3. CASE SkipField(f)
      BY <1>1, <2>2, <3>3 DEF SkipField, TypeOK
    <3> QED
      BY <1>7, <3>1, <3>2, <3>3
  <2>4. /\ UNCHANGED <<program, deps, pending, search, reported, phase>>
    BY <1>7 DEF EnterField, FoundDouble, SkipField
  <2>5. TypeOK'
    BY <1>1, <2>3, <2>4 DEF TypeOK, search
  <2> QED
    BY <1>1, <2>1, <2>4, <2>5, OutsideKeeps DEF GraphInv
<1> QED
  BY <1>4, <1>5, <1>6, <1>7 DEF Check

LEMMA NextKeeps == IInv /\ [Next]_vars => IInv'
<1> SUFFICES ASSUME IInv, [Next]_vars PROVE IInv'
  OBVIOUS
<1>1. CASE Search
  BY <1>1, StartSearchKeeps, DescendKeeps, SkipVisitedKeeps, FoundCycleKeeps, LeaveKeeps DEF Search
<1>2. CASE Check
  BY <1>2, CheckKeeps
<1>3. CASE UNCHANGED vars
  <2>1. UNCHANGED <<program, phase, deps, pending, search, reported, calls, double>>
    BY <1>3 DEF vars
  <2>2. TypeOK'
    BY <2>1 DEF IInv, TypeOK, search
  <2> QED
    BY <2>1, <2>2, OutsideKeeps DEF IInv, GraphInv
<1> QED
  BY <1>1, <1>2, <1>3 DEF Next, Stopped

LEMMA InductiveInvariant == Spec => []IInv
<1> QED
  BY InitIInv, NextKeeps, PTL DEF Spec

(* Type correctness: a struct is only on the stack if it was visited. *)
THEOREM TypeCorrect == Spec => []TypeOK
<1>1. IInv => TypeOK
  BY DEF IInv
<1> QED
  BY <1>1, InductiveInvariant, PTL

(* hasCycleFrom's sets mean what the search takes them to mean: a visited
   struct that is off the stack leads nowhere else and to no cycle. *)
THEOREM SearchSound == Spec => []SearchInv
<1>1. IInv => SearchInv
  BY DEF IInv, FramesInv, SearchInv, Harmless
<1> QED
  BY <1>1, InductiveInvariant, PTL

(* detectCycles reports a struct only if a cycle can be reached from it. *)
THEOREM Justified == Spec => []ReportsJustified
<1>1. IInv => ReportsJustified
  BY DEF IInv
<1> QED
  BY <1>1, InductiveInvariant, PTL

(* When detectCycles ends, every cycle goes through a reported struct, in
   whatever order it has gone through structNames_. *)
THEOREM Complete == Spec => []NoCycleLeft
<1>1. IInv => NoCycleLeft
  <2> SUFFICES ASSUME IInv, pending = {}, stack = <<>> PROVE ~Cyclic(deps)
    BY DEF NoCycleLeft
  <2>1. Searched = Structs
    BY DEF Searched
  <2> QED
    BY <2>1, HarmlessAcyclic DEF IInv, GraphInv
<1> QED
  BY <1>1, InductiveInvariant, PTL

(* A program whose dependencies are cyclic does not get past the analysis:
   the error count that run returns is not zero. *)
THEOREM CyclicRejected ==
  Spec => [](phase = "done" /\ Cyclic(Dependencies(program)) => reported # {})
<1>1. IInv => (phase = "done" /\ Cyclic(Dependencies(program)) => reported # {})
  <2> SUFFICES ASSUME IInv, phase = "done", reported = {}
               PROVE  ~Cyclic(Dependencies(program))
    OBVIOUS
  <2>1. stack = <<>> /\ pending = {} /\ deps = Dependencies(program)
    BY DEF IInv, GraphInv
  <2>2. Searched = Structs
    BY <2>1 DEF Searched
  <2> QED
    BY <2>1, <2>2, HarmlessAcyclic DEF IInv, GraphInv
<1> QED
  BY <1>1, InductiveInvariant, PTL

----------------------------------------------------------------------------
(* The walk over a stage variable's type. *)

HasDouble(p, s) == \E f \in p.fields[s] : f.of = "double"
Closed(p, S) == \A s \in S : Contents(p)[s] \subseteq S

\* Structs that hold no double, however deep one looks.
Clean(p) ==
  {s \in Structs : \E S \in SUBSET Structs :
     s \in S /\ Closed(p, S) /\ \A t \in S : ~HasDouble(p, t)}

\* Structs that the stage variable contains.
Inside(p) ==
  {s \in Structs : \A S \in SUBSET Structs : p.stageVar \in S /\ Closed(p, S) => s \in S}

\* What a frame is done with holds no double, but for the struct it is in.
FrameOK(p, frame, above) ==
  /\ frame.left \subseteq p.fields[frame.name] /\ frame.name \in Inside(p)
  /\ \A f \in p.fields[frame.name] \ frame.left :
       f.of # "double" /\ (f.of \in Structs => f.of \in Clean(p) \cup above)

Over(s, i) == IF i < Len(s) THEN {s[i + 1].name} ELSE {}
WalkOK(p, s) == \A i \in 1 .. Len(s) : FrameOK(p, s[i], Over(s, i))

WalkInv ==
  /\ phase = "cycles" => calls = <<>> /\ ~double
  /\ calls # <<>> => phase = "types" /\ ~double /\ calls[1].name = program.stageVar
  /\ double => \E s \in Inside(program) : HasDouble(program, s)
  /\ phase # "cycles" /\ calls = <<>> /\ ~double /\ program.stageVar # NoVar
       => program.stageVar \in Clean(program)
  /\ WalkOK(program, calls)

LEMMA CleanJoins ==
  ASSUME NEW p, NEW n \in Structs,
         \A f \in p.fields[n] : f.of # "double" /\ (f.of \in Structs => f.of \in Clean(p))
  PROVE  n \in Clean(p)
<1>. DEFINE S == Clean(p) \cup {n}
<1>1. S \in SUBSET Structs  BY DEF Clean
<1>2. \A s \in Structs : Contents(p)[s] = {f.of : f \in p.fields[s]} \cap Structs
  BY DEF Contents
<1>3. Contents(p)[n] \subseteq Clean(p) /\ ~HasDouble(p, n)
  BY <1>2 DEF HasDouble
<1>4. ASSUME NEW s \in Clean(p) PROVE Contents(p)[s] \subseteq Clean(p) /\ ~HasDouble(p, s)
  <2>1. PICK R \in SUBSET Structs : s \in R /\ Closed(p, R) /\ \A t \in R : ~HasDouble(p, t)
    BY DEF Clean
  <2>2. R \subseteq Clean(p)  BY <2>1 DEF Clean
  <2>. QED  BY <2>1, <2>2 DEF Closed
<1>5. Closed(p, S) /\ \A t \in S : ~HasDouble(p, t)  BY <1>3, <1>4 DEF Closed
<1>. HIDE DEF S
<1>6. n \in S  BY DEF S
<1>. QED  BY <1>1, <1>5, <1>6 DEF Clean

LEMMA InsideGrows ==
  ASSUME NEW p, NEW s \in Inside(p), NEW f \in p.fields[s], f.of \in Structs
  PROVE  f.of \in Inside(p)
<1>1. s \in Structs /\ f.of \in Contents(p)[s]  BY DEF Inside, Contents
<1>. QED  BY <1>1 DEF Inside, Closed

\* The top frame takes a field that is not the struct to be entered.
LEMMA TookWalk ==
  ASSUME NEW p, NEW s \in Seq(Frames(Field)), s # <<>>, WalkOK(p, s), NEW f, f \in s[Len(s)].left,
         NEW above, f.of # "double", f.of \in Structs => f.of \in above
  PROVE  LET t == Took(s, f)
         IN  /\ \A i \in 1 .. Len(s) - 1 : FrameOK(p, t[i], Over(s, i))
             /\ FrameOK(p, t[Len(s)], above)
<1>. DEFINE t == Took(s, f)
            n == Len(s)
<1>1. /\ Len(t) = n /\ n \in Nat \ {0}
      /\ \A i \in 1 .. n : t[i].name = s[i].name
      /\ \A i \in 1 .. n - 1 : t[i] = s[i]
      /\ t[n].left = s[n].left \ {f}
  BY TookFacts
<1>. HIDE DEF t
<1>2. \A i \in 1 .. n - 1 : FrameOK(p, t[i], Over(s, i))  BY <1>1 DEF WalkOK
<1>3. n \in 1 .. n /\ Over(s, n) = {}  BY <1>1 DEF Over
<1>4. FrameOK(p, s[n], {})  BY <1>3 DEF WalkOK
<1>5. FrameOK(p, t[n], above)  BY <1>1, <1>3, <1>4 DEF FrameOK
<1>. QED  BY <1>2, <1>5 DEF t

LEMMA EnterFieldWalk ==
  ASSUME TypeOK, WalkInv, NEW f \in Field, EnterField(f)
  PROVE  WalkInv'
<1>. DEFINE n == Len(calls)
            t == Took(calls, f)
            frame == Frame(f.of, program.fields[f.of])
<1>1. /\ phase = "types" /\ calls # <<>> /\ f \in calls[n].left /\ f.of \in Structs
      /\ calls' = Append(t, frame)
      /\ calls \in Seq(Frames(Field)) /\ UNCHANGED <<program, phase, double>>
  BY DEF EnterField, LookingAt, Top, Push, TypeOK
<1>2. frame \in Frames(Field) /\ frame.name = f.of /\ frame.left = program.fields[f.of]
  BY <1>1 DEF Frame, Frames, TypeOK, Program
<1>3. /\ t \in Seq(Frames(Field)) /\ Len(t) = n /\ n \in Nat \ {0}
      /\ \A i \in 1 .. n : t[i].name = calls[i].name
  BY <1>1, TookFacts
<1>4. f.of # "double"  BY <1>1, StructsAssumption
<1>5. /\ \A i \in 1 .. n - 1 : FrameOK(program, t[i], Over(calls, i))
      /\ FrameOK(program, t[n], {f.of})
  BY <1>1, <1>4, TookWalk DEF WalkInv
<1>6. n \in 1 .. n /\ FrameOK(program, calls[n], Over(calls, n))
  BY <1>3 DEF WalkInv, WalkOK
<1>7. FrameOK(program, frame, {})
  <2>1. f \in program.fields[calls[n].name] /\ calls[n].name \in Inside(program)
    BY <1>1, <1>6 DEF FrameOK
  <2>2. f.of \in Inside(program)  BY <1>1, <2>1, InsideGrows
  <2>. QED  BY <1>2, <2>2 DEF FrameOK
<1>. HIDE DEF t, frame
<1>8. /\ Len(calls') = n + 1 /\ calls'[n + 1] = frame
      /\ \A i \in 1 .. n : calls'[i] = t[i]
  BY <1>1, <1>2, <1>3
<1>9. /\ Over(calls', n + 1) = {} /\ Over(calls', n) = {f.of}
      /\ \A i \in 1 .. n - 1 : Over(calls', i) = Over(calls, i)
  <2>1. Over(calls', n + 1) = {} /\ Over(calls', n) = {f.of}  BY <1>2, <1>3, <1>8 DEF Over
  <2>2. ASSUME NEW i \in 1 .. n - 1 PROVE Over(calls', i) = Over(calls, i)
    <3>1. i < n /\ i < n + 1 /\ i + 1 \in 1 .. n  BY <1>3
    <3>2. PICK k \in 1 .. n : k = i + 1  BY <3>1
    <3>3. calls'[k].name = calls[k].name  BY <1>3, <1>8
    <3>. QED  BY <3>1, <3>2, <3>3, <1>8 DEF Over
  <2>. QED  BY <2>1, <2>2
<1>10. ASSUME NEW i \in 1 .. n + 1 PROVE FrameOK(program, calls'[i], Over(calls', i))
  <2>1. CASE i = n + 1  BY <2>1, <1>7, <1>8, <1>9
  <2>2. CASE i = n  BY <2>2, <1>5, <1>6, <1>8, <1>9
  <2>3. CASE i \in 1 .. n - 1  BY <2>3, <1>3, <1>5, <1>8, <1>9
  <2>. QED  BY <2>1, <2>2, <2>3, <1>3
<1>11. WalkOK(program', calls')  BY <1>1, <1>8, <1>10 DEF WalkOK
<1>12. calls' # <<>> /\ calls'[1].name = calls[1].name  BY <1>3, <1>8
<1>. QED  BY <1>1, <1>11, <1>12 DEF WalkInv

LEMMA SkipFieldWalk ==
  ASSUME TypeOK, WalkInv, NEW f \in Field, SkipField(f)
  PROVE  WalkInv'
<1>. DEFINE n == Len(calls)
            t == Took(calls, f)
<1>1. /\ phase = "types" /\ calls # <<>> /\ f \in calls[n].left /\ f.of = "float" /\ calls' = t
      /\ calls \in Seq(Frames(Field)) /\ UNCHANGED <<program, phase, double>>
  BY DEF SkipField, LookingAt, Top, TypeOK
<1>2. f.of \notin Structs /\ f.of # "double"  BY <1>1, StructsAssumption
<1>3. /\ Len(t) = n /\ n \in Nat \ {0} /\ \A i \in 1 .. n : t[i].name = calls[i].name
  BY <1>1, TookFacts
<1>4. /\ \A i \in 1 .. n - 1 : FrameOK(program, t[i], Over(calls, i))
      /\ FrameOK(program, t[n], {})
  BY <1>1, <1>2, TookWalk DEF WalkInv
<1>. HIDE DEF t
<1>5. ASSUME NEW i \in 1 .. n PROVE Over(t, i) = Over(calls, i)
  <2>1. i < n => i + 1 \in 1 .. n  BY <1>3
  <2>. QED  BY <2>1, <1>3 DEF Over
<1>6. Over(t, n) = {}  BY <1>3 DEF Over
<1>7. WalkOK(program, t)
  <2>1. \A i \in 1 .. n : i = n \/ i \in 1 .. n - 1  BY <1>3
  <2>. QED  BY <2>1, <1>3, <1>4, <1>5, <1>6 DEF WalkOK
<1>8. calls' # <<>> /\ calls'[1].name = calls[1].name
  <2>1. t # <<>>  BY <1>3
  <2>. QED  BY <1>1, <1>3, <2>1
<1>. QED  BY <1>1, <1>7, <1>8 DEF WalkInv

LEMMA LeaveStructWalk ==
  ASSUME TypeOK, WalkInv, LeaveStruct
  PROVE  WalkInv'
<1>. DEFINE n == Len(calls)
            t == Rest(calls)
<1>1. /\ phase = "types" /\ calls # <<>> /\ calls[n].left = {} /\ calls' = t
      /\ calls \in Seq(Frames(Field)) /\ UNCHANGED <<program, phase, double>>
  BY DEF LeaveStruct, Top, TypeOK
<1>2. /\ t \in Seq(Frames(Field)) /\ Len(t) = n - 1 /\ n \in Nat \ {0}
      /\ \A i \in 1 .. n - 1 : t[i] = calls[i]
  BY <1>1, RestFacts
<1>3. n \in 1 .. n /\ FrameOK(program, calls[n], {}) /\ calls[n].name \in Structs
  <2>1. n \in 1 .. n /\ Over(calls, n) = {}  BY <1>2 DEF Over
  <2>2. FrameOK(program, calls[n], {})  BY <2>1 DEF WalkInv, WalkOK
  <2>. QED  BY <2>1, <2>2 DEF FrameOK, Inside
<1>4. calls[n].name \in Clean(program)
  <2>1. \A f \in program.fields[calls[n].name] :
          f.of # "double" /\ (f.of \in Structs => f.of \in Clean(program))
    BY <1>1, <1>3 DEF FrameOK
  <2>. QED  BY <1>3, <2>1, CleanJoins
<1>. HIDE DEF t
<1>5. ASSUME NEW i \in 1 .. n - 1 PROVE FrameOK(program, t[i], Over(t, i))
  <2>1. FrameOK(program, calls[i], Over(calls, i))  BY <1>2 DEF WalkInv, WalkOK
  <2>2. CASE i = n - 1
    <3>1. Over(calls, i) = {calls[n].name}  BY <2>2, <1>2 DEF Over
    <3>2. \A x : x \in Clean(program) \cup Over(calls, i) => x \in Clean(program)
      BY <3>1, <1>4
    <3>3. FrameOK(program, calls[i], Over(t, i))  BY <2>1, <3>2 DEF FrameOK
    <3>. QED  BY <1>2, <3>3
  <2>3. CASE i < n - 1
    <3>1. Over(t, i) = Over(calls, i)
      <4>1. i + 1 \in 1 .. n - 1 /\ i < Len(t) /\ i < n  BY <2>3, <1>2
      <4>. QED  BY <4>1, <1>2 DEF Over
    <3>. QED  BY <2>1, <3>1, <1>2
  <2>. QED  BY <2>2, <2>3, <1>2
<1>6. WalkOK(program, t)  BY <1>2, <1>5 DEF WalkOK
<1>7. t # <<>> => t[1].name = calls[1].name  BY <1>2
<1>8. t = <<>> => program.stageVar \in Clean(program)
  <2>1. t = <<>> => n = 1  BY <1>2
  <2>. QED  BY <2>1, <1>1, <1>4 DEF WalkInv
<1>. QED  BY <1>1, <1>6, <1>7, <1>8 DEF WalkInv

LEMMA FoundDoubleWalk ==
  ASSUME TypeOK, WalkInv, NEW f \in Field, FoundDouble(f)
  PROVE  WalkInv'
<1>. DEFINE n == Len(calls)
<1>1. /\ phase = "types" /\ calls # <<>> /\ f \in calls[n].left /\ f.of = "double"
      /\ calls' = <<>> /\ double' = TRUE
      /\ calls \in Seq(Frames(Field)) /\ UNCHANGED <<program, phase>>
  BY DEF FoundDouble, LookingAt, Top, TypeOK
<1>2. n \in 1 .. n  BY <1>1
<1>3. FrameOK(program, calls[n], Over(calls, n))  BY <1>2 DEF WalkInv, WalkOK
<1>4. calls[n].name \in Inside(program) /\ HasDouble(program, calls[n].name)
  BY <1>1, <1>3 DEF FrameOK, HasDouble
<1>5. WalkOK(program', calls')  BY <1>1 DEF WalkOK
<1>. QED  BY <1>1, <1>4, <1>5 DEF WalkInv

LEMMA CheckStageVarWalk ==
  ASSUME TypeOK, WalkInv, CheckStageVar
  PROVE  WalkInv'
<1>1. phase = "cycles" /\ calls = <<>> /\ ~double /\ UNCHANGED <<program, double>>
  BY DEF CheckStageVar, WalkInv
<1>2. CASE program.stageVar = NoVar
  <2>1. phase' = "done" /\ calls' = <<>>  BY <1>1, <1>2 DEF CheckStageVar
  <2>2. WalkOK(program', calls')  BY <2>1 DEF WalkOK
  <2>. QED  BY <1>1, <1>2, <2>1, <2>2 DEF WalkInv
<1>3. CASE program.stageVar # NoVar
  <2>. DEFINE frame == Frame(program.stageVar, program.fields[program.stageVar])
  <2>1. phase' = "types" /\ calls' = <<frame>>  BY <1>3 DEF CheckStageVar
  <2>2. frame.name = program.stageVar /\ frame.left = program.fields[program.stageVar]
    BY DEF Frame
  <2>3. program.stageVar \in Inside(program)
    BY <1>3 DEF Inside, TypeOK, Program
  <2>. HIDE DEF frame
  <2>4. FrameOK(program, frame, {})  BY <2>2, <2>3 DEF FrameOK
  <2>5. Len(calls') = 1 /\ calls'[1] = frame /\ calls' # <<>>  BY <2>1
  <2>6. Over(calls', 1) = {}  BY <2>5 DEF Over
  <2>7. WalkOK(program', calls')  BY <1>1, <2>4, <2>5, <2>6 DEF WalkOK
  <2>. QED  BY <1>1, <2>1, <2>2, <2>5, <2>7 DEF WalkInv
<1>. QED  BY <1>2, <1>3

LEMMA WalkInvHolds == Spec => []WalkInv
<1>1. Init => WalkInv
  BY DEF Init, WalkInv, WalkOK
<1>2. TypeOK /\ WalkInv /\ [Next]_vars => WalkInv'
  <2>. SUFFICES ASSUME TypeOK, WalkInv, [Next]_vars PROVE WalkInv'
    OBVIOUS
  <2>1. ASSUME UNCHANGED <<program, phase, calls, double>> PROVE WalkInv'
    BY <2>1 DEF WalkInv, WalkOK
  <2>2. CASE Search
    BY <2>1, <2>2 DEF Search, StartSearch, Leave, Descend, SkipVisited, FoundCycle
  <2>3. CASE CheckStageVar  BY <2>3, CheckStageVarWalk
  <2>4. CASE LeaveStruct  BY <2>4, LeaveStructWalk
  <2>5. CASE Return
    <3>1. /\ phase = "types" /\ phase' = "done" /\ calls = <<>>
          /\ UNCHANGED <<program, calls, double>>
      BY <2>5 DEF Return
    <3>. QED  BY <3>1 DEF WalkInv, WalkOK
  <2>6. ASSUME NEW f \in Field, EnterField(f) \/ FoundDouble(f) \/ SkipField(f) PROVE WalkInv'
    BY <2>6, EnterFieldWalk, FoundDoubleWalk, SkipFieldWalk
  <2>7. CASE UNCHANGED vars  BY <2>1, <2>7 DEF vars
  <2>. QED  BY <2>2, <2>3, <2>4, <2>5, <2>6, <2>7 DEF Next, Check, Stopped
<1>. QED  BY <1>1, <1>2, TypeCorrect, PTL DEF Spec

(* The walk over a stage variable's type finds a double exactly if the type holds one,
   directly, in another struct or in an array, however deep (typeContainsDouble): also
   where the walk gives up in the middle because a nested call has found one. *)
THEOREM DoubleReported == Spec => []DoubleFound
<1>1. TypeOK /\ WalkInv => DoubleFound
  <2>. SUFFICES ASSUME TypeOK, WalkInv, phase = "done", program.stageVar # NoVar
                PROVE  double <=> \A S \in SUBSET Structs :
                         program.stageVar \in S /\ Closed(program, S)
                           => \E s \in S : HasDouble(program, s)
    BY DEF DoubleFound, Closed, HasDouble
  <2>1. double => \A S \in SUBSET Structs :
          program.stageVar \in S /\ Closed(program, S) => \E s \in S : HasDouble(program, s)
    BY DEF WalkInv, Inside
  <2>2. ASSUME ~double
        PROVE  \E S \in SUBSET Structs :
                 program.stageVar \in S /\ Closed(program, S) /\ \A s \in S : ~HasDouble(program, s)
    <3>1. calls = <<>>  BY DEF WalkInv
    <3>2. program.stageVar \in Clean(program)  BY <2>2, <3>1 DEF WalkInv
    <3>. QED  BY <3>2 DEF Clean
  <2>. QED  BY <2>1, <2>2
<1>. QED  BY <1>1, WalkInvHolds, TypeCorrect, PTL
=============================================================================
