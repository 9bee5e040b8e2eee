------------------------- MODULE TestProgramsProofs -------------------------
(***************************************************************************)
(* What module TestPrograms says of its programs, for all ten of them, both*)
(* clients, and every failure.                                             *)
(*                                                                         *)
(* The steps a program has left to take are data, so an invariant cannot   *)
(* name its program points one by one.  Instead it says that the program   *)
(* keeps a discipline from here on, whatever fails: Fine(p, t, e) for the  *)
(* steps t in the state e.  That is a greatest fixed point: there is a set *)
(* of steps and states that has <<t, e>>, that the steps of the programs   *)
(* (After) do not leave, and in which each next step is Allowed, or, when  *)
(* none is left, the program MayEnd.  The discipline is inductive by its   *)
(* form (ScriptStep) and gives the properties (ScriptSafe); what remains is*)
(* that every program begins with it (ScriptsFine).  For that there are    *)
(* rules on pieces of programs: Leads(p, e, s, f), the steps s lead from e *)
(* to f, their composition, one rule for each kind of step, and the same   *)
(* for sets of states (LeadsInto) where a failure is passed over.  From the*)
(* rules each program follows from its first step to its last, with its    *)
(* labels proved before the steps that jump to them.                       *)
(*                                                                         *)
(* The clients have an inductive invariant each, and so has the builder.   *)
(***************************************************************************)
EXTENDS TestPrograms, SequenceTheorems, FiniteSetTheorems, TLAPS

----------------------------------------------------------------------------
\* Sequences of steps.

StepKinds == {"take", "make", "seek", "give", "call", "try", "run"}
IsStep(s) == s.do \in StepKinds /\ s.of = <<s.of[1], s.of[2]>>
IsSteps(t) == \E T : t \in Seq(T) /\ \A x \in T : IsStep(x)

\* t begins with a step of the given kind and object, and goes on with rest.
Begins(t, do, of, else, rest) ==
  /\ t # << >> /\ Tail(t) = rest
  /\ Head(t) = [do |-> do, of |-> of, else |-> else]

LEMMA NoSteps == IsSteps(<< >>)
<1> DEFINE T == {[do |-> "take", of |-> <<0, 0>>]}
<1>1. << >> \in Seq(T)
  BY EmptySeq
<1>2. \A x \in T : IsStep(x)
  BY DEF StepKinds, IsStep
<1> HIDE DEF T
<1> QED
  BY <1>1, <1>2 DEF IsSteps

LEMMA StepsCat ==
  ASSUME NEW a, NEW b, IsSteps(a), IsSteps(b)
  PROVE  IsSteps(a \o b)
<1>1. PICK A : a \in Seq(A) /\ \A x \in A : IsStep(x)
  BY DEF IsSteps
<1>2. PICK B : b \in Seq(B) /\ \A x \in B : IsStep(x)
  BY DEF IsSteps
<1>3. a \in Seq(A \cup B) /\ b \in Seq(A \cup B)
  BY <1>1, <1>2, SeqMonotonic
<1>4. a \o b \in Seq(A \cup B)
  BY <1>3, ConcatProperties
<1> QED
  BY <1>1, <1>2, <1>4 DEF IsSteps

LEMMA CatAssoc ==
  ASSUME NEW a, NEW b, NEW c, IsSteps(a), IsSteps(b), IsSteps(c)
  PROVE  (a \o b) \o c = a \o (b \o c)
<1>1. PICK A : a \in Seq(A)
  BY DEF IsSteps
<1>2. PICK B : b \in Seq(B)
  BY DEF IsSteps
<1>3. PICK C : c \in Seq(C)
  BY DEF IsSteps
<1> DEFINE S == A \cup B \cup C
<1>4. a \in Seq(S) /\ b \in Seq(S) /\ c \in Seq(S)
  BY <1>1, <1>2, <1>3, SeqMonotonic
<1> QED
  BY <1>4, ConcatAssociative

LEMMA CatNothing ==
  ASSUME NEW a, IsSteps(a)
  PROVE  a \o << >> = a /\ << >> \o a = a
<1>1. PICK A : a \in Seq(A)
  BY DEF IsSteps
<1> QED
  BY <1>1, ConcatEmptySeq

LEMMA TailSteps ==
  ASSUME NEW t, IsSteps(t), t # << >>
  PROVE  IsSteps(Tail(t)) /\ IsStep(Head(t))
<1>1. PICK T : t \in Seq(T) /\ \A x \in T : IsStep(x)
  BY DEF IsSteps
<1>2. Tail(t) \in Seq(T) /\ Head(t) \in T
  BY <1>1, HeadTailProperties
<1> QED
  BY <1>1, <1>2 DEF IsSteps

LEMMA StepFirst ==
  ASSUME NEW do \in StepKinds, NEW kind, NEW i, NEW else, NEW t, IsSteps(t)
  PROVE  /\ IsSteps(Step(do, kind, i, else))
         /\ IsSteps(Step(do, kind, i, else) \o t)
         /\ Begins(Step(do, kind, i, else) \o t, do, <<kind, i>>, else, t)
<1> DEFINE s == [do |-> do, of |-> <<kind, i>>, else |-> else]
<1>1. Step(do, kind, i, else) = <<s>>
  BY DEF Step
<1> HIDE DEF s
<1>2. PICK T : t \in Seq(T) /\ \A x \in T : IsStep(x)
  BY DEF IsSteps
<1>3. <<s>> \in Seq({s})
  OBVIOUS
<1>4. IsStep(s)
  BY DEF s, IsStep
<1>5. IsSteps(<<s>>)
  BY <1>3, <1>4 DEF IsSteps
<1>6. IsSteps(<<s>> \o t)
  BY <1>5, StepsCat
<1>7. <<s>> \in Seq(T \cup {s}) /\ t \in Seq(T \cup {s})
  BY <1>2, SeqMonotonic
<1>8. <<s>> \o t # << >> /\ Head(<<s>> \o t) = s /\ Tail(<<s>> \o t) = t
  <2> DEFINE U == T \cup {s}
  <2>1. <<s>> \in Seq(U) /\ t \in Seq(U)
    BY <1>7
  <2> HIDE DEF U
  <2>2. <<s>> \o t \in Seq(U) /\ Len(<<s>> \o t) = 1 + Len(t)
        /\ \A j \in 1 .. 1 + Len(t) : (<<s>> \o t)[j] = IF j <= 1 THEN s ELSE t[j - 1]
    BY <2>1
  <2>3. Len(t) \in Nat
    BY <2>1, LenProperties
  <2>4. <<s>> \o t # << >>
    BY <2>2, <2>3
  <2>5. (<<s>> \o t)[1] = s
    BY <2>2, <2>3
  <2>6. Tail(<<s>> \o t) \in Seq(U) /\ Len(Tail(<<s>> \o t)) = Len(t)
        /\ \A j \in 1 .. Len(t) : Tail(<<s>> \o t)[j] = t[j]
    BY <2>2, <2>3, <2>4
  <2>7. Tail(<<s>> \o t) = t
    BY <2>1, <2>6, SeqEqual
  <2> QED
    BY <2>4, <2>5, <2>7
<1> QED
  BY <1>1, <1>5, <1>6, <1>8 DEF Begins, s

----------------------------------------------------------------------------
\* What the steps of a program do to its state, as far as the properties ask
\* for it and as long as the program keeps the discipline below.

EglRecords == [ setup : BOOLEAN, display : BOOLEAN, ctx : BOOLEAN,
                flush : BOOLEAN, mods : BOOLEAN ]
Ready == {g \in EglRecords : g.setup /\ g.display /\ g.ctx}

State(n, j, f, r, p, g, l, x) ==
  [ names |-> n, junk |-> j, failed |-> f, ret |-> r, passed |-> p, egl |-> g,
    live |-> l, faults |-> x ]

\* Of the EGL helper it counts whether it is there and has been set up.
Shape(g) == IF g \in Ready THEN "ready"
            ELSE IF g \in EglRecords THEN "new" ELSE "none"

Env == State(names, junk, failed, ret, passed, Shape(egl), live, faults)

Gains(e, o) ==
  State(e.names \cup {o}, e.junk \ {o}, e.failed, e.ret, e.passed, e.egl,
        e.live \cup {o}, e.faults)
Misses(e, o) ==
  State(e.names \ {o}, e.junk \ {o}, e.failed \cup {o}, e.ret, e.passed, e.egl,
        e.live, e.faults)
Forgets(e, o) ==
  State(e.names \ {o}, e.junk \cup {o}, e.failed \cup {o}, e.ret, e.passed,
        e.egl, e.live, e.faults)
Lacks(e, o) ==
  State(e.names, e.junk, e.failed \cup {o}, e.ret, e.passed, e.egl, e.live,
        e.faults)

NamesLeft(e, o) == IF o[1] \in ClearedKinds THEN e.names \ {o} ELSE e.names
LiveLeft(e, o) ==
  IF o[1] = "display" THEN Terminated(e.live) \ {o} ELSE e.live \ {o}
InUseOf(e, o) == o[1] = "gbm" /\ \E x \in e.live : x[1] = "bo"

GivesLive(e, o) ==
  State(NamesLeft(e, o), e.junk, e.failed, e.ret, e.passed, e.egl,
        LiveLeft(e, o),
        IF InUseOf(e, o) THEN e.faults \cup {"in use"} ELSE e.faults)
GivesDead(e, o) ==
  State(NamesLeft(e, o), e.junk, e.failed, e.ret, e.passed, e.egl, e.live,
        IF o[1] \in IgnoredKinds THEN e.faults ELSE e.faults \cup {"dead"})
GivesJunk(e, o, l) ==
  State(e.names, e.junk \ {o}, e.failed, e.ret, e.passed, e.egl, l,
        e.faults \cup {"uninitialized"})
JunkLeft(e, o) == {e.live \ {x} : x \in {y \in e.live : y[1] = o[1]}} \cup {e.live}

AfterGive(e, o) ==
  (IF o \notin e.junk /\ o \in e.live THEN {GivesLive(e, o)} ELSE {})
  \cup (IF o \notin e.junk \cup e.names /\ o[1] \notin AssertedKinds \cup {"bo"}
           THEN {e} ELSE {})
  \cup (IF o \in e.names \ e.live /\ o \notin e.junk THEN {GivesDead(e, o)} ELSE {})
  \cup (IF o \in e.junk THEN {GivesJunk(e, o, l) : l \in JunkLeft(e, o)} ELSE {})

EglIs(e, g, l, x) ==
  State(e.names, e.junk, e.failed, e.ret, e.passed, g, l, x)
EglIsNew(e) == EglIs(e, "new", e.live, e.faults)
EglIsReady(e) == EglIs(e, "ready", e.live \cup {Display, Context}, e.faults)
EglFails(e, point) ==
  State(e.names, e.junk, e.failed \cup {<<point, 0>>}, e.ret, e.passed, "new",
        e.live, e.faults)
EglEnds(e) ==
  EglIs(e, "none", Terminated(e.live),
        IF Context \in e.live THEN e.faults ELSE e.faults \cup {"dead"})

BuilderRuns == {"builder_new", "gbm_bo", "fb_format", "create_fb",
                "builder_destroy"}

Freed(e) ==
  State(e.names, e.junk, e.failed, e.ret, e.passed, e.egl, e.live,
        e.faults \cup {"freed"})
Returning(e, value) ==
  State(e.names, e.junk, e.failed, value, e.passed, e.egl, e.live, e.faults)
Counted(e) ==
  State(e.names, e.junk, e.failed, e.ret, e.passed + 1, e.egl, e.live, e.faults)

AfterRun(e, kind, i) ==
  CASE kind = "egl_new" -> {EglIsNew(e)}
    [] kind = "egl_destroy" -> {EglEnds(e)}
    [] kind \in BuilderRuns -> {e}
    [] kind = "access" -> IF <<"map", i>> \in e.names THEN {e} ELSE {}
    [] kind = "access_range" -> {e}
    [] kind = "read_freed" -> {Freed(e)}
    [] kind = "return" -> {Returning(e, i)}
    [] kind \in {"case_passed", "case_failed"} -> {Counted(e)}
    [] kind = "return_any_pass" -> {Returning(e, IF e.passed = 0 THEN 1 ELSE 0)}
    [] kind = "return_all_pass" -> {Returning(e, IF e.passed = 0 THEN 0 ELSE 2)}
    [] OTHER -> {}

AfterSetup(rest, else, e) ==
  {<<rest, EglIsReady(e)>>}
  \cup {<<else, EglFails(e, point)>> : point \in SetupPoints}

\* The pairs of a rest and a state that a step not ending in an assertion may
\* lead to, and more.
After(t, e) ==
  LET s == Head(t)
      o == s.of
  IN  CASE s.do = "take" -> {<<Tail(t), Gains(e, o)>>, <<s.else, Misses(e, o)>>}
        [] s.do = "make" -> {<<Tail(t), Gains(e, o)>>}
        [] s.do = "seek" -> {<<Tail(t), Gains(e, o)>>, <<Tail(t), Forgets(e, o)>>}
        [] s.do = "give" -> {<<Tail(t), f>> : f \in AfterGive(e, o)}
        [] s.do = "call" /\ o[1] = "egl_setup" ->
             AfterSetup(Tail(t), s.else, e)
        [] s.do = "call" /\ o[1] # "egl_setup" ->
             {<<Tail(t), e>>, <<s.else, Lacks(e, o)>>}
        [] s.do = "try" -> {<<Tail(t), e>>, <<Tail(t), Lacks(e, o)>>}
        [] s.do = "run" -> {<<Tail(t), f>> : f \in AfterRun(e, o[1], o[2])}

----------------------------------------------------------------------------
\* The discipline: what a program p may do in a state e.  A misuse and an
\* assertion that fails need one of the failures of Fatal(p) before.

Doomed(p, e) == e.failed \cap Fatal(p) # {}

MisusesGive(e, o) ==
  \/ o \in e.junk
  \/ o \notin e.junk \cup e.names /\ o[1] \in AssertedKinds \cup {"bo"}
  \/ o \in e.names \ e.live /\ o[1] \notin IgnoredKinds
  \/ o \in e.live /\ InUseOf(e, o)

MisusesRun(e, kind, i) ==
  \/ kind = "egl_destroy" /\ Context \notin e.live
  \/ kind \in {"crash", "read_freed"}
  \/ kind \in {"access", "access_range"} /\ <<"map", i>> \notin e.names

Allowed(p, s, e) ==
  /\ s.do \in {"take", "seek"} => s.of \notin e.live
  /\ s.do \in {"take", "make", "seek"} /\ s.of[1] = "image" =>
       s.do = "take" /\ e.egl = "ready"
  /\ s.do = "give" /\ MisusesGive(e, s.of) => Doomed(p, e)
  /\ s.of[1] = "egl_setup" => s.do = "call" /\ e.egl = "new"
  /\ s.do = "run" /\ s.of[1] = "egl_destroy" => e.egl = "ready"
  /\ s.do = "run" /\ MisusesRun(e, s.of[1], s.of[2]) => Doomed(p, e)
  /\ s.do = "run" /\ s.of[1] = "return" => s.of[2] \in 0 .. 2
  /\ s.do = "run" /\ s.of[1] \in {"case_passed", "case_failed"} =>
       e.passed \in 0 .. 3

\* How a program may end.
MayEnd(p, e) ==
  /\ Doomed(p, e) => e.faults # {}
  /\ e.failed = {} => e.live = LeftBehind(p, e.names)
  /\ e.faults = {} /\ p \in {"mapped_texture_test", "swrast_test"} =>
       e.live \subseteq LeftBehind(p, e.names)
  /\ e.ret = 0 => e.failed \subseteq Hidden(p)
  /\ e.failed = {} => e.ret = 0

Sound(p, t, e) ==
  /\ IsSteps(t)
  /\ IF t = << >> THEN MayEnd(p, e) ELSE Allowed(p, Head(t), e)

\* A state from which every carrying out of the steps t keeps the discipline.
Closed(p, R) ==
  \A x \in R : Sound(p, x[1], x[2])
               /\ (x[1] # << >> => After(x[1], x[2]) \subseteq R)
Fine(p, t, e) == \E R : Closed(p, R) /\ <<t, e>> \in R

LEMMA FineSound ==
  ASSUME NEW p, NEW t, NEW e, Fine(p, t, e)
  PROVE  Sound(p, t, e)
BY DEF Fine, Closed

LEMMA FineStep ==
  ASSUME NEW p, NEW t, NEW e, Fine(p, t, e), t # << >>,
         NEW t2, NEW e2, <<t2, e2>> \in After(t, e)
  PROVE  Fine(p, t2, e2)
<1>1. PICK R : Closed(p, R) /\ <<t, e>> \in R
  BY DEF Fine
<1>2. After(t, e) \subseteq R
  BY <1>1 DEF Closed
<1> QED
  BY <1>1, <1>2 DEF Fine

\* The rule all others come from.
LEMMA FineRule ==
  ASSUME NEW p, NEW t, NEW e, Sound(p, t, e),
         t # << >> => \A x \in After(t, e) : Fine(p, x[1], x[2]) /\ x = <<x[1], x[2]>>
  PROVE  Fine(p, t, e)
<1>1. CASE t = << >>
  <2>1. Closed(p, {<<t, e>>})
    BY <1>1 DEF Closed
  <2> QED
    BY <2>1 DEF Fine
<1>2. CASE t # << >>
  <2> DEFINE Chosen(x) == CHOOSE R : Closed(p, R) /\ x \in R
             R == {<<t, e>>} \cup UNION {Chosen(x) : x \in After(t, e)}
  <2>1. ASSUME NEW x \in After(t, e)
        PROVE  Closed(p, Chosen(x)) /\ x \in Chosen(x)
    <3>1. PICK R1 : Closed(p, R1) /\ <<x[1], x[2]>> \in R1
      BY <1>2 DEF Fine
    <3>2. Closed(p, R1) /\ x \in R1
      BY <1>2, <3>1
    <3> QED
      BY <3>2
  <2> HIDE DEF Chosen
  <2>2. ASSUME NEW x \in R
        PROVE  Sound(p, x[1], x[2]) /\ (x[1] # << >> => After(x[1], x[2]) \subseteq R)
    <3>1. CASE x = <<t, e>>
      BY <2>1, <3>1
    <3>2. CASE x # <<t, e>>
      <4>1. PICK y \in After(t, e) : x \in Chosen(y)
        BY <3>2
      <4>2. Closed(p, Chosen(y))
        BY <2>1
      <4>3. /\ Sound(p, x[1], x[2])
            /\ x[1] # << >> => After(x[1], x[2]) \subseteq Chosen(y)
        BY <4>1, <4>2 DEF Closed
      <4> QED
        BY <4>3
    <3> QED
      BY <3>1, <3>2
  <2>3. Closed(p, R)
    BY <2>2 DEF Closed
  <2> QED
    BY <2>3 DEF Fine
<1> QED
  BY <1>1, <1>2

----------------------------------------------------------------------------
\* The invariant of a program that is not a client.

ScriptType ==
  /\ names \cap junk = {}
  /\ egl = NoEgl \/ egl \in EglRecords
  /\ live \subseteq names \cup {Display, Context}
  /\ faults \subseteq Faults
  /\ ret \in 0 .. 2 /\ passed \in 0 .. 4

ScriptInv ==
  /\ program \in Programs \ Clients
  /\ IsSteps(todo)
  /\ ScriptType
  /\ aborted \in BOOLEAN
  /\ ~aborted => Fine(program, todo, Env)
  /\ aborted \/ faults # {} => failed \cap Fatal(program) # {}

LEMMA EnvFields ==
  /\ Env.names = names /\ Env.junk = junk /\ Env.failed = failed
  /\ Env.ret = ret /\ Env.passed = passed /\ Env.egl = Shape(egl)
  /\ Env.live = live /\ Env.faults = faults
BY DEF Env, State

LEMMA ShapeIs ==
  ASSUME NEW g
  PROVE  /\ Shape(g) = "ready" <=> g \in Ready
         /\ Shape(g) = "new" => g \in EglRecords /\ g \notin Ready
         /\ Shape(NoEgl) = "none"
BY EglAssumption DEF Shape, Ready, EglRecords

\* What is known when a step is taken.
LEMMA StepKnown ==
  ASSUME ScriptInv, Running
  PROVE  /\ Fine(program, todo, Env) /\ todo # << >>
         /\ Allowed(program, Head(todo), Env)
         /\ IsStep(Head(todo)) /\ IsSteps(Tail(todo))
         /\ Object = <<Kind, Index>>
         /\ Step1 = Head(todo)
         /\ aborted = FALSE
BY FineSound, TailSteps DEF ScriptInv, Running, Sound, IsStep, Object, Kind, Index, Step1

\* A step that is not an assertion that fails.
LEMMA StepKeeps ==
  ASSUME ScriptInv, Running, program' = program, ScriptType', aborted' = FALSE,
         <<todo', Env'>> \in After(todo, Env),
         failed \subseteq failed',
         faults' = faults \/ Doomed(program, Env)
  PROVE  ScriptInv'
<1>1. Fine(program, todo', Env')
  BY StepKnown, FineStep
<1>2. IsSteps(todo')
  BY <1>1, FineSound DEF Sound
<1>3. Env.failed = failed
  BY DEF Env, State
<1>4. faults' # {} => failed' \cap Fatal(program) # {}
  BY <1>3 DEF ScriptInv, Doomed
<1>5. Fatal(program)' = Fatal(program)
  BY DEF Fatal
<1> QED
  BY <1>1, <1>2, <1>4, <1>5 DEF ScriptInv

\* An assertion that fails, or an access to nowhere.
LEMMA AbortKeeps ==
  ASSUME ScriptInv, Running, GoOn, Abort, Doomed(program, Env),
         UNCHANGED <<names, junk>>
  PROVE  ScriptInv'
<1>1. Env.failed = failed
  BY DEF Env, State
<1> QED
  BY <1>1, StepKnown DEF ScriptInv, ScriptType, GoOn, NoCase, Abort, Doomed

LEMMA NoOverflow ==
  ASSUME NEW n \in BoPlanes
  PROVE  ~Overflows(n)
<1>1. n = 1 \/ n = 2
  BY DEF BoPlanes
<1> QED
  BY <1>1 DEF Overflows, AttributeCount, AttributeRoom

LEMMA TakeObjectKeeps ==
  ASSUME ScriptInv, TakeObject
  PROVE  ScriptInv'
<1>1. /\ Running /\ Step1.do \in {"take", "make", "seek"} /\ GoOn /\ Named
  BY DEF TakeObject
<1>2. live' = live \cup {Object} /\ UNCHANGED <<egl, spilled, faults, aborted>>
  <2>1. CASE Kind = "image"
    <3>1. egl \in Ready
      BY <1>1, <2>1, StepKnown, EnvFields, ShapeIs DEF Allowed, Kind, Object
    <3>2. PICK n \in BoPlanes : bs_egl_image_create_gbm(Index, n)
      BY <2>1 DEF TakeObject
    <3>3. Object = Image(Index)
      BY <1>1, <2>1, StepKnown DEF Image
    <3> QED
      BY <3>1, <3>2, <3>3, NoOverflow DEF bs_egl_image_create_gbm, Ready
  <2>2. CASE Kind # "image"
    BY <2>2 DEF TakeObject
  <2> QED
    BY <2>1, <2>2
<1>3. Env' = Gains(Env, Object)
  BY <1>1, <1>2 DEF Env, Gains, GoOn, NoCase, State, Named
<1>4. <<todo', Env'>> \in After(todo, Env)
  BY <1>1, <1>3 DEF After, GoOn, Object, Step1
<1>5. ScriptType'
  BY <1>1, <1>2 DEF ScriptType, GoOn, NoCase, Named, ScriptInv
<1>6. aborted' = FALSE /\ failed' = failed /\ program' = program
  BY <1>1, <1>2, StepKnown DEF GoOn
<1> QED
  BY <1>1, <1>2, <1>4, <1>5, <1>6, StepKeeps

\* A call that makes no object: what is left of it is the failure.
LEMMA MissKeeps ==
  ASSUME ScriptInv, Running, Step1.do = "take", NotNamed,
         failed' = failed \cup {Object}, program' = program, NoCase,
         todo' = Step1.else,
         UNCHANGED <<egl, live, faults, aborted>>
  PROVE  ScriptInv'
<1>1. Env' = Misses(Env, Object)
  BY DEF Env, State, Misses, NoCase, NotNamed
<1>2. <<todo', Env'>> \in After(todo, Env)
  BY <1>1 DEF After, Object, Step1
<1>3. Object \notin live
  BY StepKnown DEF Allowed, Env, State, Object
<1>4. ScriptType'
  BY <1>3 DEF ScriptType, NoCase, NotNamed, ScriptInv
<1>5. aborted' = FALSE /\ failed \subseteq failed'
  BY StepKnown
<1> QED
  BY <1>2, <1>4, <1>5, StepKeeps

LEMMA SeekFailsKeeps ==
  ASSUME ScriptInv, SeekFails
  PROVE  ScriptInv'
<1>1. /\ Running /\ Step1.do = "seek" /\ NotWritten
      /\ failed' = failed \cup {Object} /\ program' = program /\ NoCase
      /\ todo' = Tail(todo)
      /\ UNCHANGED <<egl, live, faults, aborted>>
  BY DEF SeekFails, Fails, Doing, Undisturbed, eglVars
<1>2. Env' = Forgets(Env, Object)
  BY <1>1 DEF Env, State, Forgets, NoCase, NotWritten
<1>3. <<todo', Env'>> \in After(todo, Env)
  BY <1>1, <1>2 DEF After, Object, Step1
<1>4. Object \notin live
  BY <1>1, StepKnown DEF Allowed, Env, State, Object
<1>5. ScriptType'
  BY <1>1, <1>4 DEF ScriptType, NoCase, NotWritten, ScriptInv
<1>6. aborted' = FALSE /\ failed \subseteq failed'
  BY <1>1, StepKnown
<1> QED
  BY <1>1, <1>3, <1>5, <1>6, StepKeeps

LEMMA TakeFailsKeeps ==
  ASSUME ScriptInv, TakeFails \/ ImageFails \/ SeekFails
  PROVE  ScriptInv'
<1>1. CASE TakeFails
  <2>1. /\ Running /\ Step1.do = "take" /\ NotNamed
        /\ failed' = failed \cup {Object} /\ program' = program /\ NoCase
        /\ todo' = Step1.else
        /\ UNCHANGED <<egl, live, faults, aborted>>
    BY <1>1 DEF TakeFails, Fails, Doing, Undisturbed, eglVars
  <2> QED
    BY <2>1, MissKeeps
<1>2. CASE ImageFails
  <2>1. /\ Running /\ Step1.do = "take" /\ NotNamed /\ Kind = "image"
        /\ failed' = failed \cup {Object} /\ program' = program /\ NoCase
        /\ todo' = Step1.else
    BY <1>2 DEF ImageFails, Fails, Doing
  <2>2. PICK n \in BoPlanes : bs_egl_image_create_gbm_fails(n)
    BY <1>2 DEF ImageFails
  <2>3. egl \in Ready
    BY <2>1, StepKnown, EnvFields, ShapeIs DEF Allowed, Kind, Object
  <2>4. UNCHANGED <<egl, live, faults, aborted>>
    BY <2>2, <2>3, NoOverflow DEF bs_egl_image_create_gbm_fails, Ready
  <2> QED
    BY <2>1, <2>4, MissKeeps
<1>3. CASE SeekFails
  BY <1>3, SeekFailsKeeps
<1> QED
  BY <1>1, <1>2, <1>3

----------------------------------------------------------------------------
\* Giving back.

\* What all ways of giving back have in common.
LEMMA GiveKeeps ==
  ASSUME ScriptInv, Doing("give"), GoOn, Env' \in AfterGive(Env, Object),
         ScriptType', UNCHANGED aborted,
         faults' = faults \/ Doomed(program, Env)
  PROVE  ScriptInv'
<1>1. Running /\ Step1.do = "give"
  BY DEF Doing
<1>2. <<todo', Env'>> \in After(todo, Env)
  BY <1>1 DEF After, Object, Step1, GoOn
<1>3. aborted' = FALSE /\ failed' = failed /\ program' = program
  BY <1>1, StepKnown DEF GoOn
<1> QED
  BY <1>1, <1>2, <1>3, StepKeeps

LEMMA GiveMisuse ==
  ASSUME ScriptInv, Doing("give"), MisusesGive(Env, Object)
  PROVE  Doomed(program, Env)
BY StepKnown DEF Doing, Allowed, Object, Step1

LEMMA GiveLiveKeeps ==
  ASSUME ScriptInv, GiveLive
  PROVE  ScriptInv'
<1>1. /\ Doing("give") /\ Object \notin junk /\ Object \in live /\ GoOn
      /\ UNCHANGED <<junk, egl, spilled, aborted>>
      /\ names' = NamesLeft(Env, Object)
      /\ live' = LiveLeft(Env, Object)
      /\ faults' = IF InUseOf(Env, Object) THEN faults \cup {"in use"} ELSE faults
  BY EnvFields DEF GiveLive, NamesLeft, LiveLeft, InUseOf, InUse, Kind, Faulty
<1>2. Env' = GivesLive(Env, Object)
  BY <1>1, EnvFields DEF Env, GivesLive, GoOn, NoCase
<1>3. Env' \in AfterGive(Env, Object)
  BY <1>1, <1>2, EnvFields DEF AfterGive
<1>4. InUseOf(Env, Object) => Doomed(program, Env)
  BY <1>1, EnvFields, GiveMisuse DEF MisusesGive
<1>5. live' \subseteq names' \cup {Display, Context}
  BY <1>1, EnvFields DEF ScriptInv, ScriptType, NamesLeft, LiveLeft, Terminated
<1>6. ScriptType'
  BY <1>1, <1>5, EnvFields DEF ScriptInv, ScriptType, NamesLeft, GoOn, NoCase, Faults
<1> QED
  BY <1>1, <1>3, <1>4, <1>6, GiveKeeps

LEMMA GiveNothingKeeps ==
  ASSUME ScriptInv, GiveNothing
  PROVE  ScriptInv'
<1>1. /\ Doing("give") /\ Object \notin junk \cup names /\ GoOn
      /\ UNCHANGED <<names, junk>>
  BY DEF GiveNothing
<1>2. CASE Kind \in AssertedKinds \cup {"bo"}
  <2>1. Abort
    BY <1>2 DEF GiveNothing
  <2>2. Doomed(program, Env)
    BY <1>1, <1>2, EnvFields, GiveMisuse DEF MisusesGive, Kind
  <2> QED
    BY <1>1, <2>1, <2>2, AbortKeeps DEF Doing
<1>3. CASE Kind \notin AssertedKinds \cup {"bo"}
  <2>1. UNCHANGED <<egl, live, faults, aborted>>
    BY <1>3 DEF GiveNothing, eglVars
  <2>2. Env' = Env
    BY <1>1, <2>1 DEF Env, GoOn, NoCase
  <2>3. Env' \in AfterGive(Env, Object)
    BY <1>1, <1>3, <2>2, EnvFields DEF AfterGive, Kind
  <2>4. ScriptType'
    BY <1>1, <2>1 DEF ScriptInv, ScriptType, GoOn, NoCase
  <2> QED
    BY <1>1, <2>1, <2>3, <2>4, GiveKeeps
<1> QED
  BY <1>2, <1>3

LEMMA GiveDeadKeeps ==
  ASSUME ScriptInv, GiveDead
  PROVE  ScriptInv'
<1>1. /\ Doing("give") /\ Object \in names \ live /\ Object \notin junk /\ GoOn
      /\ UNCHANGED <<junk, egl, live, spilled, aborted>>
      /\ names' = NamesLeft(Env, Object)
      /\ faults' = IF Object[1] \in IgnoredKinds THEN faults
                   ELSE faults \cup {"dead"}
  BY EnvFields DEF GiveDead, NamesLeft, Kind, Faulty, eglVars
<1>2. Env' = GivesDead(Env, Object)
  BY <1>1, EnvFields DEF Env, GivesDead, GoOn, NoCase
<1>3. Env' \in AfterGive(Env, Object)
  BY <1>1, <1>2, EnvFields DEF AfterGive
<1>4. Object[1] \notin IgnoredKinds => Doomed(program, Env)
  BY <1>1, EnvFields, GiveMisuse DEF MisusesGive
<1>5. ScriptType'
  BY <1>1, EnvFields DEF ScriptInv, ScriptType, NamesLeft, GoOn, NoCase, Faults
<1> QED
  BY <1>1, <1>3, <1>4, <1>5, GiveKeeps

LEMMA GiveJunkKeeps ==
  ASSUME ScriptInv, GiveJunk
  PROVE  ScriptInv'
<1>1. /\ Doing("give") /\ Object \in junk /\ GoOn /\ Running
      /\ UNCHANGED <<names, egl, spilled>> /\ junk' = junk \ {Object}
      /\ faults' = faults \cup {"uninitialized"}
  BY DEF GiveJunk, Faulty, Doing
<1>2. Doomed(program, Env)
  BY <1>1, EnvFields, GiveMisuse DEF MisusesGive
<1>3. \/ live' \in JunkLeft(Env, Object) /\ UNCHANGED aborted
      \/ aborted' = TRUE /\ UNCHANGED live
  BY EnvFields DEF GiveJunk, JunkLeft, Kind
<1>4. live' \subseteq live
  BY <1>3, EnvFields DEF JunkLeft
<1>5. ScriptType'
  BY <1>1, <1>4 DEF ScriptInv, ScriptType, GoOn, NoCase, Faults
<1>6. CASE live' \in JunkLeft(Env, Object) /\ UNCHANGED aborted
  <2>1. Env' = GivesJunk(Env, Object, live')
    BY <1>1, EnvFields DEF Env, GivesJunk, GoOn, NoCase
  <2>2. Env' \in AfterGive(Env, Object)
    BY <1>1, <1>6, <2>1, EnvFields DEF AfterGive
  <2> QED
    BY <1>1, <1>2, <1>5, <1>6, <2>2, GiveKeeps
<1>7. CASE aborted' = TRUE
  <2>1. failed \cap Fatal(program) # {} /\ IsSteps(Tail(todo))
    BY <1>1, <1>2, EnvFields, StepKnown DEF Doomed
  <2> QED
    BY <1>1, <1>5, <1>7, <2>1 DEF ScriptInv, GoOn
<1> QED
  BY <1>3, <1>6, <1>7

----------------------------------------------------------------------------
\* Calls that leave no object.

LEMMA CallKeeps ==
  ASSUME ScriptInv, CallSucceeds \/ CallFails
  PROVE  ScriptInv'
<1>1. /\ Running /\ Step1.do \in {"call", "try"} /\ Kind # "egl_setup"
      /\ UNCHANGED <<names, junk, egl, live, faults, aborted>>
      /\ program' = program /\ NoCase
  BY DEF CallSucceeds, CallFails, GoOn, Fails, Undisturbed, eglVars
<1>2. ScriptType'
  BY <1>1 DEF ScriptInv, ScriptType, NoCase
<1>3. aborted' = FALSE
  BY <1>1, StepKnown
<1>4. CASE CallSucceeds
  <2>1. todo' = Tail(todo) /\ failed' = failed
    BY <1>4 DEF CallSucceeds, GoOn
  <2>2. Env' = Env
    BY <1>1, <2>1 DEF Env, NoCase
  <2>3. <<todo', Env'>> \in After(todo, Env)
    BY <1>1, <2>1, <2>2 DEF After, Object, Step1, Kind
  <2> QED
    BY <1>1, <1>2, <1>3, <2>1, <2>3, StepKeeps
<1>5. CASE CallFails
  <2>1. /\ todo' = IF Step1.do = "try" THEN Tail(todo) ELSE Step1.else
        /\ failed' = failed \cup {Object}
    BY <1>5 DEF CallFails, Fails
  <2>2. Env' = Lacks(Env, Object)
    BY <1>1, <2>1, EnvFields DEF Env, Lacks, NoCase
  <2>3. <<todo', Env'>> \in After(todo, Env)
    BY <1>1, <2>1, <2>2 DEF After, Object, Step1, Kind
  <2>4. failed \subseteq failed'
    BY <2>1
  <2> QED
    BY <1>1, <1>2, <1>3, <2>3, <2>4, StepKeeps
<1> QED
  BY <1>4, <1>5

LEMMA NotedType ==
  ASSUME NEW g \in EglRecords, NEW flush \in BOOLEAN, NEW mods \in BOOLEAN
  PROVE  /\ Noted(g, flush, mods) \in EglRecords
         /\ Noted(g, flush, mods).setup = g.setup
         /\ Noted(g, flush, mods).display = g.display
         /\ Noted(g, flush, mods).ctx = g.ctx
BY DEF Noted, EglRecords

LEMMA FailedSetupType ==
  ASSUME NEW g \in EglRecords, NEW point \in SetupPoints
  PROVE  /\ FailedSetup(g, point) \in EglRecords
         /\ FailedSetup(g, point).setup = g.setup
<1> DEFINE d == CASE point = "procs" -> g.display
                  [] point = "initialize" -> TRUE
                  [] OTHER -> FALSE
           c == CASE point \in LatePoints -> TRUE
                  [] point = "create_context" -> FALSE
                  [] OTHER -> g.ctx
<1>1. d \in BOOLEAN /\ c \in BOOLEAN
  BY DEF EglRecords, LatePoints
<1>2. FailedSetup(g, point) = [g EXCEPT !.display = d, !.ctx = c]
  BY DEF FailedSetup
<1> HIDE DEF d, c
<1> QED
  BY <1>1, <1>2 DEF EglRecords

LEMMA SetupKeeps ==
  ASSUME ScriptInv, Setup \/ SetupFails
  PROVE  ScriptInv'
<1>1. /\ Running /\ Step1.do = "call" /\ Kind = "egl_setup"
      /\ UNCHANGED <<names, junk>> /\ program' = program /\ NoCase
  BY DEF Setup, SetupFails, GoOn, Fails, Doing
<1>2. egl \in EglRecords
  BY <1>1, StepKnown, EnvFields, ShapeIs DEF Allowed, Kind, Object
<1>3. CASE Setup
  <2>1. /\ todo' = Tail(todo) /\ failed' = failed
        /\ live' = live \cup {Display, Context}
        /\ UNCHANGED <<spilled, faults, aborted>>
    BY <1>3 DEF Setup, GoOn, bs_egl_setup
  <2> DEFINE g == [egl EXCEPT !.setup = TRUE, !.display = TRUE, !.ctx = TRUE]
  <2>2. g \in Ready
    BY <1>2 DEF EglRecords, Ready
  <2>3. PICK flush \in BOOLEAN, mods \in BOOLEAN : egl' = Noted(g, flush, mods)
    BY <1>3 DEF Setup, bs_egl_setup
  <2> HIDE DEF g
  <2>4. egl' \in Ready
    BY <2>2, <2>3, NotedType DEF Ready
  <2>5. Env' = EglIsReady(Env)
    BY <1>1, <2>1, <2>4, ShapeIs, EnvFields DEF Env, EglIsReady, EglIs, NoCase
  <2>6. <<todo', Env'>> \in AfterSetup(Tail(todo), Step1.else, Env)
    BY <2>1, <2>5 DEF AfterSetup
  <2>7. <<todo', Env'>> \in After(todo, Env)
    BY <1>1, <2>6 DEF After, Object, Step1, Kind
  <2>8. ScriptType'
    BY <1>1, <2>1, <2>4 DEF ScriptInv, ScriptType, NoCase, Ready
  <2>9. aborted' = FALSE
    BY <1>1, <2>1, StepKnown
  <2> QED
    BY <1>1, <2>1, <2>7, <2>8, <2>9, StepKeeps
<1>4. CASE SetupFails
  <2>1. PICK point \in SetupPoints :
          Fails(<<point, 0>>, Step1.else) /\ bs_egl_setup_fails(point)
    BY <1>4 DEF SetupFails
  <2>2. /\ todo' = Step1.else /\ failed' = failed \cup {<<point, 0>>}
        /\ UNCHANGED <<live, spilled, faults, aborted>>
    BY <2>1 DEF Fails, bs_egl_setup_fails
  <2>3. egl' \in EglRecords /\ egl'.setup = FALSE
    <3>1. FailedSetup(egl, point) \in EglRecords
          /\ FailedSetup(egl, point).setup = FALSE
      BY <1>2, <2>1, FailedSetupType DEF bs_egl_setup_fails, EglRecords
    <3>2. \/ egl' = FailedSetup(egl, point)
          \/ \E flush, mods \in BOOLEAN :
               egl' = Noted(FailedSetup(egl, point), flush, mods)
      BY <2>1 DEF bs_egl_setup_fails
    <3> QED
      BY <3>1, <3>2, NotedType
  <2>4. Env' = EglFails(Env, point)
    BY <1>1, <2>2, <2>3, EnvFields DEF Env, EglFails, NoCase, Shape, Ready
  <2>5. <<todo', Env'>> \in AfterSetup(Tail(todo), Step1.else, Env)
    BY <2>2, <2>4 DEF AfterSetup, Step1
  <2>6. <<todo', Env'>> \in After(todo, Env)
    BY <1>1, <2>5 DEF After, Object, Step1, Kind
  <2>7. ScriptType'
    BY <1>1, <2>2, <2>3 DEF ScriptInv, ScriptType, NoCase
  <2>8. aborted' = FALSE /\ failed \subseteq failed'
    BY <1>1, <2>2, StepKnown
  <2> QED
    BY <1>1, <2>2, <2>6, <2>7, <2>8, StepKeeps
<1> QED
  BY <1>3, <1>4

----------------------------------------------------------------------------
\* Steps of their own.

\* What all of them have in common.
LEMMA RunKeeps ==
  ASSUME ScriptInv, Doing("run"), todo' = Tail(todo),
         program' = program, failed' = failed,
         Env' \in AfterRun(Env, Kind, Index),
         ScriptType', UNCHANGED aborted,
         faults' = faults \/ Doomed(program, Env)
  PROVE  ScriptInv'
<1>1. Running /\ Step1.do = "run"
  BY DEF Doing
<1>2. <<todo', Env'>> \in After(todo, Env)
  BY <1>1 DEF After, Object, Step1, Kind, Index
<1>3. aborted' = FALSE
  BY <1>1, StepKnown
<1> QED
  BY <1>1, <1>2, <1>3, StepKeeps

LEMMA RunMisuse ==
  ASSUME ScriptInv, Doing("run"), MisusesRun(Env, Kind, Index)
  PROVE  Doomed(program, Env)
BY StepKnown DEF Doing, Allowed, Object, Step1, Kind, Index

LEMMA RunEglKeeps ==
  ASSUME ScriptInv, RunEgl
  PROVE  ScriptInv'
<1>1. /\ Doing("run") /\ GoOn /\ UNCHANGED <<names, junk>>
      /\ todo' = Tail(todo) /\ program' = program /\ failed' = failed /\ NoCase
  BY DEF RunEgl, GoOn
<1>2. CASE Kind = "egl_new" /\ bs_egl_new
  <2>1. /\ egl' = [ setup |-> FALSE, display |-> FALSE, ctx |-> FALSE,
                    flush |-> FALSE, mods |-> FALSE ]
        /\ UNCHANGED <<live, faults, aborted>>
    BY <1>2 DEF bs_egl_new
  <2>2. egl' \in EglRecords /\ Shape(egl') = "new"
    BY <2>1 DEF Shape, Ready, EglRecords
  <2>3. Env' = EglIsNew(Env)
    BY <1>1, <2>1, <2>2, EnvFields DEF Env, EglIsNew, EglIs, NoCase
  <2>4. Env' \in AfterRun(Env, Kind, Index)
    BY <1>2, <2>3 DEF AfterRun, BuilderRuns
  <2>5. ScriptType'
    BY <1>1, <2>1, <2>2 DEF ScriptInv, ScriptType, NoCase
  <2> QED
    BY <1>1, <2>1, <2>4, <2>5, RunKeeps
<1>3. CASE Kind = "egl_destroy" /\ bs_egl_destroy
  <2>1. egl \in Ready
    BY <1>1, <1>3, StepKnown, EnvFields, ShapeIs
    DEF Doing, Allowed, Object, Step1, Kind
  <2>2. /\ egl' = NoEgl /\ UNCHANGED aborted
        /\ live' = Terminated(live)
        /\ faults' = IF Context \in live THEN faults ELSE faults \cup {"dead"}
    BY <1>3, <2>1, EglAssumption DEF bs_egl_destroy, Ready, EglRecords, Faulty
  <2>3. Env' = EglEnds(Env)
    BY <1>1, <2>2, EnvFields, ShapeIs DEF Env, EglEnds, EglIs, NoCase
  <2>4. Env' \in AfterRun(Env, Kind, Index)
    BY <1>3, <2>3 DEF AfterRun, BuilderRuns
  <2>5. ScriptType'
    BY <1>1, <2>2 DEF ScriptInv, ScriptType, NoCase, Faults, Terminated
  <2>6. Context \notin live => Doomed(program, Env)
    BY <1>1, <1>3, EnvFields, RunMisuse DEF MisusesRun
  <2> QED
    BY <1>1, <2>2, <2>4, <2>5, <2>6, RunKeeps
<1> QED
  BY <1>2, <1>3 DEF RunEgl

LEMMA RunBuilderKeeps ==
  ASSUME ScriptInv, RunBuilder
  PROVE  ScriptInv'
<1>1. /\ Doing("run") /\ UNCHANGED <<names, junk>> /\ Kind \in BuilderRuns
      /\ todo' = Tail(todo) /\ program' = program /\ failed' = failed /\ NoCase
      /\ UNCHANGED <<egl, live, faults, aborted>>
  BY DEF RunBuilder, GoOn, BuilderRuns, eglVars
<1>2. Env' = Env
  BY <1>1 DEF Env, NoCase
<1>3. Env' \in AfterRun(Env, Kind, Index)
  BY <1>1, <1>2 DEF AfterRun, BuilderRuns
<1>4. ScriptType'
  BY <1>1 DEF ScriptInv, ScriptType, NoCase
<1> QED
  BY <1>1, <1>3, <1>4, RunKeeps

LEMMA RunAccessKeeps ==
  ASSUME ScriptInv, RunAccess
  PROVE  ScriptInv'
<1>1. /\ Doing("run") /\ GoOn /\ UNCHANGED <<names, junk>>
      /\ todo' = Tail(todo) /\ program' = program /\ failed' = failed /\ NoCase
  BY DEF RunAccess, GoOn
<1>2. CASE Abort /\ MisusesRun(Env, Kind, Index)
  BY <1>1, <1>2, RunMisuse, AbortKeeps DEF Doing
<1>3. CASE /\ (Kind = "access" /\ IsMapped) \/ Kind = "access_range"
           /\ UNCHANGED <<egl, live, faults, aborted>>
  <2>1. Env' = Env
    BY <1>1, <1>3 DEF Env, NoCase
  <2>2. Env' \in AfterRun(Env, Kind, Index)
    BY <1>3, <2>1, EnvFields DEF AfterRun, BuilderRuns, IsMapped
  <2>3. ScriptType'
    BY <1>1, <1>3 DEF ScriptInv, ScriptType, NoCase
  <2> QED
    BY <1>1, <1>3, <2>2, <2>3, RunKeeps
<1>4. CASE /\ Kind = "read_freed" /\ faults' = faults \cup {"freed"}
           /\ UNCHANGED <<egl, live, spilled, aborted>>
  <2>1. Env' = Freed(Env)
    BY <1>1, <1>4, EnvFields DEF Env, Freed, NoCase
  <2>2. Env' \in AfterRun(Env, Kind, Index)
    BY <1>4, <2>1 DEF AfterRun, BuilderRuns
  <2>3. ScriptType'
    BY <1>1, <1>4 DEF ScriptInv, ScriptType, NoCase, Faults
  <2>4. Doomed(program, Env)
    BY <1>1, <1>4, RunMisuse DEF MisusesRun
  <2> QED
    BY <1>1, <1>4, <2>2, <2>3, <2>4, RunKeeps
<1>5. \/ Abort /\ MisusesRun(Env, Kind, Index)
      \/ /\ (Kind = "access" /\ IsMapped) \/ Kind = "access_range"
         /\ UNCHANGED <<egl, live, faults, aborted>>
      \/ /\ Kind = "read_freed" /\ faults' = faults \cup {"freed"}
         /\ UNCHANGED <<egl, live, spilled, aborted>>
  BY EnvFields DEF RunAccess, IsMapped, MisusesRun, Faulty, eglVars
<1> QED
  BY <1>2, <1>3, <1>4, <1>5

LEMMA RunCaseKeeps ==
  ASSUME ScriptInv, RunCase
  PROVE  ScriptInv'
<1>1. /\ Doing("run") /\ UNCHANGED <<names, junk>> /\ Running
      /\ todo' = Tail(todo) /\ program' = program /\ failed' = failed
      /\ UNCHANGED <<egl, live, faults, aborted>>
  BY DEF RunCase, Doing, Undisturbed, eglVars
<1>2. /\ Kind = "return" => Index \in 0 .. 2
      /\ Kind \in {"case_passed", "case_failed"} => passed \in 0 .. 3
  BY <1>1, StepKnown, EnvFields
  DEF Doing, Allowed, Object, Step1, Kind, Index
<1>3. /\ ret' \in 0 .. 2 /\ passed' \in 0 .. 4
      /\ Env' \in AfterRun(Env, Kind, Index)
  <2>1. CASE Kind = "return" /\ ret' = Index /\ passed' = passed
    <3>1. Env' = Returning(Env, Index)
      BY <1>1, <2>1, EnvFields DEF Env, Returning
    <3> QED
      BY <1>2, <2>1, <3>1 DEF AfterRun, BuilderRuns, ScriptInv, ScriptType
  <2>2. CASE /\ Kind \in {"case_passed", "case_failed"}
             /\ passed' = passed + 1 /\ ret' = ret
    <3>1. Env' = Counted(Env)
      BY <1>1, <2>2, EnvFields DEF Env, Counted
    <3> QED
      BY <1>2, <2>2, <3>1 DEF AfterRun, BuilderRuns, ScriptInv, ScriptType
  <2>3. CASE /\ Kind = "return_any_pass" /\ passed' = passed
             /\ ret' = IF passed = 0 THEN 1 ELSE 0
    <3>1. Env' = Returning(Env, IF passed = 0 THEN 1 ELSE 0)
      BY <1>1, <2>3, EnvFields DEF Env, Returning
    <3> QED
      BY <2>3, <3>1, EnvFields DEF AfterRun, BuilderRuns, ScriptInv, ScriptType
  <2>4. CASE /\ Kind = "return_all_pass" /\ passed' = passed
             /\ ret' = IF passed = 0 THEN 0 ELSE 2
    <3>1. Env' = Returning(Env, IF passed = 0 THEN 0 ELSE 2)
      BY <1>1, <2>4, EnvFields DEF Env, Returning
    <3> QED
      BY <2>4, <3>1, EnvFields DEF AfterRun, BuilderRuns, ScriptInv, ScriptType
  <2> QED
    BY <2>1, <2>2, <2>3, <2>4 DEF RunCase
<1>4. ScriptType'
  BY <1>1, <1>3 DEF ScriptInv, ScriptType
<1> QED
  BY <1>1, <1>3, <1>4, RunKeeps

----------------------------------------------------------------------------
\* Whatever a program does, it keeps the discipline.
LEMMA ScriptStep == ScriptInv /\ [Next]_vars => ScriptInv'
<1> SUFFICES ASSUME ScriptInv, [Next]_vars PROVE ScriptInv'
  OBVIOUS
<1>1. CASE UNCHANGED vars
  BY <1>1 DEF vars, scriptVars, eglVars, ScriptInv, ScriptType, Env, State
<1>2. ~EglClient /\ ~FbClient
  BY DEF ScriptInv, EglClient, FbClient, Clients
<1> QED
  BY <1>1, <1>2, TakeObjectKeeps, TakeFailsKeeps, GiveLiveKeeps,
     GiveNothingKeeps, GiveDeadKeeps, GiveJunkKeeps, CallKeeps, SetupKeeps,
     RunEglKeeps, RunBuilderKeeps, RunAccessKeeps, RunCaseKeeps
  DEF Next

\* It says the four invariants of a program but for what is said of "spilled".
LEMMA ScriptSafe ==
  ASSUME ScriptInv
  PROVE  /\ \A j \in DOMAIN todo : todo[j].do \in StepKinds
         /\ FaultsAreKnown /\ StatusHonest
         /\ Ended /\ failed = {} => live = LeftBehind(program, names)
         /\ Ended /\ faults = {} /\ ~aborted
            /\ program \in {"mapped_texture_test", "swrast_test"}
            => live \subseteq LeftBehind(program, names)
<1>1. \A j \in DOMAIN todo : todo[j].do \in StepKinds
  <2>1. PICK T : todo \in Seq(T) /\ \A x \in T : IsStep(x)
    BY DEF ScriptInv, IsSteps
  <2> QED
    BY <2>1, ElementOfSeq, LenProperties DEF IsStep
<1>2. ASSUME ~aborted, todo = << >>
      PROVE  MayEnd(program, Env)
  BY <1>2, FineSound DEF ScriptInv, Sound
<1>3. FaultsAreKnown
  BY <1>2, EnvFields DEF ScriptInv, FaultsAreKnown, Ended, MayEnd, Doomed
<1>4. StatusHonest
  BY <1>2, EnvFields DEF StatusHonest, Ended, MayEnd
<1>5. Ended /\ failed = {} => live = LeftBehind(program, names)
  BY <1>2, EnvFields DEF ScriptInv, Ended, MayEnd
<1>6. Ended /\ faults = {} /\ ~aborted
      /\ program \in {"mapped_texture_test", "swrast_test"}
      => live \subseteq LeftBehind(program, names)
  BY <1>2, EnvFields DEF Ended, MayEnd
<1> QED
  BY <1>1, <1>3, <1>4, <1>5, <1>6

----------------------------------------------------------------------------
\* Rules about pieces of programs: the steps s lead a program p from state e
\* to state f when all that can happen on the way, and after a failure, keeps
\* the discipline whatever comes after s keeps it from f.
Leads(p, e, s, f) ==
  IsSteps(s) /\ \A t : Fine(p, t, f) => Fine(p, s \o t, e)

LEMMA FineSteps ==
  ASSUME NEW p, NEW t, NEW e, Fine(p, t, e)
  PROVE  IsSteps(t)
BY FineSound DEF Sound

\* Pieces one after the other.
LEMMA Compose ==
  ASSUME NEW p, NEW e, NEW f, NEW h, NEW a, NEW b, Leads(p, e, a, f), Leads(p, f, b, h)
  PROVE  Leads(p, e, a \o b, h)
<1>1. IsSteps(a) /\ IsSteps(b) /\ IsSteps(a \o b)
  BY StepsCat DEF Leads
<1>2. ASSUME NEW t, Fine(p, t, h) PROVE Fine(p, (a \o b) \o t, e)
  <2>1. IsSteps(t)
    BY <1>2, FineSteps
  <2>2. Fine(p, a \o (b \o t), e)
    BY <1>2 DEF Leads
  <2>3. (a \o b) \o t = a \o (b \o t)
    BY <1>1, <2>1, CatAssoc
  <2> QED
    BY <2>2, <2>3
<1> QED
  BY <1>1, <1>2 DEF Leads

LEMMA LeadsFine ==
  ASSUME NEW p, NEW e, NEW f, NEW s, Leads(p, e, s, f), NEW t, Fine(p, t, f)
  PROVE  Fine(p, s \o t, e)
BY DEF Leads

LEMMA LeadsEnd ==
  ASSUME NEW p, NEW e, NEW f, NEW s, Leads(p, e, s, f), MayEnd(p, f)
  PROVE  Fine(p, s, e)
<1>1. Fine(p, << >>, f)
  BY FineRule, NoSteps DEF Sound
<1>2. s \o << >> = s
  BY CatNothing DEF Leads
<1> QED
  BY <1>1, <1>2 DEF Leads

LEMMA FineEnd ==
  ASSUME NEW p, NEW e, MayEnd(p, e)
  PROVE  Fine(p, << >>, e)
BY FineRule, NoSteps DEF Sound

\* One step before the steps t.
LEMMA FirstStep ==
  ASSUME NEW p, NEW e, NEW do \in StepKinds, NEW kind, NEW i, NEW else, NEW t,
         IsSteps(t),
         Allowed(p, [do |-> do, of |-> <<kind, i>>, else |-> else], e),
         NEW A, A = After(Step(do, kind, i, else) \o t, e),
         \A x \in A : Fine(p, x[1], x[2]) /\ x = <<x[1], x[2]>>
  PROVE  Fine(p, Step(do, kind, i, else) \o t, e)
<1> DEFINE s == Step(do, kind, i, else) \o t
<1>1. IsSteps(s) /\ Begins(s, do, <<kind, i>>, else, t)
  BY StepFirst
<1> HIDE DEF s
<1>2. Sound(p, s, e)
  BY <1>1 DEF Begins, Sound
<1>3. \A x \in After(s, e) : Fine(p, x[1], x[2]) /\ x = <<x[1], x[2]>>
  BY DEF s
<1>4. Fine(p, s, e)
  BY <1>2, <1>3, FineRule
<1> QED
  BY <1>4 DEF s

\* What comes after a first step, kind by kind.
LEMMA AfterFirst ==
  ASSUME NEW do \in StepKinds, NEW kind, NEW i, NEW else, NEW t, NEW e, IsSteps(t)
  PROVE  LET A == After(Step(do, kind, i, else) \o t, e)
             o == <<kind, i>>
         IN  /\ do = "take" => A = {<<t, Gains(e, o)>>, <<else, Misses(e, o)>>}
             /\ do = "make" => A = {<<t, Gains(e, o)>>}
             /\ do = "seek" => A = {<<t, Gains(e, o)>>, <<t, Forgets(e, o)>>}
             /\ do = "give" => A = {<<t, f>> : f \in AfterGive(e, o)}
             /\ do = "call" /\ kind # "egl_setup" =>
                  A = {<<t, e>>, <<else, Lacks(e, o)>>}
             /\ do = "try" => A = {<<t, e>>, <<t, Lacks(e, o)>>}
             /\ do = "run" => A = {<<t, f>> : f \in AfterRun(e, kind, i)}
<1> DEFINE s == Step(do, kind, i, else) \o t
<1>1. Begins(s, do, <<kind, i>>, else, t)
  BY StepFirst
<1> HIDE DEF s
<1> DEFINE o == <<kind, i>>
<1>2. /\ Head(s).do = do /\ Head(s).of = o /\ Head(s).else = else
      /\ Tail(s) = t /\ o[1] = kind /\ o[2] = i
  BY <1>1 DEF Begins
<1> HIDE DEF o
<1>3. /\ do = "take" => After(s, e) = {<<t, Gains(e, o)>>, <<else, Misses(e, o)>>}
      /\ do = "make" => After(s, e) = {<<t, Gains(e, o)>>}
      /\ do = "seek" => After(s, e) = {<<t, Gains(e, o)>>, <<t, Forgets(e, o)>>}
  BY <1>2 DEF After
<1>4. /\ do = "give" => After(s, e) = {<<t, f>> : f \in AfterGive(e, o)}
      /\ do = "try" => After(s, e) = {<<t, e>>, <<t, Lacks(e, o)>>}
      /\ do = "run" => After(s, e) = {<<t, f>> : f \in AfterRun(e, kind, i)}
  BY <1>2 DEF After
<1>5. do = "call" /\ kind # "egl_setup" =>
         After(s, e) = {<<t, e>>, <<else, Lacks(e, o)>>}
  BY <1>2 DEF After
<1> QED
  BY <1>3, <1>4, <1>5 DEF s, o

LEMMA AfterSetupFirst ==
  ASSUME NEW kind, kind = "egl_setup", NEW i, NEW else, NEW t, NEW e, IsSteps(t)
  PROVE  After(Step("call", kind, i, else) \o t, e)
           = AfterSetup(t, else, e)
<1> DEFINE s == Step("call", kind, i, else) \o t
           o == <<kind, i>>
<1>1. Begins(s, "call", <<kind, i>>, else, t)
  BY StepFirst DEF StepKinds
<1> HIDE DEF s
<1>2. /\ Head(s).do = "call" /\ Head(s).of = o /\ Head(s).else = else
      /\ Tail(s) = t /\ o[1] = "egl_setup"
  BY <1>1 DEF Begins
<1> HIDE DEF o
<1>3. After(s, e) = AfterSetup(t, else, e)
  BY <1>2 DEF After
<1> QED
  BY <1>3 DEF s

\* The steps, kind by kind: one that may fail needs that what is done then is
\* fine.
LEMMA LeadsTake ==
  ASSUME NEW p, NEW e, NEW kind, NEW i, NEW else,
         <<kind, i>> \notin e.live, kind = "image" => e.egl = "ready",
         kind # "egl_setup",
         Fine(p, else, Misses(e, <<kind, i>>))
  PROVE  Leads(p, e, Take(kind, i, else), Gains(e, <<kind, i>>))
<1> DEFINE s == Step("take", kind, i, else)
           o == <<kind, i>>
<1>1. IsSteps(s)
  BY StepFirst, NoSteps DEF StepKinds
<1>2. Allowed(p, [do |-> "take", of |-> o, else |-> else], e)
  BY DEF Allowed
<1>3. ASSUME NEW t, Fine(p, t, Gains(e, o)) PROVE Fine(p, s \o t, e)
  <2>1. IsSteps(t)
    BY <1>3, FineSteps
  <2>2. After(s \o t, e) = {<<t, Gains(e, o)>>, <<else, Misses(e, o)>>}
    BY <2>1, AfterFirst DEF StepKinds
  <2> QED
    BY <1>2, <1>3, <2>1, <2>2, FirstStep DEF StepKinds
<1> QED
  BY <1>1, <1>3 DEF Leads, Take

LEMMA LeadsMake ==
  ASSUME NEW p, NEW e, NEW kind, NEW i, kind \notin {"image", "egl_setup"}
  PROVE  Leads(p, e, Make(kind, i), Gains(e, <<kind, i>>))
<1> DEFINE s == Step("make", kind, i, << >>)
           o == <<kind, i>>
<1>1. IsSteps(s)
  BY StepFirst, NoSteps DEF StepKinds
<1>2. Allowed(p, [do |-> "make", of |-> o, else |-> << >>], e)
  BY DEF Allowed
<1>3. ASSUME NEW t, Fine(p, t, Gains(e, o)) PROVE Fine(p, s \o t, e)
  <2>1. IsSteps(t)
    BY <1>3, FineSteps
  <2>2. After(s \o t, e) = {<<t, Gains(e, o)>>}
    BY <2>1, AfterFirst DEF StepKinds
  <2> QED
    BY SMTT(30), <1>2, <1>3, <2>1, <2>2, FirstStep DEF StepKinds
<1> QED
  BY <1>1, <1>3 DEF Leads, Make

LEMMA LeadsGive ==
  ASSUME NEW p, NEW e, NEW kind, NEW i, NEW f, kind # "egl_setup",
         AfterGive(e, <<kind, i>>) = {f},
         MisusesGive(e, <<kind, i>>) => Doomed(p, e)
  PROVE  Leads(p, e, Give(kind, i), f)
<1> DEFINE s == Step("give", kind, i, << >>)
           o == <<kind, i>>
<1>1. IsSteps(s)
  BY StepFirst, NoSteps DEF StepKinds
<1>2. Allowed(p, [do |-> "give", of |-> o, else |-> << >>], e)
  BY DEF Allowed
<1>3. ASSUME NEW t, Fine(p, t, f) PROVE Fine(p, s \o t, e)
  <2>1. IsSteps(t)
    BY <1>3, FineSteps
  <2>2. After(s \o t, e) = {<<t, f>>}
    BY <2>1, AfterFirst DEF StepKinds
  <2> QED
    BY <1>2, <1>3, <2>1, <2>2, FirstStep DEF StepKinds
<1> QED
  BY <1>1, <1>3 DEF Leads, Give

LEMMA LeadsCall ==
  ASSUME NEW p, NEW e, NEW kind, NEW i, NEW else, kind # "egl_setup",
         Fine(p, else, Lacks(e, <<kind, i>>))
  PROVE  Leads(p, e, Call(kind, i, else), e)
<1> DEFINE s == Step("call", kind, i, else)
           o == <<kind, i>>
<1>1. IsSteps(s)
  BY StepFirst, NoSteps DEF StepKinds
<1>2. Allowed(p, [do |-> "call", of |-> o, else |-> else], e)
  BY DEF Allowed
<1>3. ASSUME NEW t, Fine(p, t, e) PROVE Fine(p, s \o t, e)
  <2>1. IsSteps(t)
    BY <1>3, FineSteps
  <2>2. After(s \o t, e) = {<<t, e>>, <<else, Lacks(e, o)>>}
    BY <2>1, AfterFirst DEF StepKinds
  <2> QED
    BY <1>2, <1>3, <2>1, <2>2, FirstStep DEF StepKinds
<1> QED
  BY <1>1, <1>3 DEF Leads, Call

LEMMA LeadsSetup ==
  ASSUME NEW p, NEW e, NEW kind, kind = "egl_setup", NEW i, NEW else,
         e.egl = "new",
         \A point \in SetupPoints : Fine(p, else, EglFails(e, point))
  PROVE  Leads(p, e, Call(kind, i, else), EglIsReady(e))
<1> DEFINE s == Step("call", kind, i, else)
           o == <<kind, i>>
<1>1. IsSteps(s)
  BY StepFirst, NoSteps DEF StepKinds
<1>2. Allowed(p, [do |-> "call", of |-> o, else |-> else], e)
  BY DEF Allowed
<1>3. ASSUME NEW t, Fine(p, t, EglIsReady(e)) PROVE Fine(p, s \o t, e)
  <2>1. IsSteps(t)
    BY <1>3, FineSteps
  <2>2. After(s \o t, e) = AfterSetup(t, else, e)
    BY <2>1, AfterSetupFirst
  <2>3. \A x \in After(s \o t, e) : Fine(p, x[1], x[2]) /\ x = <<x[1], x[2]>>
    BY <1>3, <2>2 DEF AfterSetup
  <2> QED
    BY <1>2, <2>1, <2>3, FirstStep DEF StepKinds
<1> QED
  BY <1>1, <1>3 DEF Leads, Call

LEMMA LeadsRun ==
  ASSUME NEW p, NEW e, NEW kind, NEW i, NEW f,
         Allowed(p, [do |-> "run", of |-> <<kind, i>>, else |-> << >>], e),
         AfterRun(e, kind, i) = {f}
  PROVE  Leads(p, e, Run(kind, i), f)
<1> DEFINE s == Step("run", kind, i, << >>)
           o == <<kind, i>>
<1>1. IsSteps(s)
  BY StepFirst, NoSteps DEF StepKinds
<1>3. ASSUME NEW t, Fine(p, t, f) PROVE Fine(p, s \o t, e)
  <2>1. IsSteps(t)
    BY <1>3, FineSteps
  <2>2. After(s \o t, e) = {<<t, f>>}
    BY <2>1, AfterFirst DEF StepKinds
  <2> QED
    BY <1>3, <2>1, <2>2, FirstStep DEF StepKinds
<1> QED
  BY <1>1, <1>3 DEF Leads, Run

\* Nothing comes after a failed assertion.
LEMMA FineCrash ==
  ASSUME NEW p, NEW e, NEW t, IsSteps(t), Doomed(p, e)
  PROVE  Fine(p, Crash \o t, e) /\ Fine(p, Crash, e)
<1> DEFINE s == Step("run", "crash", 0, << >>)
           o == <<"crash", 0>>
<1>1. Allowed(p, [do |-> "run", of |-> o, else |-> << >>], e)
  BY DEF Allowed
<1>2. AfterRun(e, "crash", 0) = {}
  BY DEF AfterRun, BuilderRuns
<1>3. ASSUME NEW r, IsSteps(r) PROVE Fine(p, s \o r, e)
  <2>1. After(s \o r, e) = {}
    BY <1>2, <1>3, AfterFirst DEF StepKinds
  <2> QED
    BY <1>1, <1>3, <2>1, FirstStep DEF StepKinds
<1>4. s \o << >> = s
  BY StepFirst, NoSteps, CatNothing DEF StepKinds
<1> QED
  BY <1>3, <1>4, NoSteps DEF Crash, Run

----------------------------------------------------------------------------
\* Programs as long as nothing has failed, with main's return value still 1.

Calm(n, g, l) == State(n, {}, {}, 1, 0, g, l, {})

\* The programs that give nothing back after a failure.
Plain(p) == p \notin {"mapped_texture_test", "swrast_test"}

LEMMA Quit ==
  ASSUME NEW p, Plain(p), NEW o, o \notin Fatal(p), NEW n, NEW j, NEW c, NEW g,
         NEW l
  PROVE  Fine(p, Return1, State(n, j, {o}, 1, c, g, l, {}))
<1>1. MayEnd(p, State(n, j, {o}, 1, c, g, l, {}))
  BY DEF MayEnd, Doomed, State, Plain
<1> QED
  BY <1>1, FineEnd DEF Return1

LEMMA CalmTake ==
  ASSUME NEW p, Plain(p), NEW kind, NEW i, NEW n, NEW g, NEW l,
         <<kind, i>> \notin l, <<kind, i>> \notin Fatal(p),
         kind = "image" => g = "ready", kind # "egl_setup"
  PROVE  Leads(p, Calm(n, g, l), Take(kind, i, Return1),
               Calm(n \cup {<<kind, i>>}, g, l \cup {<<kind, i>>}))
<1> DEFINE o == <<kind, i>>
           e == Calm(n, g, l)
<1>1. /\ e.live = l /\ e.egl = g
      /\ Gains(e, o) = Calm(n \cup {o}, g, l \cup {o})
      /\ Misses(e, o) = State(n \ {o}, {}, {o}, 1, 0, g, l, {})
  BY DEF Calm, State, Gains, Misses
<1>2. Fine(p, Return1, Misses(e, o))
  BY <1>1, Quit
<1> QED
  BY <1>1, <1>2, LeadsTake

LEMMA CalmTakeCrash ==
  ASSUME NEW p, NEW kind, NEW i, NEW n, NEW g, NEW l,
         <<kind, i>> \notin l, <<kind, i>> \in Fatal(p),
         kind \notin {"image", "egl_setup"}
  PROVE  Leads(p, Calm(n, g, l), Take(kind, i, Crash),
               Calm(n \cup {<<kind, i>>}, g, l \cup {<<kind, i>>}))
<1> DEFINE o == <<kind, i>>
           e == Calm(n, g, l)
<1>1. /\ e.live = l /\ e.egl = g
      /\ Gains(e, o) = Calm(n \cup {o}, g, l \cup {o})
      /\ Misses(e, o) = State(n \ {o}, {}, {o}, 1, 0, g, l, {})
  BY DEF Calm, State, Gains, Misses
<1>2. Fine(p, Crash, Misses(e, o))
  BY <1>1, FineCrash, NoSteps DEF Doomed, State
<1> QED
  BY <1>1, <1>2, LeadsTake

LEMMA CalmMake ==
  ASSUME NEW p, NEW kind, NEW i, NEW n, NEW g, NEW l,
         kind \notin {"image", "egl_setup"}
  PROVE  Leads(p, Calm(n, g, l), Make(kind, i),
               Calm(n \cup {<<kind, i>>}, g, l \cup {<<kind, i>>}))
<1> DEFINE o == <<kind, i>>
           e == Calm(n, g, l)
<1>1. Gains(e, o) = Calm(n \cup {o}, g, l \cup {o})
  BY DEF Calm, State, Gains
<1> QED
  BY <1>1, LeadsMake

LEMMA CalmCall ==
  ASSUME NEW p, Plain(p), NEW kind, NEW i, NEW n, NEW g, NEW l,
         <<kind, i>> \notin Fatal(p), kind # "egl_setup"
  PROVE  Leads(p, Calm(n, g, l), Call(kind, i, Return1), Calm(n, g, l))
<1> DEFINE o == <<kind, i>>
           e == Calm(n, g, l)
<1>1. Lacks(e, o) = State(n, {}, {o}, 1, 0, g, l, {})
  BY DEF Calm, State, Lacks
<1>2. Fine(p, Return1, Lacks(e, o))
  BY <1>1, Quit
<1> QED
  BY <1>2, LeadsCall

\* A variable that is cleared, and one that is not.
LEMMA CalmGive ==
  ASSUME NEW p, NEW kind, NEW i, NEW n, NEW g, NEW l,
         <<kind, i>> \in l, <<kind, i>> \in n,
         kind \notin {"display", "egl_setup"},
         kind = "gbm" => \A x \in l : x[1] # "bo"
  PROVE  /\ kind \in ClearedKinds =>
              Leads(p, Calm(n, g, l), Give(kind, i),
                    Calm(n \ {<<kind, i>>}, g, l \ {<<kind, i>>}))
         /\ kind \notin ClearedKinds =>
              Leads(p, Calm(n, g, l), Give(kind, i),
                    Calm(n, g, l \ {<<kind, i>>}))
<1> DEFINE o == <<kind, i>>
           e == Calm(n, g, l)
           f == Calm(IF kind \in ClearedKinds THEN n \ {o} ELSE n, g, l \ {o})
<1>1. /\ e.live = l /\ e.egl = g /\ e.names = n /\ e.junk = {}
      /\ e.faults = {} /\ e.failed = {} /\ e.ret = 1 /\ e.passed = 0
  BY DEF Calm, State
<1>2. ~InUseOf(e, o)
  BY <1>1 DEF InUseOf
<1>3. GivesLive(e, o) = f
  BY <1>1, <1>2 DEF GivesLive, NamesLeft, LiveLeft, Calm
<1>4. AfterGive(e, o) = {f}
  BY <1>1, <1>3 DEF AfterGive
<1>5. ~MisusesGive(e, o)
  BY <1>1, <1>2 DEF MisusesGive
<1>6. Leads(p, e, Give(kind, i), f)
  BY <1>4, <1>5, LeadsGive
<1> QED
  BY <1>6

LEMMA CalmReturn ==
  ASSUME NEW p, NEW n, NEW g, NEW l, NEW value \in 0 .. 2
  PROVE  Leads(p, Calm(n, g, l), Return(value), State(n, {}, {}, value, 0, g, l, {}))
<1> DEFINE e == Calm(n, g, l)
           o == <<"return", value>>
<1>1. AfterRun(e, "return", value) = {State(n, {}, {}, value, 0, g, l, {})}
  BY DEF AfterRun, BuilderRuns, Returning, Calm, State
<1>2. Allowed(p, [do |-> "run", of |-> o, else |-> << >>], e)
  BY DEF Allowed, MisusesRun
<1>3. Leads(p, e, Run("return", value), State(n, {}, {}, value, 0, g, l, {}))
  BY <1>1, <1>2, LeadsRun
<1> QED
  BY <1>3 DEF Return

----------------------------------------------------------------------------
\* The same for a state given by its parts.

LEMMA GoTake ==
  ASSUME NEW p, NEW kind, NEW i, NEW else,
         NEW n, NEW j, NEW f, NEW r, NEW c, NEW g, NEW l, NEW x,
         <<kind, i>> \notin l, kind = "image" => g = "ready", kind # "egl_setup",
         Fine(p, else, State(n \ {<<kind, i>>}, j \ {<<kind, i>>},
                             f \cup {<<kind, i>>}, r, c, g, l, x))
  PROVE  Leads(p, State(n, j, f, r, c, g, l, x), Take(kind, i, else),
               State(n \cup {<<kind, i>>}, j \ {<<kind, i>>}, f, r, c, g,
                     l \cup {<<kind, i>>}, x))
<1> DEFINE o == <<kind, i>>
           e == State(n, j, f, r, c, g, l, x)
<1>1. /\ e.live = l /\ e.egl = g
      /\ Gains(e, o) = State(n \cup {o}, j \ {o}, f, r, c, g, l \cup {o}, x)
      /\ Misses(e, o) = State(n \ {o}, j \ {o}, f \cup {o}, r, c, g, l, x)
  BY DEF State, Gains, Misses
<1>2. Fine(p, else, Misses(e, o))
  BY <1>1
<1> QED
  BY <1>1, <1>2, LeadsTake

LEMMA GoMake ==
  ASSUME NEW p, NEW kind, NEW i,
         NEW n, NEW j, NEW f, NEW r, NEW c, NEW g, NEW l, NEW x,
         kind \notin {"image", "egl_setup"}
  PROVE  Leads(p, State(n, j, f, r, c, g, l, x), Make(kind, i),
               State(n \cup {<<kind, i>>}, j \ {<<kind, i>>}, f, r, c, g,
                     l \cup {<<kind, i>>}, x))
<1> DEFINE o == <<kind, i>>
           e == State(n, j, f, r, c, g, l, x)
<1>1. Gains(e, o) = State(n \cup {o}, j \ {o}, f, r, c, g, l \cup {o}, x)
  BY DEF State, Gains
<1> QED
  BY <1>1, LeadsMake

LEMMA GoCall ==
  ASSUME NEW p, NEW kind, NEW i, NEW else,
         NEW n, NEW j, NEW f, NEW r, NEW c, NEW g, NEW l, NEW x,
         kind # "egl_setup",
         Fine(p, else, State(n, j, f \cup {<<kind, i>>}, r, c, g, l, x))
  PROVE  Leads(p, State(n, j, f, r, c, g, l, x), Call(kind, i, else),
               State(n, j, f, r, c, g, l, x))
<1> DEFINE o == <<kind, i>>
           e == State(n, j, f, r, c, g, l, x)
<1>1. Lacks(e, o) = State(n, j, f \cup {o}, r, c, g, l, x)
  BY DEF State, Lacks
<1> QED
  BY <1>1, LeadsCall

LEMMA GoSetup ==
  ASSUME NEW p, NEW kind, kind = "egl_setup", NEW i, NEW else,
         NEW n, NEW j, NEW f, NEW r, NEW c, NEW l, NEW x,
         \A point \in SetupPoints :
           Fine(p, else, State(n, j, f \cup {<<point, 0>>}, r, c, "new", l, x))
  PROVE  Leads(p, State(n, j, f, r, c, "new", l, x), Call(kind, i, else),
               State(n, j, f, r, c, "ready", l \cup {Display, Context}, x))
<1> DEFINE e == State(n, j, f, r, c, "new", l, x)
<1>1. /\ e.egl = "new"
      /\ \A point \in SetupPoints :
           EglFails(e, point)
             = State(n, j, f \cup {<<point, 0>>}, r, c, "new", l, x)
      /\ EglIsReady(e)
           = State(n, j, f, r, c, "ready", l \cup {Display, Context}, x)
  BY DEF State, EglFails, EglIsReady, EglIs
<1>2. \A point \in SetupPoints : Fine(p, else, EglFails(e, point))
  BY <1>1
<1>3. Leads(p, e, Call(kind, i, else), EglIsReady(e))
  BY <1>1, <1>2, LeadsSetup
<1> QED
  BY <1>1, <1>3

\* A live object is given back.
LEMMA GoGive ==
  ASSUME NEW p, NEW kind, NEW i,
         NEW n, NEW j, NEW f, NEW r, NEW c, NEW g, NEW l, NEW x,
         <<kind, i>> \in l, <<kind, i>> \in n, <<kind, i>> \notin j,
         kind # "egl_setup", kind = "gbm" => \A y \in l : y[1] # "bo"
  PROVE  Leads(p, State(n, j, f, r, c, g, l, x), Give(kind, i),
               State(IF kind \in ClearedKinds THEN n \ {<<kind, i>>} ELSE n,
                     j, f, r, c, g,
                     IF kind = "display" THEN Terminated(l) \ {<<kind, i>>}
                     ELSE l \ {<<kind, i>>}, x))
<1> DEFINE o == <<kind, i>>
           e == State(n, j, f, r, c, g, l, x)
           h == State(IF kind \in ClearedKinds THEN n \ {o} ELSE n,
                      j, f, r, c, g,
                      IF kind = "display" THEN Terminated(l) \ {o}
                      ELSE l \ {o}, x)
<1>1. /\ e.live = l /\ e.egl = g /\ e.names = n /\ e.junk = j
      /\ e.faults = x /\ e.failed = f /\ e.ret = r /\ e.passed = c
  BY DEF State
<1>2. ~InUseOf(e, o)
  BY <1>1 DEF InUseOf
<1>3. GivesLive(e, o) = h
  BY <1>1, <1>2 DEF GivesLive, NamesLeft, LiveLeft
<1>4. AfterGive(e, o) = {h}
  BY <1>1, <1>3 DEF AfterGive
<1>5. ~MisusesGive(e, o)
  BY <1>1, <1>2 DEF MisusesGive
<1> QED
  BY <1>4, <1>5, LeadsGive

\* A name that may be 0, or that of an object that is gone.
LEMMA GoGiveIgnored ==
  ASSUME NEW p, NEW kind \in IgnoredKinds, NEW i,
         NEW n, NEW j, NEW f, NEW r, NEW c, NEW g, NEW l, NEW x,
         <<kind, i>> \in l => <<kind, i>> \in n, <<kind, i>> \notin j
  PROVE  Leads(p, State(n, j, f, r, c, g, l, x), Give(kind, i),
               State(n, j, f, r, c, g, l \ {<<kind, i>>}, x))
<1> DEFINE o == <<kind, i>>
           e == State(n, j, f, r, c, g, l, x)
           h == State(n, j, f, r, c, g, l \ {o}, x)
<1>0. /\ kind \notin ClearedKinds /\ kind \notin AssertedKinds \cup {"bo"}
      /\ kind # "gbm" /\ kind # "egl_setup" /\ kind # "display"
  BY DEF IgnoredKinds, ClearedKinds, AssertedKinds
<1>1. /\ e.live = l /\ e.egl = g /\ e.names = n /\ e.junk = j
      /\ e.faults = x /\ e.failed = f /\ e.ret = r /\ e.passed = c
  BY DEF State
<1>2. ~InUseOf(e, o)
  BY <1>0 DEF InUseOf
<1>3. o \in l => GivesLive(e, o) = h
  BY <1>0, <1>1, <1>2 DEF GivesLive, NamesLeft, LiveLeft
<1>4. o \notin l => e = h /\ GivesDead(e, o) = h
  <2>1. ASSUME o \notin l PROVE l \ {o} = l
    BY <2>1
  <2> QED
    BY <1>0, <1>1, <2>1 DEF GivesDead, NamesLeft
<1>5. AfterGive(e, o) = {h}
  BY <1>0, <1>1, <1>3, <1>4 DEF AfterGive
<1>6. ~MisusesGive(e, o)
  BY <1>0, <1>1, <1>2 DEF MisusesGive
<1> QED
  BY <1>0, <1>5, <1>6, LeadsGive

\* A variable that holds nothing, for which the call does nothing.
LEMMA GoGiveNothing ==
  ASSUME NEW p, NEW kind, NEW i,
         NEW n, NEW j, NEW f, NEW r, NEW c, NEW g, NEW l, NEW x,
         <<kind, i>> \notin l \cup n \cup j,
         kind \notin AssertedKinds \cup {"bo", "egl_setup"}
  PROVE  Leads(p, State(n, j, f, r, c, g, l, x), Give(kind, i),
               State(n, j, f, r, c, g, l, x))
<1> DEFINE o == <<kind, i>>
           e == State(n, j, f, r, c, g, l, x)
<1>1. e.live = l /\ e.names = n /\ e.junk = j
  BY DEF State
<1>2. AfterGive(e, o) = {e}
  BY <1>1 DEF AfterGive
<1>3. ~MisusesGive(e, o)
  BY <1>1 DEF MisusesGive
<1> QED
  BY <1>2, <1>3, LeadsGive

\* An image, a framebuffer or a buffer object that is NULL.
LEMMA GiveAborts ==
  ASSUME NEW p, NEW kind \in AssertedKinds \cup {"bo"}, NEW i, NEW t, IsSteps(t),
         NEW n, NEW j, NEW f, NEW r, NEW c, NEW g, NEW l, NEW x,
         <<kind, i>> \notin l \cup n \cup j, f \cap Fatal(p) # {}
  PROVE  Fine(p, Give(kind, i) \o t, State(n, j, f, r, c, g, l, x))
<1> DEFINE o == <<kind, i>>
           e == State(n, j, f, r, c, g, l, x)
<1>1. e.live = l /\ e.names = n /\ e.junk = j /\ e.failed = f
  BY DEF State
<1>2. AfterGive(e, o) = {}
  BY <1>1 DEF AfterGive
<1>3. Doomed(p, e)
  BY <1>1 DEF Doomed
<1>4. Allowed(p, [do |-> "give", of |-> o, else |-> << >>], e)
  BY <1>3 DEF Allowed, AssertedKinds
<1>5. After(Give(kind, i) \o t, e) = {}
  BY <1>2, AfterFirst DEF StepKinds, Give
<1> QED
  BY <1>4, <1>5, FirstStep DEF StepKinds, Give

LEMMA GoEglNew ==
  ASSUME NEW p, NEW i,
         NEW n, NEW j, NEW f, NEW r, NEW c, NEW g, NEW l, NEW x
  PROVE  Leads(p, State(n, j, f, r, c, g, l, x), Run("egl_new", i),
               State(n, j, f, r, c, "new", l, x))
<1> DEFINE e == State(n, j, f, r, c, g, l, x)
           o == <<"egl_new", i>>
<1>1. AfterRun(e, "egl_new", i) = {State(n, j, f, r, c, "new", l, x)}
  BY DEF AfterRun, BuilderRuns, EglIsNew, EglIs, State
<1>2. Allowed(p, [do |-> "run", of |-> o, else |-> << >>], e)
  BY DEF Allowed, MisusesRun
<1> QED
  BY <1>1, <1>2, LeadsRun

LEMMA GoEglDestroy ==
  ASSUME NEW p, NEW i, NEW n, NEW j, NEW f, NEW r, NEW c, NEW l, NEW x,
         Context \in l
  PROVE  Leads(p, State(n, j, f, r, c, "ready", l, x), Run("egl_destroy", i),
               State(n, j, f, r, c, "none", Terminated(l), x))
<1> DEFINE e == State(n, j, f, r, c, "ready", l, x)
           o == <<"egl_destroy", i>>
<1>1. AfterRun(e, "egl_destroy", i)
        = {State(n, j, f, r, c, "none", Terminated(l), x)}
  BY DEF AfterRun, BuilderRuns, EglEnds, EglIs, State
<1>2. e.egl = "ready" /\ e.live = l
  BY DEF State
<1>3. Allowed(p, [do |-> "run", of |-> o, else |-> << >>], e)
  BY <1>2 DEF Allowed, MisusesRun
<1> QED
  BY <1>1, <1>3, LeadsRun

LEMMA GoBuilder ==
  ASSUME NEW p, NEW kind \in BuilderRuns, NEW i, NEW e
  PROVE  Leads(p, e, Run(kind, i), e)
<1> DEFINE o == <<kind, i>>
<1>1. AfterRun(e, kind, i) = {e}
  BY DEF AfterRun, BuilderRuns
<1>2. Allowed(p, [do |-> "run", of |-> o, else |-> << >>], e)
  BY DEF Allowed, MisusesRun, BuilderRuns
<1> QED
  BY <1>1, <1>2, LeadsRun

LEMMA GoReturn ==
  ASSUME NEW p, NEW value \in 0 .. 2,
         NEW n, NEW j, NEW f, NEW r, NEW c, NEW g, NEW l, NEW x
  PROVE  Leads(p, State(n, j, f, r, c, g, l, x), Return(value),
               State(n, j, f, value, c, g, l, x))
<1> DEFINE e == State(n, j, f, r, c, g, l, x)
           o == <<"return", value>>
<1>1. AfterRun(e, "return", value) = {State(n, j, f, value, c, g, l, x)}
  BY DEF AfterRun, BuilderRuns, Returning, State
<1>2. Allowed(p, [do |-> "run", of |-> o, else |-> << >>], e)
  BY DEF Allowed, MisusesRun
<1> QED
  BY <1>1, <1>2, LeadsRun DEF Return

LEMMA GoCase ==
  ASSUME NEW p, NEW kind \in {"case_passed", "case_failed"}, NEW i,
         NEW n, NEW j, NEW f, NEW r, NEW c \in 0 .. 3, NEW g, NEW l, NEW x
  PROVE  Leads(p, State(n, j, f, r, c, g, l, x), Run(kind, i),
               State(n, j, f, r, c + 1, g, l, x))
<1> DEFINE e == State(n, j, f, r, c, g, l, x)
           o == <<kind, i>>
<1>1. AfterRun(e, kind, i) = {State(n, j, f, r, c + 1, g, l, x)}
  BY DEF AfterRun, BuilderRuns, Counted, State
<1>2. e.passed = c
  BY DEF State
<1>3. Allowed(p, [do |-> "run", of |-> o, else |-> << >>], e)
  BY <1>2 DEF Allowed, MisusesRun
<1> QED
  BY <1>1, <1>3, LeadsRun

LEMMA GoReturnPass ==
  ASSUME NEW p, NEW i,
         NEW n, NEW j, NEW f, NEW r, NEW c, NEW g, NEW l, NEW x
  PROVE  /\ Leads(p, State(n, j, f, r, c, g, l, x), Run("return_any_pass", i),
                  State(n, j, f, IF c = 0 THEN 1 ELSE 0, c, g, l, x))
         /\ Leads(p, State(n, j, f, r, c, g, l, x), Run("return_all_pass", i),
                  State(n, j, f, IF c = 0 THEN 0 ELSE 2, c, g, l, x))
<1> DEFINE e == State(n, j, f, r, c, g, l, x)
           any == <<"return_any_pass", i>>
           all == <<"return_all_pass", i>>
<1>1. e.passed = c
  BY DEF State
<1>2. AfterRun(e, "return_any_pass", i)
        = {State(n, j, f, IF c = 0 THEN 1 ELSE 0, c, g, l, x)}
  BY DEF AfterRun, BuilderRuns, Returning, State
<1>3. AfterRun(e, "return_all_pass", i)
        = {State(n, j, f, IF c = 0 THEN 0 ELSE 2, c, g, l, x)}
  BY DEF AfterRun, BuilderRuns, Returning, State
<1>4. /\ Allowed(p, [do |-> "run", of |-> any, else |-> << >>], e)
      /\ Allowed(p, [do |-> "run", of |-> all, else |-> << >>], e)
  BY DEF Allowed, MisusesRun
<1> QED
  BY <1>2, <1>3, <1>4, LeadsRun

LEMMA GoFreed ==
  ASSUME NEW p, NEW i, NEW n, NEW j, NEW f, NEW r, NEW c, NEW g, NEW l, NEW x,
         f \cap Fatal(p) # {}
  PROVE  Leads(p, State(n, j, f, r, c, g, l, x), Run("read_freed", i),
               State(n, j, f, r, c, g, l, x \cup {"freed"}))
<1> DEFINE e == State(n, j, f, r, c, g, l, x)
           o == <<"read_freed", i>>
<1>1. AfterRun(e, "read_freed", i)
        = {State(n, j, f, r, c, g, l, x \cup {"freed"})}
  BY DEF AfterRun, BuilderRuns, Freed, State
<1>2. Doomed(p, e)
  BY DEF Doomed, State
<1>3. Allowed(p, [do |-> "run", of |-> o, else |-> << >>], e)
  BY <1>2 DEF Allowed
<1> QED
  BY <1>1, <1>3, LeadsRun

\* Longer compositions.
LEMMA Compose3 ==
  ASSUME NEW p, NEW e0, NEW e1, NEW e2, NEW e3,
         NEW a, NEW b, NEW c,
         Leads(p, e0, a, e1), Leads(p, e1, b, e2), Leads(p, e2, c, e3)
  PROVE  Leads(p, e0, a \o b \o c, e3)
BY Compose, Zenon

LEMMA Compose4 ==
  ASSUME NEW p, NEW e0, NEW e1, NEW e2, NEW e3, NEW e4,
         NEW a, NEW b, NEW c, NEW d,
         Leads(p, e0, a, e1), Leads(p, e1, b, e2), Leads(p, e2, c, e3),
         Leads(p, e3, d, e4)
  PROVE  Leads(p, e0, a \o b \o c \o d, e4)
BY Compose, Compose3, Zenon

LEMMA Compose5 ==
  ASSUME NEW p, NEW e0, NEW e1, NEW e2, NEW e3, NEW e4, NEW e5,
         NEW a, NEW b, NEW c, NEW d, NEW e,
         Leads(p, e0, a, e1), Leads(p, e1, b, e2), Leads(p, e2, c, e3),
         Leads(p, e3, d, e4), Leads(p, e4, e, e5)
  PROVE  Leads(p, e0, a \o b \o c \o d \o e, e5)
BY Compose, Compose4, Zenon

LEMMA Compose6 ==
  ASSUME NEW p, NEW e0, NEW e1, NEW e2, NEW e3, NEW e4, NEW e5, NEW e6,
         NEW a, NEW b, NEW c, NEW d, NEW e, NEW f,
         Leads(p, e0, a, e1), Leads(p, e1, b, e2), Leads(p, e2, c, e3),
         Leads(p, e3, d, e4), Leads(p, e4, e, e5), Leads(p, e5, f, e6)
  PROVE  Leads(p, e0, a \o b \o c \o d \o e \o f, e6)
BY Compose, Compose5, Zenon

LEMMA Compose7 ==
  ASSUME NEW p, NEW e0, NEW e1, NEW e2, NEW e3, NEW e4, NEW e5, NEW e6, NEW e7,
         NEW a, NEW b, NEW c, NEW d, NEW e, NEW f, NEW g,
         Leads(p, e0, a, e1), Leads(p, e1, b, e2), Leads(p, e2, c, e3),
         Leads(p, e3, d, e4), Leads(p, e4, e, e5), Leads(p, e5, f, e6),
         Leads(p, e6, g, e7)
  PROVE  Leads(p, e0, a \o b \o c \o d \o e \o f \o g, e7)
BY Compose, Compose6, Zenon

LEMMA Compose8 ==
  ASSUME NEW p, NEW e0, NEW e1, NEW e2, NEW e3, NEW e4, NEW e5, NEW e6, NEW e7, NEW e8,
         NEW a, NEW b, NEW c, NEW d, NEW e, NEW f, NEW g, NEW h,
         Leads(p, e0, a, e1), Leads(p, e1, b, e2), Leads(p, e2, c, e3),
         Leads(p, e3, d, e4), Leads(p, e4, e, e5), Leads(p, e5, f, e6),
         Leads(p, e6, g, e7), Leads(p, e7, h, e8)
  PROVE  Leads(p, e0, a \o b \o c \o d \o e \o f \o g \o h, e8)
BY Compose, Compose7, Zenon

----------------------------------------------------------------------------
LEMMA StepIsSteps ==
  ASSUME NEW kind, NEW i, NEW else
  PROVE  /\ IsSteps(Give(kind, i)) /\ IsSteps(Run(kind, i))
         /\ IsSteps(Call(kind, i, else)) /\ IsSteps(Return(i))
         /\ IsSteps(Try(kind, i)) /\ IsSteps(Take(kind, i, else))
BY StepFirst, NoSteps DEF StepKinds, Give, Run, Call, Return, Try, Take

LEMMA CalmTakeOr ==
  ASSUME NEW p, NEW kind, NEW i, NEW else, NEW n, NEW g, NEW l,
         <<kind, i>> \notin l, kind = "image" => g = "ready", kind # "egl_setup",
         Fine(p, else, State(n \ {<<kind, i>>}, {}, {<<kind, i>>}, 1, 0, g, l, {}))
  PROVE  Leads(p, Calm(n, g, l), Take(kind, i, else),
               Calm(n \cup {<<kind, i>>}, g, l \cup {<<kind, i>>}))
<1> DEFINE o == <<kind, i>>
           e == Calm(n, g, l)
<1>1. /\ e.live = l /\ e.egl = g
      /\ Gains(e, o) = Calm(n \cup {o}, g, l \cup {o})
      /\ Misses(e, o) = State(n \ {o}, {}, {o}, 1, 0, g, l, {})
  BY DEF Calm, State, Gains, Misses
<1>2. Fine(p, else, Misses(e, o))
  BY <1>1
<1> QED
  BY <1>1, <1>2, LeadsTake

LEMMA CalmCallOr ==
  ASSUME NEW p, NEW kind, NEW i, NEW else, NEW n, NEW g, NEW l, kind # "egl_setup",
         Fine(p, else, State(n, {}, {<<kind, i>>}, 1, 0, g, l, {}))
  PROVE  Leads(p, Calm(n, g, l), Call(kind, i, else), Calm(n, g, l))
<1> DEFINE o == <<kind, i>>
           e == Calm(n, g, l)
<1>1. Lacks(e, o) = State(n, {}, {o}, 1, 0, g, l, {})
  BY DEF Calm, State, Lacks
<1>2. Fine(p, else, Lacks(e, o))
  BY <1>1
<1> QED
  BY <1>2, LeadsCall

LEMMA CalmGiveIgnored ==
  ASSUME NEW p, NEW kind \in IgnoredKinds, NEW i, NEW n, NEW g, NEW l,
         <<kind, i>> \in l => <<kind, i>> \in n
  PROVE  Leads(p, Calm(n, g, l), Give(kind, i), Calm(n, g, l \ {<<kind, i>>}))
BY GoGiveIgnored DEF Calm

LEMMA CalmEglNew ==
  ASSUME NEW p, NEW n, NEW g, NEW l
  PROVE  Leads(p, Calm(n, g, l), Run("egl_new", 0), Calm(n, "new", l))
BY GoEglNew DEF Calm

LEMMA CalmSetup ==
  ASSUME NEW p, Plain(p), NEW n, NEW l, Fatal(p) \cap (SetupPoints \X {0}) = {}
  PROVE  Leads(p, Calm(n, "new", l), Call("egl_setup", 0, Return1),
               Calm(n, "ready", l \cup {Display, Context}))
<1>1. ASSUME NEW point \in SetupPoints
      PROVE  Fine(p, Return1, State(n, {}, {} \cup {<<point, 0>>}, 1, 0, "new", l, {}))
  <2>1. {} \cup {<<point, 0>>} = {<<point, 0>>}
    OBVIOUS
  <2>2. <<point, 0>> \in SetupPoints \X {0}
    OBVIOUS
  <2> HIDE DEF SetupPoints
  <2>3. <<point, 0>> \notin Fatal(p)
    BY <2>2
  <2> QED
    BY <2>1, <2>3, Quit
<1> QED
  BY <1>1, GoSetup DEF Calm

LEMMA CalmEglDestroy ==
  ASSUME NEW p, NEW n, NEW l, Context \in l
  PROVE  Leads(p, Calm(n, "ready", l), Run("egl_destroy", 0),
               Calm(n, "none", Terminated(l)))
BY GoEglDestroy DEF Calm

----------------------------------------------------------------------------
\* The program object and its shaders.  A failure of these calls leaves the
\* variables as they were but for the three.

GlNames == {<<"program", 0>>, <<"shader", 0>>, <<"shader", 1>>}
GlFailures == GlNames \cup {<<"compile", 0>>, <<"compile", 1>>, <<"link", 0>>}

\* What the program does after a failure is fine whatever the names are.
Bears(p, else, n, j, f, r, c, g, l, x) ==
  \A m : n \ GlNames \subseteq m =>
    \A o \in GlFailures : Fine(p, else, State(m, j, f \cup {o}, r, c, g, l, x))

LEMMA ProgramCreateLeads ==
  ASSUME NEW p, NEW else,
         NEW n, NEW j, NEW f, NEW r, NEW c, NEW g, NEW l, NEW x,
         GlNames \cap l = {}, GlNames \cap j = {},
         Bears(p, else, n, j, f, r, c, g, l, x)
  PROVE  Leads(p, State(n, j, f, r, c, g, l, x), program_create(else),
               State(n \cup {<<"program", 0>>} \cup {<<"shader", 0>>}
                       \cup {<<"shader", 1>>}, j, f, r, c, g,
                     l \cup {<<"program", 0>>}, x))
<1> DEFINE P == <<"program", 0>>
           S0 == <<"shader", 0>>
           S1 == <<"shader", 1>>
           St(m, k, v) == State(m, j, f \cup k, r, c, g, v, x)
           n1 == n \cup {P}
           n2 == n1 \cup {S0}
           n3 == n2 \cup {S1}
           l1 == l \cup {P}
           l2 == l1 \cup {S0}
           l3 == l2 \cup {S1}
           Delete == Give("program", 0) \o else
<1>0. /\ P \notin l /\ S0 \notin l /\ S1 \notin l /\ P # S0 /\ P # S1 /\ S0 # S1
      /\ j \ {P} = j /\ j \ {S0} = j /\ j \ {S1} = j
      /\ P \notin j /\ S0 \notin j /\ S1 \notin j
      /\ {P, S0, S1} = GlNames
  BY DEF GlNames
<1> HIDE DEF P, S0, S1
<1>1. ASSUME NEW m, n \ GlNames \subseteq m, NEW o \in GlFailures
      PROVE  Fine(p, else, St(m, {o}, l))
  BY <1>1 DEF Bears
<1>2. ASSUME NEW m, n \ GlNames \subseteq m, P \in m, NEW o \in GlFailures
      PROVE  Fine(p, Delete, St(m, {o}, l1))
  <2>1. l = l1 \ {P}
    BY <1>0
  <2>2. Fine(p, else, St(m, {o}, l))
    BY <1>1, <1>2
  <2>3. Leads(p, St(m, {o}, l1), Give("program", 0), St(m, {o}, l1 \ {P}))
    BY <1>0, <1>2, GoGiveIgnored DEF P, IgnoredKinds
  <2> QED
    BY <2>1, <2>2, <2>3, LeadsFine
<1>3. ASSUME NEW m, n \ GlNames \subseteq m, P \in m, S0 \in m, NEW o \in GlFailures
      PROVE  Fine(p, Give("shader", 0) \o Delete, St(m, {o}, l2))
  <2>1. l1 = l2 \ {S0}
    BY <1>0
  <2>2. Fine(p, Delete, St(m, {o}, l1))
    BY <1>2, <1>3
  <2> HIDE DEF Delete
  <2>3. Leads(p, St(m, {o}, l2), Give("shader", 0), St(m, {o}, l2 \ {S0}))
    BY <1>0, <1>3, GoGiveIgnored DEF S0, IgnoredKinds
  <2> QED
    BY <2>1, <2>2, <2>3, LeadsFine
<1>4. ASSUME NEW m, n \ GlNames \subseteq m, P \in m, S0 \in m, S1 \in m,
             NEW o \in GlFailures
      PROVE  Fine(p, Give("shader", 1) \o (Give("shader", 0) \o Delete),
                  St(m, {o}, l3))
  <2>1. l2 = l3 \ {S1}
    BY <1>0
  <2>2. Fine(p, Give("shader", 0) \o Delete, St(m, {o}, l2))
    BY <1>3, <1>4
  <2> DEFINE D == Give("shader", 0) \o Delete
  <2>3. Fine(p, D, St(m, {o}, l2))
    BY <2>2
  <2> HIDE DEF Delete, D
  <2>4. Leads(p, St(m, {o}, l3), Give("shader", 1), St(m, {o}, l3 \ {S1}))
    BY <1>0, <1>4, GoGiveIgnored DEF S1, IgnoredKinds
  <2>5. Fine(p, Give("shader", 1) \o D, St(m, {o}, l3))
    BY <2>1, <2>3, <2>4, LeadsFine
  <2> QED
    BY <2>5 DEF D
<1> DEFINE A == Give("shader", 0) \o Delete
           B == Give("shader", 1) \o A
<1>f. /\ P \in GlFailures /\ S0 \in GlFailures /\ S1 \in GlFailures
      /\ <<"compile", 0>> \in GlFailures /\ <<"compile", 1>> \in GlFailures
      /\ <<"link", 0>> \in GlFailures
  BY DEF GlFailures, GlNames, P, S0, S1
<1>m. /\ n \ GlNames \subseteq n \ {P}
      /\ n \ GlNames \subseteq n1 \ {S0} /\ P \in n1 \ {S0}
      /\ n \ GlNames \subseteq n2 /\ P \in n2 /\ S0 \in n2
      /\ n \ GlNames \subseteq n2 \ {S1} /\ P \in n2 \ {S1} /\ S0 \in n2 \ {S1}
      /\ n \ GlNames \subseteq n3 /\ P \in n3 /\ S0 \in n3 /\ S1 \in n3
  BY <1>0
<1>l. /\ S0 \notin l1 /\ S1 \notin l2 /\ S0 \in l3 /\ S1 \in l3 \ {S0}
      /\ (l3 \ {S0}) \ {S1} = l1
  BY <1>0
<1>5. /\ Fine(p, else, St(n \ {P}, {P}, l))
      /\ Fine(p, Delete, St(n1 \ {S0}, {S0}, l1))
      /\ Fine(p, A, St(n2, {<<"compile", 0>>}, l2))
      /\ Fine(p, A, St(n2 \ {S1}, {S1}, l2))
      /\ Fine(p, B, St(n3, {<<"compile", 1>>}, l3))
      /\ Fine(p, Delete, St(n3, {<<"link", 0>>}, l1))
  BY <1>1, <1>2, <1>3, <1>4, <1>f, <1>m
<1> HIDE DEF Delete, A, B, n1, n2, n3, l1, l2, l3
<1> DEFINE Now(m, v) == State(m, j, f, r, c, g, v, x)
<1>6. Leads(p, Now(n, l), Take("program", 0, else), Now(n1, l1))
  BY <1>0, <1>5, GoTake DEF P, n1, l1
<1>7. Leads(p, Now(n1, l1), Take("shader", 0, Delete), Now(n2, l2))
  BY <1>0, <1>l, <1>5, GoTake DEF S0, n2, l2
<1>8. Leads(p, Now(n2, l2), Call("compile", 0, A), Now(n2, l2))
  BY <1>5, GoCall
<1>9. Leads(p, Now(n2, l2), Take("shader", 1, A), Now(n3, l3))
  BY <1>0, <1>l, <1>5, GoTake DEF S1, n3, l3
<1>10. Leads(p, Now(n3, l3), Call("compile", 1, B), Now(n3, l3))
  BY <1>5, GoCall
<1>11. Leads(p, Now(n3, l3), Give("shader", 0), Now(n3, l3 \ {S0}))
  BY <1>0, <1>l, <1>m, GoGiveIgnored DEF S0, IgnoredKinds
<1>12. Leads(p, Now(n3, l3 \ {S0}), Give("shader", 1), Now(n3, l1))
  <2>1. "shader" \in IgnoredKinds
    BY DEF IgnoredKinds
  <2>2. Leads(p, Now(n3, l3 \ {S0}), Give("shader", 1), Now(n3, (l3 \ {S0}) \ {S1}))
    BY <1>0, <1>l, <1>m, <2>1, GoGiveIgnored DEF S1
  <2> QED
    BY <1>l, <2>2
<1>13. Leads(p, Now(n3, l1), Call("link", 0, Delete), Now(n3, l1))
  BY <1>5, GoCall
<1> HIDE DEF Now
<1>14. Leads(p, Now(n1, l1), shader_create(0, Delete), Now(n2, l2))
  BY <1>7, <1>8, Compose DEF shader_create, A
<1>15. Leads(p, Now(n2, l2), shader_create(1, A), Now(n3, l3))
  BY <1>9, <1>10, Compose DEF shader_create, B
<1>16. program_create(else) =
         Take("program", 0, else) \o shader_create(0, Delete)
         \o shader_create(1, A) \o Give("shader", 0) \o Give("shader", 1)
         \o Call("link", 0, Delete)
  BY DEF program_create, A, Delete
<1>17. Leads(p, Now(n, l), program_create(else), Now(n3, l1))
  BY <1>6, <1>14, <1>15, <1>11, <1>12, <1>13, <1>16, Compose6
<1> QED
  BY <1>17 DEF Now, n1, n2, n3, l1, P, S0, S1

LEMMA CalmProgram ==
  ASSUME NEW p, Plain(p), NEW n, NEW g, NEW l,
         GlNames \cap l = {}, Fatal(p) \cap GlFailures = {}
  PROVE  Leads(p, Calm(n, g, l), program_create(Return1),
               Calm(n \cup {<<"program", 0>>} \cup {<<"shader", 0>>}
                      \cup {<<"shader", 1>>}, g, l \cup {<<"program", 0>>}))
<1>1. ASSUME NEW m, NEW x \in GlFailures
      PROVE  Fine(p, Return1, State(m, {}, {} \cup {x}, 1, 0, g, l, {}))
  <2>1. {} \cup {x} = {x} /\ x \notin Fatal(p)
    OBVIOUS
  <2> QED
    BY <2>1, Quit
<1>2. Bears(p, Return1, n, {}, {}, 1, 0, g, l, {})
  BY <1>1 DEF Bears
<1>3. GlNames \cap {} = {}
  OBVIOUS
<1> QED
  BY <1>2, <1>3, ProgramCreateLeads DEF Calm

LEMMA CalmCallCrash ==
  ASSUME NEW p, NEW kind, NEW i, NEW n, NEW g, NEW l,
         <<kind, i>> \in Fatal(p), kind # "egl_setup"
  PROVE  Leads(p, Calm(n, g, l), Call(kind, i, Crash), Calm(n, g, l))
<1>1. Doomed(p, State(n, {}, {<<kind, i>>}, 1, 0, g, l, {}))
  BY DEF Doomed, State
<1>2. Fine(p, Crash, State(n, {}, {<<kind, i>>}, 1, 0, g, l, {}))
  BY <1>1, FineCrash, NoSteps
<1> QED
  BY <1>2, CalmCallOr

\* bsdrm/example/stripe.c.
LEMMA StripeFine ==
  Fine("stripe", stripe, State({}, {}, {}, 1, 0, "none", {}, {}))
<1> DEFINE p == "stripe"
           n1 == {} \cup {<<"plumber", 0>>}
           l1 == {} \cup {<<"plumber", 0>>}
           n2 == n1 \cup {<<"card", 0>>}
           l2 == l1 \cup {<<"card", 0>>}
           n3 == n2 \cup {<<"connector", 0>>}
           l3 == l2 \cup {<<"connector", 0>>}
           l4 == l3 \ {<<"plumber", 0>>}
           n4 == n3 \cup {<<"gbm", 0>>}
           l5 == l4 \cup {<<"gbm", 0>>}
           n5 == n4 \cup {<<"bo", 0>>}
           l6 == l5 \cup {<<"bo", 0>>}
           n6 == n5 \cup {<<"id", 0>>}
           l7 == l6 \cup {<<"id", 0>>}
           n7 == n6 \cup {<<"bo", 1>>}
           l8 == l7 \cup {<<"bo", 1>>}
           n8 == n7 \cup {<<"id", 1>>}
           l9 == l8 \cup {<<"id", 1>>}
           n9 == n8 \cup {<<"mapper", 0>>}
           l10 == l9 \cup {<<"mapper", 0>>}
           n10 == n9 \cup {<<"map", 0>>}
           l11 == l10 \cup {<<"map", 0>>}
           l12 == l11 \ {<<"map", 0>>}
           n11 == n10 \cup {<<"map", 1>>}
           l13 == l12 \cup {<<"map", 1>>}
           l14 == l13 \ {<<"map", 1>>}
           l15 == l14 \ {<<"mapper", 0>>}
           l16 == l15 \ {<<"bo", 0>>}
           l17 == l16 \ {<<"id", 0>>}
           l18 == l17 \ {<<"bo", 1>>}
           l19 == l18 \ {<<"id", 1>>}
           l20 == l19 \ {<<"gbm", 0>>}
           n12 == n11 \ {<<"connector", 0>>}
           l21 == l20 \ {<<"connector", 0>>}
           l22 == l21 \ {<<"card", 0>>}
<1>0. Plain(p) /\ Fatal(p) = {}
  BY DEF Plain, Fatal
<1>f1. /\ <<"card", 0>> \notin l1
       /\ <<"plumber", 0>> \in l3
       /\ <<"plumber", 0>> \in n3
       /\ <<"gbm", 0>> \notin l4
  OBVIOUS
<1>f2. /\ <<"bo", 0>> \notin l5
       /\ <<"id", 0>> \notin l6
       /\ <<"bo", 1>> \notin l7
       /\ <<"id", 1>> \notin l8
  OBVIOUS
<1>f3. /\ <<"map", 0>> \notin l10
       /\ <<"map", 0>> \in l11
       /\ <<"map", 0>> \in n10
       /\ <<"map", 1>> \notin l12
  OBVIOUS
<1>f4. /\ <<"map", 1>> \in l13
       /\ <<"map", 1>> \in n11
       /\ <<"mapper", 0>> \in l14
       /\ <<"mapper", 0>> \in n11
  OBVIOUS
<1>f5. /\ <<"bo", 0>> \in l15
       /\ <<"bo", 0>> \in n11
       /\ <<"id", 0>> \in n11
       /\ <<"bo", 1>> \in l17
  OBVIOUS
<1>f6. /\ <<"bo", 1>> \in n11
       /\ <<"id", 1>> \in n11
       /\ <<"gbm", 0>> \in l19
       /\ <<"gbm", 0>> \in n11
  OBVIOUS
<1>f7. /\ \A y \in l19 : y[1] # "bo"
       /\ <<"connector", 0>> \in l20
       /\ <<"connector", 0>> \in n11
       /\ <<"card", 0>> \in l21
  OBVIOUS
<1>f8. /\ <<"card", 0>> \in n12
  OBVIOUS
<1> HIDE DEF n1, l1, n2, l2, n3, l3, l4, n4, l5, n5, l6, n6, l7, n7, l8, n8,
              l9, n9, l10, n10, l11, l12, n11, l13, l14, l15, l16,
              l17, l18, l19, l20, n12, l21, l22
<1>1. Leads(p, Calm({}, "none", {}), Make("plumber", 0), Calm(n1, "none", l1))
  BY CalmMake DEF n1, l1
<1>2. Leads(p, Calm(n1, "none", l1), Take("card", 0, Return1), Calm(n2,
         "none", l2))
  BY <1>f1, <1>0, CalmTake DEF n2, l2
<1>3. Leads(p, Calm(n2, "none", l2), Make("connector", 0), Calm(n3, "none",
         l3))
  BY CalmMake DEF n3, l3
<1>4. Leads(p, Calm(n3, "none", l3), Give("plumber", 0), Calm(n3, "none", l4))
  BY <1>f1, CalmGive DEF ClearedKinds, AssertedKinds, l4
<1>5. Leads(p, Calm(n3, "none", l4), Take("gbm", 0, Return1), Calm(n4, "none",
         l5))
  BY <1>f1, <1>0, CalmTake DEF n4, l5
<1>6. Leads(p, Calm(n4, "none", l5), Take("bo", 0, Return1), Calm(n5, "none",
         l6))
  BY <1>f2, <1>0, CalmTake DEF n5, l6
<1>7. Leads(p, Calm(n5, "none", l6), Take("id", 0, Return1), Calm(n6, "none",
         l7))
  BY <1>f2, <1>0, CalmTake DEF n6, l7
<1>8. Leads(p, Calm(n6, "none", l7), Take("bo", 1, Return1), Calm(n7, "none",
         l8))
  BY <1>f2, <1>0, CalmTake DEF n7, l8
<1>9. Leads(p, Calm(n7, "none", l8), Take("id", 1, Return1), Calm(n8, "none",
         l9))
  BY <1>f2, <1>0, CalmTake DEF n8, l9
<1>10. Leads(p, Calm(n8, "none", l9), Make("mapper", 0), Calm(n9, "none",
          l10))
  BY CalmMake DEF n9, l10
<1>11. Leads(p, Calm(n9, "none", l10), Take("map", 0, Return1), Calm(n10,
          "none", l11))
  BY <1>f3, <1>0, CalmTake DEF n10, l11
<1>12. Leads(p, Calm(n10, "none", l11), Give("map", 0), Calm(n10, "none",
          l12))
  BY <1>f3, CalmGive DEF ClearedKinds, AssertedKinds, l12
<1>13. Leads(p, Calm(n10, "none", l12), Call("set_crtc", 0, Return1),
          Calm(n10, "none", l12))
  BY <1>0, CalmCall
<1>14. Leads(p, Calm(n10, "none", l12), Take("map", 1, Return1), Calm(n11,
          "none", l13))
  BY <1>f3, <1>0, CalmTake DEF n11, l13
<1>15. Leads(p, Calm(n11, "none", l13), Give("map", 1), Calm(n11, "none",
          l14))
  BY <1>f4, CalmGive DEF ClearedKinds, AssertedKinds, l14
<1>16. Leads(p, Calm(n11, "none", l14), Call("set_crtc", 1, Return1),
          Calm(n11, "none", l14))
  BY <1>0, CalmCall
<1>17. Leads(p, Calm(n11, "none", l14), Give("mapper", 0), Calm(n11, "none",
          l15))
  BY <1>f4, CalmGive DEF ClearedKinds, AssertedKinds, l15
<1>18. Leads(p, Calm(n11, "none", l15), Give("bo", 0), Calm(n11, "none", l16))
  BY <1>f5, CalmGive DEF ClearedKinds, AssertedKinds, l16
<1>19. Leads(p, Calm(n11, "none", l16), Give("id", 0), Calm(n11, "none", l17))
  BY <1>f5, CalmGiveIgnored DEF IgnoredKinds, l17
<1>20. Leads(p, Calm(n11, "none", l17), Give("bo", 1), Calm(n11, "none", l18))
  BY <1>f5, <1>f6, CalmGive DEF ClearedKinds, AssertedKinds, l18
<1>21. Leads(p, Calm(n11, "none", l18), Give("id", 1), Calm(n11, "none", l19))
  BY <1>f6, CalmGiveIgnored DEF IgnoredKinds, l19
<1>22. Leads(p, Calm(n11, "none", l19), Give("gbm", 0), Calm(n11, "none",
          l20))
  BY <1>f6, <1>f7, CalmGive DEF ClearedKinds, AssertedKinds, l20
<1>23. Leads(p, Calm(n11, "none", l20), Give("connector", 0), Calm(n12,
          "none", l21))
  BY <1>f7, CalmGive DEF ClearedKinds, AssertedKinds, n12, l21
<1>24. Leads(p, Calm(n12, "none", l21), Give("card", 0), Calm(n12, "none",
          l22))
  BY <1>f7, <1>f8, CalmGive DEF ClearedKinds, AssertedKinds, l22
<1>25. Leads(p, Calm(n12, "none", l22), Return(0), State(n12, {}, {}, 0, 0,
          "none", l22, {}))
  BY CalmReturn
<1> DEFINE s1 == Take("bo", 0, Return1) \o Take("id", 0, Return1)
           s2 == Take("bo", 1, Return1) \o Take("id", 1, Return1)
           s3 == s1 \o s2
           s4 == Take("map", 0, Return1) \o Give("map", 0) \o
             Call("set_crtc", 0, Return1)
           s5 == Take("map", 1, Return1) \o Give("map", 1) \o
             Call("set_crtc", 1, Return1)
           t1 == Twice([k \in Buffers |-> Take("map", k, Return1) \o
             Give("map", k) \o Call("set_crtc", k, Return1)])
           s6 == s4 \o s5
           s7 == Give("bo", 0) \o Give("id", 0)
           s8 == Give("bo", 1) \o Give("id", 1)
           t2 == Twice([k \in Buffers |-> Give("bo", k) \o Give("id", k)])
           s9 == s7 \o s8
           s10 == Make("plumber", 0) \o Take("card", 0, Return1) \o
             Make("connector", 0) \o Give("plumber", 0) \o Take("gbm", 0,
             Return1) \o framebuffers \o Make("mapper", 0) \o t1
           s11 == s10 \o Give("mapper", 0) \o t2 \o Give("gbm", 0) \o
             Give("connector", 0) \o Give("card", 0) \o Return(0)
<1>26. Leads(p, Calm(n4, "none", l5), s1, Calm(n6, "none", l7))
  BY <1>6, <1>7, Compose
<1>27. Leads(p, Calm(n6, "none", l7), s2, Calm(n8, "none", l9))
  BY <1>8, <1>9, Compose
<1>28. Leads(p, Calm(n4, "none", l5), s3, Calm(n8, "none", l9))
  BY <1>26, <1>27, Compose
<1>29. framebuffers = s3
  BY DEF framebuffers, Twice, Buffers
<1>30. Leads(p, Calm(n4, "none", l5), framebuffers, Calm(n8, "none", l9))
  BY <1>28, <1>29
<1>31. Leads(p, Calm(n9, "none", l10), s4, Calm(n10, "none", l12))
  BY <1>11, <1>12, <1>13, Compose3
<1>32. Leads(p, Calm(n10, "none", l12), s5, Calm(n11, "none", l14))
  BY <1>14, <1>15, <1>16, Compose3
<1>33. Leads(p, Calm(n9, "none", l10), s6, Calm(n11, "none", l14))
  BY <1>31, <1>32, Compose
<1>34. t1 = s6
  BY DEF Twice, Buffers
<1>35. Leads(p, Calm(n9, "none", l10), t1, Calm(n11, "none", l14))
  BY <1>33, <1>34
<1>36. Leads(p, Calm(n11, "none", l15), s7, Calm(n11, "none", l17))
  BY <1>18, <1>19, Compose
<1>37. Leads(p, Calm(n11, "none", l17), s8, Calm(n11, "none", l19))
  BY <1>20, <1>21, Compose
<1>38. Leads(p, Calm(n11, "none", l15), s9, Calm(n11, "none", l19))
  BY <1>36, <1>37, Compose
<1>39. t2 = s9
  BY DEF Twice, Buffers
<1>40. Leads(p, Calm(n11, "none", l15), t2, Calm(n11, "none", l19))
  BY <1>38, <1>39
<1>41. Leads(p, Calm({}, "none", {}), s10, Calm(n11, "none", l14))
  BY <1>1, <1>2, <1>3, <1>4, <1>5, <1>30, <1>10, <1>35, Compose8
<1>42. Leads(p, Calm({}, "none", {}), s11, State(n12, {}, {}, 0, 0, "none",
          l22, {}))
  BY <1>41, <1>17, <1>40, <1>22, <1>23, <1>24, <1>25, Compose7
<1>43. stripe = s11
  BY DEF stripe
<1>44. MayEnd(p, State(n12, {}, {}, 0, 0, "none", l22, {}))
  BY DEF MayEnd, Doomed, State, LeftBehind, Hidden, Each, Connector, n1, l1,
     n2, l2, n3, l3, l4, n4, l5, n5, l6, n6, l7, n7, l8, n8, l9, n9, l10, n10,
     l11, l12, n11, l13, l14, l15, l16, l17, l18, l19, l20, n12, l21, l22
<1> HIDE DEF s11
<1>45. Fine(p, s11, Calm({}, "none", {}))
  BY <1>42, <1>44, LeadsEnd
<1> QED
  BY <1>43, <1>45 DEF Calm

\* vk_glow.c.
LEMMA VkGlowFine ==
  Fine("vk_glow", vk_glow, State({}, {}, {}, 1, 0, "none", {}, {}))
<1> DEFINE p == "vk_glow"
           n1 == {} \cup {<<"card", 0>>}
           l1 == {} \cup {<<"card", 0>>}
           n2 == n1 \cup {<<"gbm", 0>>}
           l2 == l1 \cup {<<"gbm", 0>>}
           n3 == n2 \cup {<<"connector", 0>>}
           l3 == l2 \cup {<<"connector", 0>>}
           n4 == n3 \cup {<<"instance", 0>>}
           l4 == l3 \cup {<<"instance", 0>>}
           n5 == n4 \cup {<<"device", 0>>}
           l5 == l4 \cup {<<"device", 0>>}
           n6 == n5 \cup {<<"cmd_pool", 0>>}
           l6 == l5 \cup {<<"cmd_pool", 0>>}
           n7 == n6 \cup {<<"pass", 0>>}
           l7 == l6 \cup {<<"pass", 0>>}
           n8 == n7 \cup {<<"bo", 0>>}
           l8 == l7 \cup {<<"bo", 0>>}
           n9 == n8 \cup {<<"id", 0>>}
           l9 == l8 \cup {<<"id", 0>>}
           n10 == n9 \cup {<<"prime_fd", 0>>}
           l10 == l9 \cup {<<"prime_fd", 0>>}
           n11 == n10 \cup {<<"vk_image", 0>>}
           l11 == l10 \cup {<<"vk_image", 0>>}
           n12 == n11 \cup {<<"image_view", 0>>}
           l12 == l11 \cup {<<"image_view", 0>>}
           n13 == n12 \cup {<<"framebuffer", 0>>}
           l13 == l12 \cup {<<"framebuffer", 0>>}
           n14 == n13 \cup {<<"cmd_buf", 0>>}
           l14 == l13 \cup {<<"cmd_buf", 0>>}
           n15 == n14 \cup {<<"bo", 1>>}
           l15 == l14 \cup {<<"bo", 1>>}
           n16 == n15 \cup {<<"id", 1>>}
           l16 == l15 \cup {<<"id", 1>>}
           n17 == n16 \cup {<<"prime_fd", 1>>}
           l17 == l16 \cup {<<"prime_fd", 1>>}
           n18 == n17 \cup {<<"vk_image", 1>>}
           l18 == l17 \cup {<<"vk_image", 1>>}
           n19 == n18 \cup {<<"image_view", 1>>}
           l19 == l18 \cup {<<"image_view", 1>>}
           n20 == n19 \cup {<<"framebuffer", 1>>}
           l20 == l19 \cup {<<"framebuffer", 1>>}
           n21 == n20 \cup {<<"cmd_buf", 1>>}
           l21 == l20 \cup {<<"cmd_buf", 1>>}
<1>0. Plain(p) /\ Fatal(p) = {}
  BY DEF Plain, Fatal
<1>f1. /\ <<"gbm", 0>> \notin l1
       /\ <<"connector", 0>> \notin l2
       /\ <<"instance", 0>> \notin l3
       /\ <<"device", 0>> \notin l4
  OBVIOUS
<1>f2. /\ <<"cmd_pool", 0>> \notin l5
       /\ <<"pass", 0>> \notin l6
       /\ <<"bo", 0>> \notin l7
       /\ <<"id", 0>> \notin l8
  OBVIOUS
<1>f3. /\ <<"prime_fd", 0>> \notin l9
       /\ <<"vk_image", 0>> \notin l10
       /\ <<"image_view", 0>> \notin l11
       /\ <<"framebuffer", 0>> \notin l12
  OBVIOUS
<1>f4. /\ <<"cmd_buf", 0>> \notin l13
       /\ <<"bo", 1>> \notin l14
       /\ <<"id", 1>> \notin l15
       /\ <<"prime_fd", 1>> \notin l16
  OBVIOUS
<1>f5. /\ <<"vk_image", 1>> \notin l17
       /\ <<"image_view", 1>> \notin l18
       /\ <<"framebuffer", 1>> \notin l19
       /\ <<"cmd_buf", 1>> \notin l20
  OBVIOUS
<1> HIDE DEF n1, l1, n2, l2, n3, l3, n4, l4, n5, l5, n6, l6, n7, l7, n8, l8,
              n9, l9, n10, l10, n11, l11, n12, l12, n13, l13, n14,
              l14, n15, l15, n16, l16, n17, l17, n18, l18, n19,
              l19, n20, l20, n21, l21
<1>1. Leads(p, Calm({}, "none", {}), Take("card", 0, Return1), Calm(n1,
         "none", l1))
  BY <1>0, CalmTake DEF n1, l1
<1>2. Leads(p, Calm(n1, "none", l1), Take("gbm", 0, Return1), Calm(n2, "none",
         l2))
  BY <1>f1, <1>0, CalmTake DEF n2, l2
<1>3. Leads(p, Calm(n2, "none", l2), Call("pipe", 0, Return1), Calm(n2,
         "none", l2))
  BY <1>0, CalmCall
<1>4. Leads(p, Calm(n2, "none", l2), Take("connector", 0, Return1), Calm(n3,
         "none", l3))
  BY <1>f1, <1>0, CalmTake DEF n3, l3
<1>5. Leads(p, Calm(n3, "none", l3), Take("instance", 0, Return1), Calm(n4,
         "none", l4))
  BY <1>f1, <1>0, CalmTake DEF n4, l4
<1>6. Leads(p, Calm(n4, "none", l4), Call("physical_device", 0, Return1),
         Calm(n4, "none", l4))
  BY <1>0, CalmCall
<1>7. Leads(p, Calm(n4, "none", l4), Call("queue_family", 0, Return1),
         Calm(n4, "none", l4))
  BY <1>0, CalmCall
<1>8. Leads(p, Calm(n4, "none", l4), Take("device", 0, Return1), Calm(n5,
         "none", l5))
  BY <1>f1, <1>0, CalmTake DEF n5, l5
<1>9. Leads(p, Calm(n5, "none", l5), Call("create_image_proc", 0, Return1),
         Calm(n5, "none", l5))
  BY <1>0, CalmCall
<1>10. Leads(p, Calm(n5, "none", l5), Take("cmd_pool", 0, Return1), Calm(n6,
          "none", l6))
  BY <1>f2, <1>0, CalmTake DEF n6, l6
<1>11. Leads(p, Calm(n6, "none", l6), Take("pass", 0, Return1), Calm(n7,
          "none", l7))
  BY <1>f2, <1>0, CalmTake DEF n7, l7
<1>12. Leads(p, Calm(n7, "none", l7), Take("bo", 0, Return1), Calm(n8, "none",
          l8))
  BY <1>f2, <1>0, CalmTake DEF n8, l8
<1>13. Leads(p, Calm(n8, "none", l8), Take("id", 0, Return1), Calm(n9, "none",
          l9))
  BY <1>f2, <1>0, CalmTake DEF n9, l9
<1>14. Leads(p, Calm(n9, "none", l9), Take("prime_fd", 0, Return1), Calm(n10,
          "none", l10))
  BY <1>f3, <1>0, CalmTake DEF n10, l10
<1>15. Leads(p, Calm(n10, "none", l10), Take("vk_image", 0, Return1),
          Calm(n11, "none", l11))
  BY <1>f3, <1>0, CalmTake DEF n11, l11
<1>16. Leads(p, Calm(n11, "none", l11), Take("image_view", 0, Return1),
          Calm(n12, "none", l12))
  BY <1>f3, <1>0, CalmTake DEF n12, l12
<1>17. Leads(p, Calm(n12, "none", l12), Take("framebuffer", 0, Return1),
          Calm(n13, "none", l13))
  BY <1>f3, <1>0, CalmTake DEF n13, l13
<1>18. Leads(p, Calm(n13, "none", l13), Take("cmd_buf", 0, Return1), Calm(n14,
          "none", l14))
  BY <1>f4, <1>0, CalmTake DEF n14, l14
<1>19. Leads(p, Calm(n14, "none", l14), Take("bo", 1, Return1), Calm(n15,
          "none", l15))
  BY <1>f4, <1>0, CalmTake DEF n15, l15
<1>20. Leads(p, Calm(n15, "none", l15), Take("id", 1, Return1), Calm(n16,
          "none", l16))
  BY <1>f4, <1>0, CalmTake DEF n16, l16
<1>21. Leads(p, Calm(n16, "none", l16), Take("prime_fd", 1, Return1),
          Calm(n17, "none", l17))
  BY <1>f4, <1>0, CalmTake DEF n17, l17
<1>22. Leads(p, Calm(n17, "none", l17), Take("vk_image", 1, Return1),
          Calm(n18, "none", l18))
  BY <1>f5, <1>0, CalmTake DEF n18, l18
<1>23. Leads(p, Calm(n18, "none", l18), Take("image_view", 1, Return1),
          Calm(n19, "none", l19))
  BY <1>f5, <1>0, CalmTake DEF n19, l19
<1>24. Leads(p, Calm(n19, "none", l19), Take("framebuffer", 1, Return1),
          Calm(n20, "none", l20))
  BY <1>f5, <1>0, CalmTake DEF n20, l20
<1>25. Leads(p, Calm(n20, "none", l20), Take("cmd_buf", 1, Return1), Calm(n21,
          "none", l21))
  BY <1>f5, <1>0, CalmTake DEF n21, l21
<1>26. Leads(p, Calm(n21, "none", l21), Call("set_crtc", 0, Return1),
          Calm(n21, "none", l21))
  BY <1>0, CalmCall
<1>27. Leads(p, Calm(n21, "none", l21), Call("draw", 1, Return1), Calm(n21,
          "none", l21))
  BY <1>0, CalmCall
<1>28. Leads(p, Calm(n21, "none", l21), Call("finish", 1, Return1), Calm(n21,
          "none", l21))
  BY <1>0, CalmCall
<1>29. Leads(p, Calm(n21, "none", l21), Call("flip", 1, Return1), Calm(n21,
          "none", l21))
  BY <1>0, CalmCall
<1>30. Leads(p, Calm(n21, "none", l21), Call("wait", 1, Return1), Calm(n21,
          "none", l21))
  BY <1>0, CalmCall
<1>31. Leads(p, Calm(n21, "none", l21), Return(0), State(n21, {}, {}, 0, 0,
          "none", l21, {}))
  BY CalmReturn
<1> DEFINE s1 == Take("bo", 0, Return1) \o Take("id", 0, Return1) \o
             Take("prime_fd", 0, Return1) \o Take("vk_image", 0, Return1) \o
             Take("image_view", 0, Return1) \o Take("framebuffer", 0, Return1)
             \o Take("cmd_buf", 0, Return1)
           s2 == Take("bo", 1, Return1) \o Take("id", 1, Return1) \o
             Take("prime_fd", 1, Return1) \o Take("vk_image", 1, Return1) \o
             Take("image_view", 1, Return1) \o Take("framebuffer", 1, Return1)
             \o Take("cmd_buf", 1, Return1)
           t3 == Twice([k \in Buffers |-> Take("bo", k, Return1) \o
             Take("id", k, Return1) \o Take("prime_fd", k, Return1) \o
             Take("vk_image", k, Return1) \o Take("image_view", k, Return1) \o
             Take("framebuffer", k, Return1) \o Take("cmd_buf", k, Return1)])
           s3 == s1 \o s2
           s4 == Take("card", 0, Return1) \o Take("gbm", 0, Return1) \o
             Call("pipe", 0, Return1) \o Take("connector", 0, Return1) \o
             Take("instance", 0, Return1) \o Call("physical_device", 0,
             Return1) \o Call("queue_family", 0, Return1) \o Take("device", 0,
             Return1)
           s5 == s4 \o Call("create_image_proc", 0, Return1) \o
             Take("cmd_pool", 0, Return1) \o Take("pass", 0, Return1) \o t3 \o
             Call("set_crtc", 0, Return1) \o Call("draw", 1, Return1) \o
             Call("finish", 1, Return1)
           s6 == s5 \o Call("flip", 1, Return1) \o Call("wait", 1, Return1)
             \o Return(0)
<1>32. Leads(p, Calm(n7, "none", l7), s1, Calm(n14, "none", l14))
  BY <1>12, <1>13, <1>14, <1>15, <1>16, <1>17, <1>18, Compose7
<1>33. Leads(p, Calm(n14, "none", l14), s2, Calm(n21, "none", l21))
  BY <1>19, <1>20, <1>21, <1>22, <1>23, <1>24, <1>25, Compose7
<1>34. Leads(p, Calm(n7, "none", l7), s3, Calm(n21, "none", l21))
  BY <1>32, <1>33, Compose
<1>35. t3 = s3
  BY SMTT(30) DEF Twice, Buffers
<1>36. Leads(p, Calm(n7, "none", l7), t3, Calm(n21, "none", l21))
  BY <1>34, <1>35
<1>37. Leads(p, Calm({}, "none", {}), s4, Calm(n5, "none", l5))
  BY <1>1, <1>2, <1>3, <1>4, <1>5, <1>6, <1>7, <1>8, Compose8
<1>38. Leads(p, Calm({}, "none", {}), s5, Calm(n21, "none", l21))
  BY <1>37, <1>9, <1>10, <1>11, <1>36, <1>26, <1>27, <1>28, Compose8
<1>39. Leads(p, Calm({}, "none", {}), s6, State(n21, {}, {}, 0, 0, "none",
          l21, {}))
  BY <1>38, <1>29, <1>30, <1>31, Compose4
<1>40. vk_glow = s6
  BY DEF vk_glow
<1>41. MayEnd(p, State(n21, {}, {}, 0, 0, "none", l21, {}))
  BY DEF MayEnd, Doomed, State, LeftBehind, Hidden, Each, Connector, n1, l1,
     n2, l2, n3, l3, n4, l4, n5, l5, n6, l6, n7, l7, n8, l8, n9, l9, n10, l10,
     n11, l11, n12, l12, n13, l13, n14, l14, n15, l15, n16, l16, n17, l17, n18,
     l18, n19, l19, n20, l20, n21, l21
<1> HIDE DEF s6
<1>42. Fine(p, s6, Calm({}, "none", {}))
  BY <1>39, <1>41, LeadsEnd
<1> QED
  BY <1>40, <1>42 DEF Calm

\* drm_cursor_test.c.
LEMMA CursorFine ==
  Fine("drm_cursor_test", drm_cursor_test, State({}, {}, {}, 1, 0, "none", {}, {}))
<1> DEFINE p == "drm_cursor_test"
           n1 == {} \cup {<<"card", 0>>}
           l1 == {} \cup {<<"card", 0>>}
           n2 == n1 \cup {<<"gbm", 0>>}
           l2 == l1 \cup {<<"gbm", 0>>}
           n3 == n2 \cup {<<"connector", 0>>}
           l3 == l2 \cup {<<"connector", 0>>}
           n4 == n3 \cup {<<"bo", 0>>}
           l4 == l3 \cup {<<"bo", 0>>}
           n5 == n4 \cup {<<"mapper", 0>>}
           l5 == l4 \cup {<<"mapper", 0>>}
           n6 == n5 \cup {<<"map", 0>>}
           l6 == l5 \cup {<<"map", 0>>}
           l7 == l6 \ {<<"map", 0>>}
           n7 == n6 \cup {<<"id", 0>>}
           l8 == l7 \cup {<<"id", 0>>}
           n8 == n7 \cup {<<"bo", 1>>}
           l9 == l8 \cup {<<"bo", 1>>}
           l10 == l9 \ {<<"mapper", 0>>}
           l11 == l10 \ {<<"id", 0>>}
           l12 == l11 \ {<<"bo", 0>>}
           l13 == l12 \ {<<"bo", 1>>}
           l14 == l13 \ {<<"gbm", 0>>}
           l15 == l14 \ {<<"card", 0>>}
<1>0. Plain(p) /\ Fatal(p) = {<<"connector", 0>>}
  BY DEF Plain, Fatal, Connector
<1>f1. /\ <<"gbm", 0>> \notin l1
       /\ <<"connector", 0>> \notin l2
       /\ <<"bo", 0>> \notin l3
       /\ <<"map", 0>> \notin l5
  OBVIOUS
<1>f2. /\ <<"map", 0>> \in l6
       /\ <<"map", 0>> \in n6
       /\ <<"id", 0>> \notin l7
       /\ <<"bo", 1>> \notin l8
  OBVIOUS
<1>f3. /\ <<"mapper", 0>> \in l9
       /\ <<"mapper", 0>> \in n8
       /\ <<"id", 0>> \in n8
       /\ <<"bo", 0>> \in l11
  OBVIOUS
<1>f4. /\ <<"bo", 0>> \in n8
       /\ <<"bo", 1>> \in l12
       /\ <<"bo", 1>> \in n8
       /\ <<"gbm", 0>> \in l13
  OBVIOUS
<1>f5. /\ <<"gbm", 0>> \in n8
       /\ \A y \in l13 : y[1] # "bo"
       /\ <<"card", 0>> \in l14
       /\ <<"card", 0>> \in n8
  OBVIOUS
<1> HIDE DEF n1, l1, n2, l2, n3, l3, n4, l4, n5, l5, n6, l6, l7, n7, l8, n8,
              l9, l10, l11, l12, l13, l14, l15
<1>1. Leads(p, Calm({}, "none", {}), Take("card", 0, Return1), Calm(n1,
         "none", l1))
  BY <1>0, CalmTake DEF n1, l1
<1>2. Leads(p, Calm(n1, "none", l1), Take("gbm", 0, Return1), Calm(n2, "none",
         l2))
  BY <1>f1, <1>0, CalmTake DEF n2, l2
<1>3. Leads(p, Calm(n2, "none", l2), Call("pipe", 0, Return1), Calm(n2,
         "none", l2))
  BY <1>0, CalmCall
<1>4. Leads(p, Calm(n2, "none", l2), Take("connector", 0, Crash), Calm(n3,
         "none", l3))
  BY <1>f1, <1>0, CalmTakeCrash DEF n3, l3
<1>5. Leads(p, Calm(n3, "none", l3), Call("move_cursor", 0, Return1), Calm(n3,
         "none", l3))
  BY <1>0, CalmCall
<1>6. Leads(p, Calm(n3, "none", l3), Take("bo", 0, Return1), Calm(n4, "none",
         l4))
  BY <1>f1, <1>0, CalmTake DEF n4, l4
<1>7. Leads(p, Calm(n4, "none", l4), Make("mapper", 0), Calm(n5, "none", l5))
  BY CalmMake DEF n5, l5
<1>8. Leads(p, Calm(n5, "none", l5), Take("map", 0, Return1), Calm(n6, "none",
         l6))
  BY <1>f1, <1>0, CalmTake DEF n6, l6
<1>9. Leads(p, Calm(n6, "none", l6), Give("map", 0), Calm(n6, "none", l7))
  BY <1>f2, CalmGive DEF ClearedKinds, AssertedKinds, l7
<1>10. Leads(p, Calm(n6, "none", l7), Take("id", 0, Return1), Calm(n7, "none",
          l8))
  BY <1>f2, <1>0, CalmTake DEF n7, l8
<1>11. Leads(p, Calm(n7, "none", l8), Call("set_crtc", 0, Return1), Calm(n7,
          "none", l8))
  BY <1>0, CalmCall
<1>12. Leads(p, Calm(n7, "none", l8), Take("bo", 1, Return1), Calm(n8, "none",
          l9))
  BY <1>f2, <1>0, CalmTake DEF n8, l9
<1>13. Leads(p, Calm(n8, "none", l9), Call("draw", 1, Return1), Calm(n8,
          "none", l9))
  BY <1>0, CalmCall
<1>14. Leads(p, Calm(n8, "none", l9), Call("set_cursor", 1, Return1), Calm(n8,
          "none", l9))
  BY <1>0, CalmCall
<1>15. Leads(p, Calm(n8, "none", l9), Call("move_cursor", 1, Return1),
          Calm(n8, "none", l9))
  BY <1>0, CalmCall
<1>16. Leads(p, Calm(n8, "none", l9), Give("mapper", 0), Calm(n8, "none",
          l10))
  BY <1>f3, CalmGive DEF ClearedKinds, AssertedKinds, l10
<1>17. Leads(p, Calm(n8, "none", l10), Give("id", 0), Calm(n8, "none", l11))
  BY <1>f3, CalmGiveIgnored DEF IgnoredKinds, l11
<1>18. Leads(p, Calm(n8, "none", l11), Give("bo", 0), Calm(n8, "none", l12))
  BY <1>f3, <1>f4, CalmGive DEF ClearedKinds, AssertedKinds, l12
<1>19. Leads(p, Calm(n8, "none", l12), Give("bo", 1), Calm(n8, "none", l13))
  BY <1>f4, CalmGive DEF ClearedKinds, AssertedKinds, l13
<1>20. Leads(p, Calm(n8, "none", l13), Give("gbm", 0), Calm(n8, "none", l14))
  BY <1>f4, <1>f5, CalmGive DEF ClearedKinds, AssertedKinds, l14
<1>21. Leads(p, Calm(n8, "none", l14), Give("card", 0), Calm(n8, "none", l15))
  BY <1>f5, CalmGive DEF ClearedKinds, AssertedKinds, l15
<1>22. Leads(p, Calm(n8, "none", l15), Return(0), State(n8, {}, {}, 0, 0,
          "none", l15, {}))
  BY CalmReturn
<1> DEFINE s1 == Take("card", 0, Return1) \o Take("gbm", 0, Return1) \o
             Call("pipe", 0, Return1) \o Take("connector", 0, Crash)
           s2 == open_display \o Call("move_cursor", 0, Return1) \o
             Take("bo", 0, Return1) \o Make("mapper", 0) \o Take("map", 0,
             Return1) \o Give("map", 0) \o Take("id", 0, Return1) \o
             Call("set_crtc", 0, Return1)
           s3 == s2 \o Take("bo", 1, Return1) \o Call("draw", 1, Return1) \o
             Call("set_cursor", 1, Return1) \o Call("move_cursor", 1, Return1)
             \o Give("mapper", 0) \o Give("id", 0) \o Give("bo", 0)
           s4 == s3 \o Give("bo", 1) \o Give("gbm", 0) \o Give("card", 0) \o
             Return(0)
<1>23. Leads(p, Calm({}, "none", {}), s1, Calm(n3, "none", l3))
  BY <1>1, <1>2, <1>3, <1>4, Compose4
<1>24. open_display = s1
  BY DEF open_display
<1>25. Leads(p, Calm({}, "none", {}), open_display, Calm(n3, "none", l3))
  BY <1>23, <1>24
<1>26. Leads(p, Calm({}, "none", {}), s2, Calm(n7, "none", l8))
  BY <1>25, <1>5, <1>6, <1>7, <1>8, <1>9, <1>10, <1>11, Compose8
<1>27. Leads(p, Calm({}, "none", {}), s3, Calm(n8, "none", l12))
  BY <1>26, <1>12, <1>13, <1>14, <1>15, <1>16, <1>17, <1>18, Compose8
<1>28. Leads(p, Calm({}, "none", {}), s4, State(n8, {}, {}, 0, 0, "none", l15,
          {}))
  BY <1>27, <1>19, <1>20, <1>21, <1>22, Compose5
<1>29. drm_cursor_test = s4
  BY DEF drm_cursor_test
<1>30. MayEnd(p, State(n8, {}, {}, 0, 0, "none", l15, {}))
  BY DEF MayEnd, Doomed, State, LeftBehind, Hidden, Each, Connector, n1, l1,
     n2, l2, n3, l3, n4, l4, n5, l5, n6, l6, l7, n7, l8, n8, l9, l10, l11, l12,
     l13, l14, l15
<1> HIDE DEF s4
<1>31. Fine(p, s4, Calm({}, "none", {}))
  BY <1>28, <1>30, LeadsEnd
<1> QED
  BY <1>29, <1>31 DEF Calm

\* null_platform_test.c.
LEMMA NullPlatformFine ==
  Fine("null_platform_test", null_platform_test, State({}, {}, {}, 1, 0, "none", {}, {}))
<1> DEFINE p == "null_platform_test"
           n1 == {} \cup {<<"card", 0>>}
           l1 == {} \cup {<<"card", 0>>}
           n2 == n1 \cup {<<"gbm", 0>>}
           l2 == l1 \cup {<<"gbm", 0>>}
           n3 == n2 \cup {<<"connector", 0>>}
           l3 == l2 \cup {<<"connector", 0>>}
           l4 == l3 \cup {Display, Context}
           n4 == n3 \cup {<<"bo", 0>>}
           l5 == l4 \cup {<<"bo", 0>>}
           n5 == n4 \cup {<<"id", 0>>}
           l6 == l5 \cup {<<"id", 0>>}
           n6 == n5 \cup {<<"image", 0>>}
           l7 == l6 \cup {<<"image", 0>>}
           n7 == n6 \cup {<<"egl_fb", 0>>}
           l8 == l7 \cup {<<"egl_fb", 0>>}
           n8 == n7 \cup {<<"bo", 1>>}
           l9 == l8 \cup {<<"bo", 1>>}
           n9 == n8 \cup {<<"id", 1>>}
           l10 == l9 \cup {<<"id", 1>>}
           n10 == n9 \cup {<<"image", 1>>}
           l11 == l10 \cup {<<"image", 1>>}
           n11 == n10 \cup {<<"egl_fb", 1>>}
           l12 == l11 \cup {<<"egl_fb", 1>>}
           n12 == n11 \cup {<<"program", 0>>} \cup {<<"shader", 0>>} \cup
             {<<"shader", 1>>}
           l13 == l12 \cup {<<"program", 0>>}
           n13 == n12 \ {<<"egl_fb", 0>>}
           l14 == l13 \ {<<"egl_fb", 0>>}
           n14 == n13 \ {<<"image", 0>>}
           l15 == l14 \ {<<"image", 0>>}
           l16 == l15 \ {<<"id", 0>>}
           l17 == l16 \ {<<"bo", 0>>}
           n15 == n14 \ {<<"egl_fb", 1>>}
           l18 == l17 \ {<<"egl_fb", 1>>}
           n16 == n15 \ {<<"image", 1>>}
           l19 == l18 \ {<<"image", 1>>}
           l20 == l19 \ {<<"id", 0>>}
           l21 == l20 \ {<<"bo", 1>>}
           l22 == {<<"card", 0>>, <<"gbm", 0>>, <<"connector", 0>>, <<"id",
             1>>}
           l23 == l22 \ {<<"gbm", 0>>}
           l24 == l23 \ {<<"card", 0>>}
<1>0. /\ Plain(p) /\ Fatal(p) = {<<"connector", 0>>}
      /\ Fatal(p) \cap (SetupPoints \X {0}) = {}
      /\ Fatal(p) \cap GlFailures = {}
  BY DEF Plain, Fatal, Connector, SetupPoints, EarlyPoints, TerminatingPoints,
         LatePoints, GlFailures, GlNames
<1>f1. /\ <<"gbm", 0>> \notin l1
       /\ <<"connector", 0>> \notin l2
       /\ <<"bo", 0>> \notin l4
       /\ <<"id", 0>> \notin l5
  BY DEF Terminated, GlKinds, Display, Context, GlNames
<1>f2. /\ <<"image", 0>> \notin l6
       /\ <<"egl_fb", 0>> \notin l7
       /\ <<"bo", 1>> \notin l8
       /\ <<"id", 1>> \notin l9
  BY DEF Terminated, GlKinds, Display, Context, GlNames
<1>f3. /\ <<"image", 1>> \notin l10
       /\ <<"egl_fb", 1>> \notin l11
       /\ GlNames \cap l12 = {}
       /\ <<"egl_fb", 0>> \in l13
  BY DEF Terminated, GlKinds, Display, Context, GlNames
<1>f4. /\ <<"egl_fb", 0>> \in n12
       /\ <<"image", 0>> \in l14
       /\ <<"image", 0>> \in n13
       /\ <<"id", 0>> \in n14
  BY DEF Terminated, GlKinds, Display, Context, GlNames
<1>f5. /\ <<"bo", 0>> \in l16
       /\ <<"bo", 0>> \in n14
       /\ <<"egl_fb", 1>> \in l17
       /\ <<"egl_fb", 1>> \in n14
  BY DEF Terminated, GlKinds, Display, Context, GlNames
<1>f6. /\ <<"image", 1>> \in l18
       /\ <<"image", 1>> \in n15
       /\ <<"id", 0>> \in n16
       /\ <<"bo", 1>> \in l20
  BY DEF Terminated, GlKinds, Display, Context, GlNames
<1>f7. /\ <<"bo", 1>> \in n16
       /\ Context \in l21
       /\ Terminated(l21) = l22
       /\ <<"gbm", 0>> \in l22
  BY DEF Terminated, GlKinds, Display, Context, GlNames
<1>f8. /\ <<"gbm", 0>> \in n16
       /\ \A y \in l22 : y[1] # "bo"
       /\ <<"card", 0>> \in l23
       /\ <<"card", 0>> \in n16
  BY DEF Terminated, GlKinds, Display, Context, GlNames
<1> HIDE DEF n1, l1, n2, l2, n3, l3, l4, n4, l5, n5, l6, n6, l7, n7, l8, n8,
              l9, n9, l10, n10, l11, n11, l12, n12, l13, n13, l14,
              n14, l15, l16, l17, n15, l18, n16, l19, l20, l21,
              l22, l23, l24
<1>1. Leads(p, Calm({}, "none", {}), Take("card", 0, Return1), Calm(n1,
         "none", l1))
  BY <1>0, CalmTake DEF n1, l1
<1>2. Leads(p, Calm(n1, "none", l1), Take("gbm", 0, Return1), Calm(n2, "none",
         l2))
  BY <1>f1, <1>0, CalmTake DEF n2, l2
<1>3. Leads(p, Calm(n2, "none", l2), Call("pipe", 0, Return1), Calm(n2,
         "none", l2))
  BY <1>0, CalmCall
<1>4. Leads(p, Calm(n2, "none", l2), Take("connector", 0, Crash), Calm(n3,
         "none", l3))
  BY <1>f1, <1>0, CalmTakeCrash DEF n3, l3
<1>5. Leads(p, Calm(n3, "none", l3), Run("egl_new", 0), Calm(n3, "new", l3))
  BY CalmEglNew
<1>6. Leads(p, Calm(n3, "new", l3), Call("egl_setup", 0, Return1), Calm(n3,
         "ready", l4))
  BY <1>0, CalmSetup DEF l4
<1>7. Leads(p, Calm(n3, "ready", l4), Take("bo", 0, Return1), Calm(n4,
         "ready", l5))
  BY <1>f1, <1>0, CalmTake DEF n4, l5
<1>8. Leads(p, Calm(n4, "ready", l5), Take("id", 0, Return1), Calm(n5,
         "ready", l6))
  BY <1>f1, <1>0, CalmTake DEF n5, l6
<1>9. Leads(p, Calm(n5, "ready", l6), Take("image", 0, Return1), Calm(n6,
         "ready", l7))
  BY <1>f2, <1>0, CalmTake DEF n6, l7
<1>10. Leads(p, Calm(n6, "ready", l7), Take("egl_fb", 0, Return1), Calm(n7,
          "ready", l8))
  BY <1>f2, <1>0, CalmTake DEF n7, l8
<1>11. Leads(p, Calm(n7, "ready", l8), Take("bo", 1, Return1), Calm(n8,
          "ready", l9))
  BY <1>f2, <1>0, CalmTake DEF n8, l9
<1>12. Leads(p, Calm(n8, "ready", l9), Take("id", 1, Return1), Calm(n9,
          "ready", l10))
  BY <1>f2, <1>0, CalmTake DEF n9, l10
<1>13. Leads(p, Calm(n9, "ready", l10), Take("image", 1, Return1), Calm(n10,
          "ready", l11))
  BY <1>f3, <1>0, CalmTake DEF n10, l11
<1>14. Leads(p, Calm(n10, "ready", l11), Take("egl_fb", 1, Return1), Calm(n11,
          "ready", l12))
  BY <1>f3, <1>0, CalmTake DEF n11, l12
<1>15. Leads(p, Calm(n11, "ready", l12), Call("set_crtc", 0, Return1),
          Calm(n11, "ready", l12))
  BY <1>0, CalmCall
<1>16. Leads(p, Calm(n11, "ready", l12), program_create(Return1), Calm(n12,
          "ready", l13))
  BY <1>f3, <1>0, CalmProgram DEF n12, l13
<1>17. Leads(p, Calm(n12, "ready", l13), Call("flush", 1, Return1), Calm(n12,
          "ready", l13))
  BY <1>0, CalmCall
<1>18. Leads(p, Calm(n12, "ready", l13), Call("flip", 1, Return1), Calm(n12,
          "ready", l13))
  BY <1>0, CalmCall
<1>19. Leads(p, Calm(n12, "ready", l13), Call("wait", 1, Return1), Calm(n12,
          "ready", l13))
  BY <1>0, CalmCall
<1>20. Leads(p, Calm(n12, "ready", l13), Give("egl_fb", 0), Calm(n13, "ready",
          l14))
  BY <1>f3, <1>f4, CalmGive DEF ClearedKinds, AssertedKinds, n13, l14
<1>21. Leads(p, Calm(n13, "ready", l14), Give("image", 0), Calm(n14, "ready",
          l15))
  BY <1>f4, CalmGive DEF ClearedKinds, AssertedKinds, n14, l15
<1>22. Leads(p, Calm(n14, "ready", l15), Give("id", 0), Calm(n14, "ready",
          l16))
  BY <1>f4, CalmGiveIgnored DEF IgnoredKinds, l16
<1>23. Leads(p, Calm(n14, "ready", l16), Give("bo", 0), Calm(n14, "ready",
          l17))
  BY <1>f5, CalmGive DEF ClearedKinds, AssertedKinds, l17
<1>24. Leads(p, Calm(n14, "ready", l17), Give("egl_fb", 1), Calm(n15, "ready",
          l18))
  BY <1>f5, CalmGive DEF ClearedKinds, AssertedKinds, n15, l18
<1>25. Leads(p, Calm(n15, "ready", l18), Give("image", 1), Calm(n16, "ready",
          l19))
  BY <1>f6, CalmGive DEF ClearedKinds, AssertedKinds, n16, l19
<1>26. Leads(p, Calm(n16, "ready", l19), Give("id", 0), Calm(n16, "ready",
          l20))
  BY <1>f6, CalmGiveIgnored DEF IgnoredKinds, l20
<1>27. Leads(p, Calm(n16, "ready", l20), Give("bo", 1), Calm(n16, "ready",
          l21))
  BY <1>f6, <1>f7, CalmGive DEF ClearedKinds, AssertedKinds, l21
<1>28. Leads(p, Calm(n16, "ready", l21), Run("egl_destroy", 0), Calm(n16,
          "none", l22))
  BY <1>f7, CalmEglDestroy
<1>29. Leads(p, Calm(n16, "none", l22), Give("gbm", 0), Calm(n16, "none",
          l23))
  BY <1>f7, <1>f8, CalmGive DEF ClearedKinds, AssertedKinds, l23
<1>30. Leads(p, Calm(n16, "none", l23), Give("card", 0), Calm(n16, "none",
          l24))
  BY <1>f8, CalmGive DEF ClearedKinds, AssertedKinds, l24
<1>31. Leads(p, Calm(n16, "none", l24), Return(0), State(n16, {}, {}, 0, 0,
          "none", l24, {}))
  BY CalmReturn
<1> DEFINE s1 == Take("card", 0, Return1) \o Take("gbm", 0, Return1) \o
             Call("pipe", 0, Return1) \o Take("connector", 0, Crash)
           s2 == Take("bo", 0, Return1) \o Take("id", 0, Return1) \o
             Take("image", 0, Return1) \o Take("egl_fb", 0, Return1)
           s3 == Take("bo", 1, Return1) \o Take("id", 1, Return1) \o
             Take("image", 1, Return1) \o Take("egl_fb", 1, Return1)
           t4 == Twice([k \in Buffers |-> Take("bo", k, Return1) \o
             Take("id", k, Return1) \o Take("image", k, Return1) \o
             Take("egl_fb", k, Return1)])
           s4 == s2 \o s3
           s5 == Give("egl_fb", 0) \o Give("image", 0) \o Give("id", 0) \o
             Give("bo", 0)
           s6 == Give("egl_fb", 1) \o Give("image", 1) \o Give("id", 0) \o
             Give("bo", 1)
           t5 == Twice([k \in Buffers |-> Give("egl_fb", k) \o Give("image",
             k) \o Give("id", 0) \o Give("bo", k)])
           s7 == s5 \o s6
           s8 == open_display \o Run("egl_new", 0) \o Call("egl_setup", 0,
             Return1) \o t4 \o Call("set_crtc", 0, Return1) \o
             program_create(Return1) \o Call("flush", 1, Return1) \o
             Call("flip", 1, Return1)
           s9 == s8 \o Call("wait", 1, Return1) \o t5 \o Run("egl_destroy",
             0) \o Give("gbm", 0) \o Give("card", 0) \o Return(0)
<1>32. Leads(p, Calm({}, "none", {}), s1, Calm(n3, "none", l3))
  BY <1>1, <1>2, <1>3, <1>4, Compose4
<1>33. open_display = s1
  BY DEF open_display
<1>34. Leads(p, Calm({}, "none", {}), open_display, Calm(n3, "none", l3))
  BY <1>32, <1>33
<1>35. Leads(p, Calm(n3, "ready", l4), s2, Calm(n7, "ready", l8))
  BY <1>7, <1>8, <1>9, <1>10, Compose4
<1>36. Leads(p, Calm(n7, "ready", l8), s3, Calm(n11, "ready", l12))
  BY <1>11, <1>12, <1>13, <1>14, Compose4
<1>37. Leads(p, Calm(n3, "ready", l4), s4, Calm(n11, "ready", l12))
  BY <1>35, <1>36, Compose
<1>38. t4 = s4
  BY DEF Twice, Buffers
<1>39. Leads(p, Calm(n3, "ready", l4), t4, Calm(n11, "ready", l12))
  BY <1>37, <1>38
<1>40. Leads(p, Calm(n12, "ready", l13), s5, Calm(n14, "ready", l17))
  BY <1>20, <1>21, <1>22, <1>23, Compose4
<1>41. Leads(p, Calm(n14, "ready", l17), s6, Calm(n16, "ready", l21))
  BY <1>24, <1>25, <1>26, <1>27, Compose4
<1>42. Leads(p, Calm(n12, "ready", l13), s7, Calm(n16, "ready", l21))
  BY <1>40, <1>41, Compose
<1>43. t5 = s7
  BY DEF Twice, Buffers
<1>44. Leads(p, Calm(n12, "ready", l13), t5, Calm(n16, "ready", l21))
  BY <1>42, <1>43
<1>45. Leads(p, Calm({}, "none", {}), s8, Calm(n12, "ready", l13))
  BY <1>34, <1>5, <1>6, <1>39, <1>15, <1>16, <1>17, <1>18, Compose8
<1>46. Leads(p, Calm({}, "none", {}), s9, State(n16, {}, {}, 0, 0, "none",
          l24, {}))
  BY <1>45, <1>19, <1>44, <1>28, <1>29, <1>30, <1>31, Compose7
<1>47. null_platform_test = s9
  BY DEF null_platform_test
<1>48. MayEnd(p, State(n16, {}, {}, 0, 0, "none", l24, {}))
  BY DEF MayEnd, Doomed, State, LeftBehind, Hidden, Each, Connector, n1, l1,
     n2, l2, n3, l3, l4, n4, l5, n5, l6, n6, l7, n7, l8, n8, l9, n9, l10, n10,
     l11, n11, l12, n12, l13, n13, l14, n14, l15, l16, l17, n15, l18, n16, l19,
     l20, l21, l22, l23, l24
<1> HIDE DEF s9
<1>49. Fine(p, s9, Calm({}, "none", {}))
  BY <1>46, <1>48, LeadsEnd
<1> QED
  BY <1>47, <1>49 DEF Calm

\* vgem_test's two labels.
close_vgem_fd == Return(1) \o Give("card", 0)
close_dumb_fd == Return(1) \o Give("card", 1) \o Give("card", 0)

LEMMA CloseVgemFine ==
  ASSUME NEW o, o \notin Fatal("vgem_test"), NEW n, NEW l,
         <<"card", 0>> \in l, <<"card", 0>> \in n
  PROVE  Fine("vgem_test", close_vgem_fd, State(n, {}, {o}, 1, 0, "none", l, {}))
<1> DEFINE p == "vgem_test"
           e(v) == State(n, {}, {o}, 1, 0, "none", v, {})
<1>1. Leads(p, e(l), Return(1), e(l))
  BY GoReturn
<1>2. Leads(p, e(l), Give("card", 0), e(l \ {<<"card", 0>>}))
  BY GoGive DEF ClearedKinds, AssertedKinds
<1>3. MayEnd(p, e(l \ {<<"card", 0>>}))
  BY DEF MayEnd, Doomed, State
<1>4. Leads(p, e(l), close_vgem_fd, e(l \ {<<"card", 0>>}))
  BY <1>1, <1>2, Compose DEF close_vgem_fd
<1> QED
  BY <1>3, <1>4, LeadsEnd

LEMMA CloseDumbFine ==
  ASSUME NEW o, o \notin Fatal("vgem_test"), NEW n, NEW l,
         <<"card", 0>> \in l, <<"card", 0>> \in n,
         <<"card", 1>> \in l, <<"card", 1>> \in n
  PROVE  Fine("vgem_test", close_dumb_fd, State(n, {}, {o}, 1, 0, "none", l, {}))
<1> DEFINE p == "vgem_test"
           e(v) == State(n, {}, {o}, 1, 0, "none", v, {})
           l1 == l \ {<<"card", 1>>}
           l2 == l1 \ {<<"card", 0>>}
<1>3. <<"card", 0>> \in l1
  OBVIOUS
<1> HIDE DEF l1, l2
<1>1. Leads(p, e(l), Return(1), e(l))
  BY GoReturn
<1>2. Leads(p, e(l), Give("card", 1), e(l1))
  <2>1. "card" \notin ClearedKinds
    BY DEF ClearedKinds, AssertedKinds
  <2>2. Leads(p, e(l), Give("card", 1), e(l \ {<<"card", 1>>}))
    BY <2>1, GoGive
  <2> QED
    BY <2>2 DEF l1
<1>4. Leads(p, e(l1), Give("card", 0), e(l2))
  BY <1>3, GoGive DEF ClearedKinds, AssertedKinds, l2
<1>5. MayEnd(p, e(l2))
  BY DEF MayEnd, Doomed, State
<1>6. Leads(p, e(l), close_dumb_fd, e(l2))
  BY <1>1, <1>2, <1>4, Compose3 DEF close_dumb_fd
<1> QED
  BY <1>5, <1>6, LeadsEnd

LEMMA VgemTake ==
  ASSUME NEW p, p = "vgem_test", NEW kind, NEW i, NEW n, NEW l,
         <<kind, i>> \notin l \cup Fatal(p), kind \notin {"image", "egl_setup"},
         <<"card", 0>> \in l, <<"card", 0>> \in n
  PROVE  /\ Leads(p, Calm(n, "none", l), Take(kind, i, close_vgem_fd),
                  Calm(n \cup {<<kind, i>>}, "none", l \cup {<<kind, i>>}))
         /\ <<"card", 1>> \in l /\ <<"card", 1>> \in n =>
              Leads(p, Calm(n, "none", l), Take(kind, i, close_dumb_fd),
                  Calm(n \cup {<<kind, i>>}, "none", l \cup {<<kind, i>>}))
<1> DEFINE o == <<kind, i>>
           m == n \ {o}
<1>1. /\ <<"card", 0>> \in m
      /\ <<"card", 1>> \in l /\ <<"card", 1>> \in n => <<"card", 1>> \in m
  OBVIOUS
<1>2. Fine(p, close_vgem_fd, State(m, {}, {o}, 1, 0, "none", l, {}))
  <2> HIDE DEF m, o
  <2> QED
    BY <1>1, CloseVgemFine DEF o
<1>3. <<"card", 1>> \in l /\ <<"card", 1>> \in n =>
        Fine(p, close_dumb_fd, State(m, {}, {o}, 1, 0, "none", l, {}))
  <2> HIDE DEF m, o
  <2> QED
    BY <1>1, CloseDumbFine DEF o
<1> QED
  BY <1>2, <1>3, CalmTakeOr

LEMMA VgemCall ==
  ASSUME NEW p, p = "vgem_test", NEW kind, NEW i, NEW n, NEW l,
         <<kind, i>> \notin Fatal(p), kind # "egl_setup",
         <<"card", 0>> \in l, <<"card", 0>> \in n
  PROVE  Leads(p, Calm(n, "none", l), Call(kind, i, close_vgem_fd),
               Calm(n, "none", l))
<1> DEFINE o == <<kind, i>>
<1>1. Fine(p, close_vgem_fd, State(n, {}, {o}, 1, 0, "none", l, {}))
  <2> HIDE DEF o
  <2> QED
    BY CloseVgemFine DEF o
<1> QED
  BY <1>1, CalmCallOr

\* vgem_test.c.
LEMMA VgemFine ==
  Fine("vgem_test", vgem_test, State({}, {}, {}, 1, 0, "none", {}, {}))
<1> DEFINE p == "vgem_test"
           n1 == {} \cup {<<"card", 0>>}
           l1 == {} \cup {<<"card", 0>>}
           n2 == n1 \cup {<<"dumb", 0>>}
           l2 == l1 \cup {<<"dumb", 0>>}
           n3 == n2 \cup {<<"map", 0>>}
           l3 == l2 \cup {<<"map", 0>>}
           l4 == l3 \ {<<"map", 0>>}
           n4 == n3 \cup {<<"map", 1>>}
           l5 == l4 \cup {<<"map", 1>>}
           l6 == l5 \ {<<"map", 1>>}
           n5 == n4 \cup {<<"prime_fd", 0>>}
           l7 == l6 \cup {<<"prime_fd", 0>>}
           n6 == n5 \cup {<<"map", 2>>}
           l8 == l7 \cup {<<"map", 2>>}
           l9 == l8 \ {<<"map", 2>>}
           n7 == n6 \cup {<<"card", 1>>}
           l10 == l9 \cup {<<"card", 1>>}
           n8 == n7 \cup {<<"dumb", 1>>}
           l11 == l10 \cup {<<"dumb", 1>>}
           n9 == n8 \cup {<<"prime_fd", 1>>}
           l12 == l11 \cup {<<"prime_fd", 1>>}
           n10 == n9 \cup {<<"map", 3>>}
           l13 == l12 \cup {<<"map", 3>>}
           l14 == l13 \ {<<"map", 3>>}
           n11 == n10 \cup {<<"map", 4>>}
           l15 == l14 \cup {<<"map", 4>>}
           l16 == l15 \ {<<"map", 4>>}
           n12 == n11 \cup {<<"map", 5>>}
           l17 == l16 \cup {<<"map", 5>>}
           l18 == l17 \ {<<"map", 5>>}
           l19 == l18 \ {<<"card", 1>>}
           l20 == l19 \ {<<"card", 0>>}
<1>0. /\ p = "vgem_test"
      /\ \A k \in 0 .. 5 : <<"map_dumb", k>> \in Fatal(p)
      /\ <<"map", 1>> \in Fatal(p)
      /\ \A k \in 0 .. 1 : <<"dumb_size", k>> \in Fatal(p)
      /\ Plain(p)
      /\ <<"card", 0>> \notin Fatal(p)
      /\ <<"card", 1>> \notin Fatal(p)
      /\ <<"dumb", 0>> \notin Fatal(p)
      /\ <<"dumb", 1>> \notin Fatal(p)
      /\ <<"prime_fd", 0>> \notin Fatal(p)
      /\ <<"prime_fd", 1>> \notin Fatal(p)
      /\ <<"import", 0>> \notin Fatal(p)
      /\ <<"import", 1>> \notin Fatal(p)
      /\ <<"verify", 1>> \notin Fatal(p)
      /\ <<"verify", 2>> \notin Fatal(p)
      /\ <<"verify", 4>> \notin Fatal(p)
      /\ <<"verify", 5>> \notin Fatal(p)
      /\ <<"map", 0>> \notin Fatal(p)
      /\ <<"map", 2>> \notin Fatal(p)
      /\ <<"map", 3>> \notin Fatal(p)
      /\ <<"map", 4>> \notin Fatal(p)
      /\ <<"map", 5>> \notin Fatal(p)
  BY DEF Plain, Fatal, Each
<1>f1. /\ <<"dumb", 0>> \notin l1
       /\ <<"card", 0>> \in l1
       /\ <<"card", 0>> \in n1
       /\ <<"map", 0>> \notin l2
  BY DEF Terminated, GlKinds, Display, Context, GlNames
<1>f2. /\ <<"card", 0>> \in l2
       /\ <<"card", 0>> \in n2
       /\ <<"map", 0>> \in l3
       /\ <<"map", 0>> \in n3
  BY DEF Terminated, GlKinds, Display, Context, GlNames
<1>f3. /\ <<"map", 1>> \notin l4
       /\ <<"card", 0>> \in l5
       /\ <<"card", 0>> \in n4
       /\ <<"map", 1>> \in l5
  BY DEF Terminated, GlKinds, Display, Context, GlNames
<1>f4. /\ <<"map", 1>> \in n4
       /\ <<"prime_fd", 0>> \notin l6
       /\ <<"card", 0>> \in l6
       /\ <<"card", 0>> \in l7
  BY DEF Terminated, GlKinds, Display, Context, GlNames
<1>f5. /\ <<"card", 0>> \in n5
       /\ <<"map", 2>> \notin l7
       /\ <<"card", 0>> \in l8
       /\ <<"card", 0>> \in n6
  BY DEF Terminated, GlKinds, Display, Context, GlNames
<1>f6. /\ <<"map", 2>> \in l8
       /\ <<"map", 2>> \in n6
       /\ <<"card", 1>> \notin l9
       /\ <<"card", 0>> \in l9
  BY DEF Terminated, GlKinds, Display, Context, GlNames
<1>f7. /\ <<"dumb", 1>> \notin l10
       /\ <<"card", 0>> \in l10
       /\ <<"card", 0>> \in n7
       /\ <<"card", 1>> \in l10
  BY DEF Terminated, GlKinds, Display, Context, GlNames
<1>f8. /\ <<"card", 1>> \in n7
       /\ <<"prime_fd", 1>> \notin l11
       /\ <<"card", 0>> \in l11
       /\ <<"card", 0>> \in n8
  BY DEF Terminated, GlKinds, Display, Context, GlNames
<1>f9. /\ <<"card", 1>> \in l11
       /\ <<"card", 1>> \in n8
       /\ <<"card", 0>> \in l12
       /\ <<"card", 0>> \in n9
  BY DEF Terminated, GlKinds, Display, Context, GlNames
<1>f10. /\ <<"map", 3>> \notin l12
       /\ <<"map", 3>> \in l13
       /\ <<"map", 3>> \in n10
       /\ <<"map", 4>> \notin l14
  BY DEF Terminated, GlKinds, Display, Context, GlNames
<1>f11. /\ <<"card", 0>> \in l14
       /\ <<"card", 0>> \in n10
       /\ <<"card", 0>> \in l15
       /\ <<"card", 0>> \in n11
  BY DEF Terminated, GlKinds, Display, Context, GlNames
<1>f12. /\ <<"map", 4>> \in l15
       /\ <<"map", 4>> \in n11
       /\ <<"map", 5>> \notin l16
       /\ <<"card", 0>> \in l16
  BY DEF Terminated, GlKinds, Display, Context, GlNames
<1>f13. /\ <<"card", 0>> \in l17
       /\ <<"card", 0>> \in n12
       /\ <<"map", 5>> \in l17
       /\ <<"map", 5>> \in n12
  BY DEF Terminated, GlKinds, Display, Context, GlNames
<1>f14. /\ <<"card", 1>> \in l18
       /\ <<"card", 1>> \in n12
       /\ <<"card", 0>> \in l19
       /\ <<"card", 0>> \in n12
  BY DEF Terminated, GlKinds, Display, Context, GlNames
<1> HIDE DEF n1, l1, n2, l2, n3, l3, l4, n4, l5, l6, n5, l7, n6, l8, l9, n7,
              l10, n8, l11, n9, l12, n10, l13, l14, n11, l15, l16,
              n12, l17, l18, l19, l20
<1>1. Leads(p, Calm({}, "none", {}), Take("card", 0, Return1), Calm(n1,
         "none", l1))
  BY <1>0, CalmTake DEF n1, l1
<1>2. Leads(p, Calm(n1, "none", l1), create_dumb_bo(0, close_vgem_fd),
         Calm(n2, "none", l2))
  <2>1. Leads(p, Calm(n1, "none", l1), Take("dumb", 0, close_vgem_fd),
           Calm(n2, "none", l2))
    BY <1>f1, <1>0, VgemTake DEF n2, l2
  <2>2. Leads(p, Calm(n2, "none", l2), Call("dumb_size", 0, Crash),
           Calm(n2, "none", l2))
    BY <1>0, CalmCallCrash
  <2> QED
    BY <2>1, <2>2, Compose DEF create_dumb_bo
<1>3. Leads(p, Calm(n2, "none", l2), Call("map_dumb", 0, Crash), Calm(n2,
         "none", l2))
  BY <1>0, CalmCallCrash
<1>4. Leads(p, Calm(n2, "none", l2), Take("map", 0, close_vgem_fd), Calm(n3,
         "none", l3))
  BY <1>f1, <1>f2, <1>0, VgemTake DEF n3, l3
<1>5. Leads(p, Calm(n3, "none", l3), Give("map", 0), Calm(n3, "none", l4))
  BY <1>f2, CalmGive DEF ClearedKinds, AssertedKinds, l4
<1>6. Leads(p, Calm(n3, "none", l4), Call("map_dumb", 1, Crash), Calm(n3,
         "none", l4))
  BY <1>0, CalmCallCrash
<1>7. Leads(p, Calm(n3, "none", l4), Take("map", 1, Crash), Calm(n4, "none",
         l5))
  BY <1>f3, <1>0, CalmTakeCrash DEF n4, l5
<1>8. Leads(p, Calm(n4, "none", l5), Call("verify", 1, close_vgem_fd),
         Calm(n4, "none", l5))
  BY <1>f3, <1>0, VgemCall
<1>9. Leads(p, Calm(n4, "none", l5), Give("map", 1), Calm(n4, "none", l6))
  BY <1>f3, <1>f4, CalmGive DEF ClearedKinds, AssertedKinds, l6
<1>10. Leads(p, Calm(n4, "none", l6), Take("prime_fd", 0, close_vgem_fd),
          Calm(n5, "none", l7))
  BY <1>f4, <1>f3, <1>0, VgemTake DEF n5, l7
<1>11. Leads(p, Calm(n5, "none", l7), Call("import", 0, close_vgem_fd),
          Calm(n5, "none", l7))
  BY <1>f4, <1>f5, <1>0, VgemCall
<1>12. Leads(p, Calm(n5, "none", l7), Call("map_dumb", 2, Crash), Calm(n5,
          "none", l7))
  BY <1>0, CalmCallCrash
<1>13. Leads(p, Calm(n5, "none", l7), Take("map", 2, close_vgem_fd), Calm(n6,
          "none", l8))
  BY <1>f5, <1>f4, <1>0, VgemTake DEF n6, l8
<1>14. Leads(p, Calm(n6, "none", l8), Call("verify", 2, close_vgem_fd),
          Calm(n6, "none", l8))
  BY <1>f5, <1>0, VgemCall
<1>15. Leads(p, Calm(n6, "none", l8), Give("map", 2), Calm(n6, "none", l9))
  BY <1>f6, CalmGive DEF ClearedKinds, AssertedKinds, l9
<1>16. Leads(p, Calm(n6, "none", l9), Take("card", 1, close_vgem_fd), Calm(n7,
          "none", l10))
  BY <1>f6, <1>f5, <1>0, VgemTake DEF n7, l10
<1>17. Leads(p, Calm(n7, "none", l10), create_dumb_bo(1, close_dumb_fd),
         Calm(n8, "none", l11))
  <2>1. Leads(p, Calm(n7, "none", l10), Take("dumb", 1, close_dumb_fd),
           Calm(n8, "none", l11))
    BY <1>f7, <1>f8, <1>0, VgemTake DEF n8, l11
  <2>2. Leads(p, Calm(n8, "none", l11), Call("dumb_size", 1, Crash),
           Calm(n8, "none", l11))
    BY <1>0, CalmCallCrash
  <2> QED
    BY <2>1, <2>2, Compose DEF create_dumb_bo
<1>18. Leads(p, Calm(n8, "none", l11), Take("prime_fd", 1, close_dumb_fd),
          Calm(n9, "none", l12))
  BY <1>f8, <1>f9, <1>0, VgemTake DEF n9, l12
<1>19. Leads(p, Calm(n9, "none", l12), Call("import", 1, close_vgem_fd),
          Calm(n9, "none", l12))
  BY <1>f9, <1>0, VgemCall
<1>20. Leads(p, Calm(n9, "none", l12), Call("map_dumb", 3, Crash), Calm(n9,
          "none", l12))
  BY <1>0, CalmCallCrash
<1>21. Leads(p, Calm(n9, "none", l12), Take("map", 3, close_vgem_fd),
          Calm(n10, "none", l13))
  BY <1>f10, <1>f9, <1>0, VgemTake DEF n10, l13
<1>22. Leads(p, Calm(n10, "none", l13), Give("map", 3), Calm(n10, "none",
          l14))
  BY <1>f10, CalmGive DEF ClearedKinds, AssertedKinds, l14
<1>23. Leads(p, Calm(n10, "none", l14), Call("map_dumb", 4, Crash), Calm(n10,
          "none", l14))
  BY <1>0, CalmCallCrash
<1>24. Leads(p, Calm(n10, "none", l14), Take("map", 4, close_vgem_fd),
          Calm(n11, "none", l15))
  BY <1>f10, <1>f11, <1>0, VgemTake DEF n11, l15
<1>25. Leads(p, Calm(n11, "none", l15), Call("verify", 4, close_vgem_fd),
          Calm(n11, "none", l15))
  BY <1>f11, <1>0, VgemCall
<1>26. Leads(p, Calm(n11, "none", l15), Give("map", 4), Calm(n11, "none",
          l16))
  BY <1>f12, CalmGive DEF ClearedKinds, AssertedKinds, l16
<1>27. Leads(p, Calm(n11, "none", l16), Call("map_dumb", 5, Crash), Calm(n11,
          "none", l16))
  BY <1>0, CalmCallCrash
<1>28. Leads(p, Calm(n11, "none", l16), Take("map", 5, close_vgem_fd),
          Calm(n12, "none", l17))
  BY <1>f12, <1>f11, <1>0, VgemTake DEF n12, l17
<1>29. Leads(p, Calm(n12, "none", l17), Call("verify", 5, close_vgem_fd),
          Calm(n12, "none", l17))
  BY <1>f13, <1>0, VgemCall
<1>30. Leads(p, Calm(n12, "none", l17), Give("map", 5), Calm(n12, "none",
          l18))
  BY <1>f13, CalmGive DEF ClearedKinds, AssertedKinds, l18
<1>31. Leads(p, Calm(n12, "none", l18), Give("card", 1), Calm(n12, "none",
          l19))
  BY <1>f14, CalmGive DEF ClearedKinds, AssertedKinds, l19
<1>32. Leads(p, Calm(n12, "none", l19), Give("card", 0), Calm(n12, "none",
          l20))
  BY <1>f14, CalmGive DEF ClearedKinds, AssertedKinds, l20
<1>33. Leads(p, Calm(n12, "none", l20), Return(0), State(n12, {}, {}, 0, 0,
          "none", l20, {}))
  BY CalmReturn
<1> DEFINE s1 == Call("map_dumb", 0, Crash) \o Take("map", 0, close_vgem_fd)
           s2 == mmap_dumb_bo(0, close_vgem_fd) \o Give("map", 0)
           s3 == Call("map_dumb", 1, Crash) \o Take("map", 1, Crash)
           s4 == mmap_dumb_bo(1, Crash) \o Call("verify", 1, close_vgem_fd)
             \o Give("map", 1)
           s5 == Call("map_dumb", 2, Crash) \o Take("map", 2, close_vgem_fd)
           s6 == mmap_dumb_bo(2, close_vgem_fd) \o Call("verify", 2,
             close_vgem_fd) \o Give("map", 2)
           s7 == Call("map_dumb", 3, Crash) \o Take("map", 3, close_vgem_fd)
           s8 == mmap_dumb_bo(3, close_vgem_fd) \o Give("map", 3)
           s9 == Call("map_dumb", 4, Crash) \o Take("map", 4, close_vgem_fd)
           s10 == mmap_dumb_bo(4, close_vgem_fd) \o Call("verify", 4,
             close_vgem_fd) \o Give("map", 4)
           s11 == Call("map_dumb", 5, Crash) \o Take("map", 5, close_vgem_fd)
           s12 == mmap_dumb_bo(5, close_vgem_fd) \o Call("verify", 5,
             close_vgem_fd) \o Give("map", 5)
           s13 == Take("card", 0, Return1) \o create_dumb_bo(0, close_vgem_fd)
             \o s2 \o s4 \o Take("prime_fd", 0, close_vgem_fd) \o
             Call("import", 0, close_vgem_fd) \o s6 \o Take("card", 1,
             close_vgem_fd)
           s14 == s13 \o create_dumb_bo(1, close_dumb_fd) \o Take("prime_fd",
             1, close_dumb_fd) \o Call("import", 1, close_vgem_fd) \o s8 \o s10
             \o s12 \o Give("card", 1)
           s15 == s14 \o Give("card", 0) \o Return(0)
<1>34. Leads(p, Calm(n2, "none", l2), s1, Calm(n3, "none", l3))
  BY <1>3, <1>4, Compose
<1>35. mmap_dumb_bo(0, close_vgem_fd) = s1
  BY DEF mmap_dumb_bo
<1>36. Leads(p, Calm(n2, "none", l2), mmap_dumb_bo(0, close_vgem_fd), Calm(n3,
          "none", l3))
  BY <1>34, <1>35
<1>37. Leads(p, Calm(n2, "none", l2), s2, Calm(n3, "none", l4))
  BY <1>36, <1>5, Compose
<1>38. Leads(p, Calm(n3, "none", l4), s3, Calm(n4, "none", l5))
  BY <1>6, <1>7, Compose
<1>39. mmap_dumb_bo(1, Crash) = s3
  BY DEF mmap_dumb_bo
<1>40. Leads(p, Calm(n3, "none", l4), mmap_dumb_bo(1, Crash), Calm(n4, "none",
          l5))
  BY <1>38, <1>39
<1>41. Leads(p, Calm(n3, "none", l4), s4, Calm(n4, "none", l6))
  BY <1>40, <1>8, <1>9, Compose3
<1>42. Leads(p, Calm(n5, "none", l7), s5, Calm(n6, "none", l8))
  BY <1>12, <1>13, Compose
<1>43. mmap_dumb_bo(2, close_vgem_fd) = s5
  BY DEF mmap_dumb_bo
<1>44. Leads(p, Calm(n5, "none", l7), mmap_dumb_bo(2, close_vgem_fd), Calm(n6,
          "none", l8))
  BY <1>42, <1>43
<1>45. Leads(p, Calm(n5, "none", l7), s6, Calm(n6, "none", l9))
  BY <1>44, <1>14, <1>15, Compose3
<1>46. Leads(p, Calm(n9, "none", l12), s7, Calm(n10, "none", l13))
  BY <1>20, <1>21, Compose
<1>47. mmap_dumb_bo(3, close_vgem_fd) = s7
  BY DEF mmap_dumb_bo
<1>48. Leads(p, Calm(n9, "none", l12), mmap_dumb_bo(3, close_vgem_fd),
          Calm(n10, "none", l13))
  BY <1>46, <1>47
<1>49. Leads(p, Calm(n9, "none", l12), s8, Calm(n10, "none", l14))
  BY <1>48, <1>22, Compose
<1>50. Leads(p, Calm(n10, "none", l14), s9, Calm(n11, "none", l15))
  BY <1>23, <1>24, Compose
<1>51. mmap_dumb_bo(4, close_vgem_fd) = s9
  BY DEF mmap_dumb_bo
<1>52. Leads(p, Calm(n10, "none", l14), mmap_dumb_bo(4, close_vgem_fd),
          Calm(n11, "none", l15))
  BY <1>50, <1>51
<1>53. Leads(p, Calm(n10, "none", l14), s10, Calm(n11, "none", l16))
  BY <1>52, <1>25, <1>26, Compose3
<1>54. Leads(p, Calm(n11, "none", l16), s11, Calm(n12, "none", l17))
  BY <1>27, <1>28, Compose
<1>55. mmap_dumb_bo(5, close_vgem_fd) = s11
  BY DEF mmap_dumb_bo
<1>56. Leads(p, Calm(n11, "none", l16), mmap_dumb_bo(5, close_vgem_fd),
          Calm(n12, "none", l17))
  BY <1>54, <1>55
<1>57. Leads(p, Calm(n11, "none", l16), s12, Calm(n12, "none", l18))
  BY <1>56, <1>29, <1>30, Compose3
<1>58. Leads(p, Calm({}, "none", {}), s13, Calm(n7, "none", l10))
  BY <1>1, <1>2, <1>37, <1>41, <1>10, <1>11, <1>45, <1>16, Compose8
<1>59. Leads(p, Calm({}, "none", {}), s14, Calm(n12, "none", l19))
  BY <1>58, <1>17, <1>18, <1>19, <1>49, <1>53, <1>57, <1>31, Compose8
<1>60. Leads(p, Calm({}, "none", {}), s15, State(n12, {}, {}, 0, 0, "none",
          l20, {}))
  BY <1>59, <1>32, <1>33, Compose3
<1>61. vgem_test = s15
  BY DEF vgem_test, close_vgem_fd, close_dumb_fd
<1>62. MayEnd(p, State(n12, {}, {}, 0, 0, "none", l20, {}))
  BY DEF MayEnd, Doomed, State, LeftBehind, Hidden, Each, Connector, n1, l1,
     n2, l2, n3, l3, l4, n4, l5, l6, n5, l7, n6, l8, l9, n7, l10, n8, l11, n9,
     l12, n10, l13, l14, n11, l15, l16, n12, l17, l18, l19, l20
<1> HIDE DEF s15
<1>63. Fine(p, s15, Calm({}, "none", {}))
  BY <1>60, <1>62, LeadsEnd
<1> QED
  BY <1>61, <1>63 DEF Calm

----------------------------------------------------------------------------
\* The same for sets of states: from every state of E to some of F.
LeadsInto(p, E, s, F) ==
  IsSteps(s) /\ \A t : (\A f \in F : Fine(p, t, f)) /\ IsSteps(t) =>
                         \A e \in E : Fine(p, s \o t, e)

LEMMA IntoEach ==
  ASSUME NEW p, NEW E, NEW s, NEW F, IsSteps(s),
         \A e \in E : \E f \in F : Leads(p, e, s, f)
  PROVE  LeadsInto(p, E, s, F)
BY DEF LeadsInto, Leads

LEMMA IntoOne ==
  ASSUME NEW p, NEW e, NEW s, NEW f, Leads(p, e, s, f)
  PROVE  LeadsInto(p, {e}, s, {f})
BY IntoEach DEF Leads

LEMMA IntoMore ==
  ASSUME NEW p, NEW E, NEW s, NEW F, LeadsInto(p, E, s, F),
         NEW D, D \subseteq E, NEW G, F \subseteq G
  PROVE  LeadsInto(p, D, s, G)
BY DEF LeadsInto

LEMMA IntoCompose ==
  ASSUME NEW p, NEW E, NEW F, NEW G, NEW a, NEW b,
         LeadsInto(p, E, a, F), LeadsInto(p, F, b, G)
  PROVE  LeadsInto(p, E, a \o b, G)
<1>1. IsSteps(a) /\ IsSteps(b) /\ IsSteps(a \o b)
  BY StepsCat DEF LeadsInto
<1>2. ASSUME NEW t, \A g \in G : Fine(p, t, g), IsSteps(t), NEW e \in E
      PROVE  Fine(p, (a \o b) \o t, e)
  <2>1. \A f \in F : Fine(p, b \o t, f)
    BY <1>2 DEF LeadsInto
  <2>2. IsSteps(b \o t)
    BY <1>1, <1>2, StepsCat
  <2>3. Fine(p, a \o (b \o t), e)
    BY <1>2, <2>1, <2>2 DEF LeadsInto
  <2>4. (a \o b) \o t = a \o (b \o t)
    BY <1>1, <1>2, CatAssoc
  <2> QED
    BY <2>3, <2>4
<1> QED
  BY <1>1, <1>2 DEF LeadsInto

LEMMA IntoFine ==
  ASSUME NEW p, NEW E, NEW s, NEW F, LeadsInto(p, E, s, F), NEW t, IsSteps(t),
         \A f \in F : Fine(p, t, f), NEW e \in E
  PROVE  Fine(p, s \o t, e)
BY DEF LeadsInto

LEMMA IntoEnd ==
  ASSUME NEW p, NEW E, NEW s, NEW F, LeadsInto(p, E, s, F),
         \A f \in F : MayEnd(p, f), NEW e \in E
  PROVE  Fine(p, s, e)
<1>1. \A f \in F : Fine(p, << >>, f)
  BY FineEnd
<1>2. s \o << >> = s
  BY CatNothing DEF LeadsInto
<1>3. Fine(p, s \o << >>, e)
  BY <1>1, IntoFine, NoSteps
<1> QED
  BY <1>2, <1>3

\* A call whose failure the program goes on after.
LEMMA IntoTry ==
  ASSUME NEW p, NEW kind, kind # "egl_setup", NEW i, NEW E, NEW F,
         E \subseteq F, \A e \in E : Lacks(e, <<kind, i>>) \in F
  PROVE  LeadsInto(p, E, Try(kind, i), F)
<1> DEFINE o == <<kind, i>>
           s == Step("try", kind, i, << >>)
<1>1. ASSUME NEW t, \A f \in F : Fine(p, t, f), IsSteps(t), NEW e \in E
      PROVE  Fine(p, s \o t, e)
  <2>1. After(s \o t, e) = {<<t, e>>, <<t, Lacks(e, o)>>}
    BY <1>1, AfterFirst DEF StepKinds
  <2>2. Allowed(p, [do |-> "try", of |-> o, else |-> << >>], e)
    BY DEF Allowed
  <2>3. \A y \in {<<t, e>>, <<t, Lacks(e, o)>>} :
          Fine(p, y[1], y[2]) /\ y = <<y[1], y[2]>>
    BY <1>1
  <2> QED
    BY <1>1, <2>1, <2>2, <2>3, FirstStep DEF StepKinds
<1>2. IsSteps(s)
  BY StepFirst, NoSteps DEF StepKinds
<1> QED
  BY <1>1, <1>2 DEF LeadsInto, Try

\* An object the program goes on without.
LEMMA IntoSeek ==
  ASSUME NEW p, NEW kind, kind \notin {"image", "egl_setup"}, NEW i, NEW E, NEW F,
         \A e \in E : <<kind, i>> \notin e.live /\ Gains(e, <<kind, i>>) \in F
                      /\ Forgets(e, <<kind, i>>) \in F
  PROVE  LeadsInto(p, E, Seek(kind, i), F)
<1> DEFINE o == <<kind, i>>
           s == Step("seek", kind, i, << >>)
<1>1. ASSUME NEW t, \A f \in F : Fine(p, t, f), IsSteps(t), NEW e \in E
      PROVE  Fine(p, s \o t, e)
  <2>1. After(s \o t, e) = {<<t, Gains(e, o)>>, <<t, Forgets(e, o)>>}
    BY <1>1, AfterFirst DEF StepKinds
  <2>2. Allowed(p, [do |-> "seek", of |-> o, else |-> << >>], e)
    BY DEF Allowed
  <2>3. \A y \in {<<t, Gains(e, o)>>, <<t, Forgets(e, o)>>} :
          Fine(p, y[1], y[2]) /\ y = <<y[1], y[2]>>
    BY <1>1
  <2> QED
    BY <1>1, <2>1, <2>2, <2>3, FirstStep DEF StepKinds
<1>2. IsSteps(s)
  BY StepFirst, NoSteps DEF StepKinds
<1> QED
  BY <1>1, <1>2 DEF LeadsInto, Seek

\* An access through a mapping, or through MAP_FAILED after the failure.
LEMMA IntoAccess ==
  ASSUME NEW p, NEW kind \in {"access", "access_range"}, NEW i, NEW E, NEW F,
         \A e \in E : /\ <<"map", i>> \notin e.names => Doomed(p, e)
                      /\ <<"map", i>> \in e.names \/ kind = "access_range" => e \in F
  PROVE  LeadsInto(p, E, Run(kind, i), F)
<1> DEFINE o == <<kind, i>>
           s == Step("run", kind, i, << >>)
<1>1. ASSUME NEW t, \A f \in F : Fine(p, t, f), IsSteps(t), NEW e \in E
      PROVE  Fine(p, s \o t, e)
  <2>1. After(s \o t, e) = {<<t, f>> : f \in AfterRun(e, kind, i)}
    BY <1>1, AfterFirst DEF StepKinds
  <2>2. Allowed(p, [do |-> "run", of |-> o, else |-> << >>], e)
    BY DEF Allowed, MisusesRun
  <2>3. AfterRun(e, kind, i) \subseteq F
    BY DEF AfterRun, BuilderRuns
  <2>4. \A y \in After(s \o t, e) : Fine(p, y[1], y[2]) /\ y = <<y[1], y[2]>>
    BY <1>1, <2>1, <2>3
  <2> QED
    BY <1>1, <2>2, <2>4, FirstStep DEF StepKinds
<1>2. IsSteps(s)
  BY StepFirst, NoSteps DEF StepKinds
<1> QED
  BY <1>1, <1>2 DEF LeadsInto, Run

\* Giving back what may be there or not.
LEMMA IntoGive ==
  ASSUME NEW p, NEW kind, kind # "egl_setup", NEW i, NEW E, NEW F,
         \A e \in E : /\ MisusesGive(e, <<kind, i>>) => Doomed(p, e)
                      /\ AfterGive(e, <<kind, i>>) \subseteq F
  PROVE  LeadsInto(p, E, Give(kind, i), F)
<1> DEFINE o == <<kind, i>>
           s == Step("give", kind, i, << >>)
<1>1. ASSUME NEW t, \A f \in F : Fine(p, t, f), IsSteps(t), NEW e \in E
      PROVE  Fine(p, s \o t, e)
  <2>1. After(s \o t, e) = {<<t, f>> : f \in AfterGive(e, o)}
    BY <1>1, AfterFirst DEF StepKinds
  <2>2. Allowed(p, [do |-> "give", of |-> o, else |-> << >>], e)
    BY DEF Allowed
  <2>3. \A y \in After(s \o t, e) : Fine(p, y[1], y[2]) /\ y = <<y[1], y[2]>>
    BY <1>1, <2>1
  <2> QED
    BY <1>1, <2>2, <2>3, FirstStep DEF StepKinds
<1>2. IsSteps(s)
  BY StepFirst, NoSteps DEF StepKinds
<1> QED
  BY <1>1, <1>2 DEF LeadsInto, Give

----------------------------------------------------------------------------
\* mmap_test.c.

MmapKept ==
  {<<"card", 0>>, <<"gbm", 0>>, <<"mapper", 0>>, <<"connector", 0>>,
   <<"bo", 0>>, <<"id", 0>>, <<"bo", 1>>, <<"id", 1>>}
Maps == {<<"map", 0>>, <<"map", 1>>}
Flips == {"flip"} \X (1 .. 4)

\* From the first frame to the last.
MmapStates ==
  [ names : {n \in SUBSET (MmapKept \cup Maps) : MmapKept \subseteq n},
    junk : SUBSET Maps, failed : SUBSET (Flips \cup Maps), ret : {1}, passed : {0},
    egl : {"none"}, live : SUBSET (MmapKept \cup Maps),
    faults : SUBSET {"uninitialized"} ]

\* A mapping that failed and was given back is known.
Blamed(e) == e.faults # {} <=> e.failed \cap Maps # {}

\* In a frame its buffer is mapped, or it could not be mapped.
Between == {e \in MmapStates : Blamed(e) /\ e.junk = {} /\ e.live = MmapKept}
Mapped(k) ==
  {e \in MmapStates : /\ Blamed(e) /\ e.junk = {}
                      /\ <<"map", k>> \in e.names
                      /\ e.live = MmapKept \cup {<<"map", k>>}}
Unmapped(k) ==
  {e \in MmapStates : /\ <<"map", k>> \in e.failed /\ e.junk = {<<"map", k>>}
                      /\ <<"map", k>> \notin e.names /\ e.live = MmapKept}

LEMMA MmapMap ==
  ASSUME NEW k \in 0 .. 1
  PROVE  /\ <<"map", k>> \in Maps /\ <<"map", k>> \notin MmapKept
         /\ <<"map", k>> \in Fatal("mmap_test")
<1>1. k = 0 \/ k = 1
  OBVIOUS
<1> QED
  BY <1>1 DEF Maps, MmapKept, Fatal, Each

LEMMA MmapSeek ==
  ASSUME NEW k \in 0 .. 1
  PROVE  LeadsInto("mmap_test", Between, Seek("map", k), Mapped(k) \cup Unmapped(k))
<1> DEFINE o == <<"map", k>>
<1>0. o \in Maps /\ o \notin MmapKept
  BY MmapMap
<1> HIDE DEF o
<1>1. ASSUME NEW e \in Between
      PROVE  /\ o \notin e.live
             /\ Gains(e, o) \in {d \in MmapStates :
                  /\ Blamed(d) /\ d.junk = {} /\ o \in d.names
                  /\ d.live = MmapKept \cup {o}}
             /\ Forgets(e, o) \in {d \in MmapStates :
                  /\ o \in d.failed /\ d.junk = {o}
                  /\ o \notin d.names /\ d.live = MmapKept}
  BY <1>0 DEF Between, MmapStates, Blamed, Gains, Forgets, State
<1>2. \A e \in Between : o \notin e.live /\ Gains(e, o) \in Mapped(k) \cup Unmapped(k)
                         /\ Forgets(e, o) \in Mapped(k) \cup Unmapped(k)
  BY <1>1 DEF Mapped, Unmapped, o
<1> QED
  BY <1>2, IntoSeek DEF o

LEMMA MmapFlip ==
  ASSUME NEW s \in 1 .. 4, NEW k \in 0 .. 1
  PROVE  /\ LeadsInto("mmap_test", Between, Try("flip", s), Between)
         /\ LeadsInto("mmap_test", Mapped(k) \cup Unmapped(k), Try("flip", s),
                      Mapped(k) \cup Unmapped(k))
<1> DEFINE o == <<"flip", s>>
           m == <<"map", k>>
<1>0. o \in Flips /\ o \notin Maps /\ "flip" # "egl_setup"
  BY DEF Flips, Maps
<1>1. ASSUME NEW e \in MmapStates
      PROVE  /\ Lacks(e, o) \in MmapStates
             /\ Blamed(e) => Blamed(Lacks(e, o))
             /\ Lacks(e, o).junk = e.junk /\ Lacks(e, o).live = e.live
             /\ Lacks(e, o).names = e.names /\ Lacks(e, o).failed = e.failed \cup {o}
  <2> HIDE DEF o
  <2> QED
    BY <1>0 DEF MmapStates, Blamed, Lacks, State
<1> HIDE DEF o, m
<1>2. ASSUME NEW e \in Between PROVE Lacks(e, o) \in Between
  BY <1>1 DEF Between
<1>3. ASSUME NEW e \in Mapped(k) PROVE Lacks(e, o) \in Mapped(k)
  BY <1>1 DEF Mapped
<1>4. ASSUME NEW e \in Unmapped(k) PROVE Lacks(e, o) \in Unmapped(k)
  BY <1>1 DEF Unmapped
<1> QED
  BY <1>0, <1>2, <1>3, <1>4, IntoTry DEF o

LEMMA MmapAccess ==
  ASSUME NEW k \in 0 .. 1
  PROVE  /\ LeadsInto("mmap_test", Mapped(k) \cup Unmapped(k), Run("access", k),
                      Mapped(k) \cup Unmapped(k))
         /\ LeadsInto("mmap_test", Mapped(k) \cup Unmapped(k),
                      Run("access_range", k), Mapped(k) \cup Unmapped(k))
<1>1. ASSUME NEW e \in Mapped(k) \cup Unmapped(k), <<"map", k>> \notin e.names
      PROVE  Doomed("mmap_test", e)
  BY <1>1, MmapMap DEF Mapped, Unmapped, Doomed
<1> QED
  BY <1>1, IntoAccess

LEMMA MmapGive ==
  ASSUME NEW k \in 0 .. 1
  PROVE  LeadsInto("mmap_test", Mapped(k) \cup Unmapped(k), Give("map", k), Between)
<1> DEFINE o == <<"map", k>>
<1>0. /\ o \in Maps /\ o \notin MmapKept /\ o \in Fatal("mmap_test")
      /\ o[1] = "map"
  BY MmapMap
<1>k. \A x \in MmapKept : x[1] # "map"
  BY DEF MmapKept
<1> HIDE DEF o
<1>1. ASSUME NEW e \in Mapped(k)
      PROVE  /\ ~MisusesGive(e, o)
             /\ AfterGive(e, o) = {GivesLive(e, o)}
             /\ GivesLive(e, o) \in Between
  <2>1. /\ e \in MmapStates /\ Blamed(e) /\ e.junk = {} /\ o \in e.names
        /\ e.live = MmapKept \cup {o}
    BY DEF Mapped, o
  <2>2. ~InUseOf(e, o) /\ NamesLeft(e, o) = e.names /\ LiveLeft(e, o) = MmapKept
    BY <1>0, <2>1 DEF InUseOf, NamesLeft, LiveLeft, ClearedKinds, AssertedKinds
  <2>3. ~MisusesGive(e, o) /\ AfterGive(e, o) = {GivesLive(e, o)}
    BY <2>1, <2>2 DEF MisusesGive, AfterGive
  <2>4. GivesLive(e, o) \in Between
    BY <2>1, <2>2 DEF GivesLive, State, Between, MmapStates, Blamed
  <2> QED
    BY <2>3, <2>4
<1>2. ASSUME NEW e \in Unmapped(k)
      PROVE  /\ Doomed("mmap_test", e)
             /\ AfterGive(e, o) = {GivesJunk(e, o, MmapKept)}
             /\ GivesJunk(e, o, MmapKept) \in Between
  <2>1. /\ e \in MmapStates /\ o \in e.failed /\ e.junk = {o}
        /\ o \notin e.names /\ e.live = MmapKept
    BY DEF Unmapped, o
  <2>2. JunkLeft(e, o) = {MmapKept}
    BY <1>0, <1>k, <2>1 DEF JunkLeft
  <2>3. AfterGive(e, o) = {GivesJunk(e, o, MmapKept)}
    BY <2>1, <2>2 DEF AfterGive
  <2>4. GivesJunk(e, o, MmapKept) \in Between
    BY <1>0, <2>1 DEF GivesJunk, State, Between, MmapStates, Blamed
  <2>5. Doomed("mmap_test", e)
    BY <1>0, <2>1 DEF Doomed
  <2> QED
    BY <2>3, <2>4, <2>5
<1>3. \A e \in Mapped(k) \cup Unmapped(k) :
        /\ MisusesGive(e, o) => Doomed("mmap_test", e)
        /\ AfterGive(e, o) \subseteq Between
  BY <1>1, <1>2
<1> QED
  BY <1>3, IntoGive DEF o

\* A frame of each of the four sequences of draw_sequence.
LEMMA MmapFrame ==
  ASSUME NEW s \in 1 .. 4
  PROVE  LeadsInto("mmap_test", Between, draw_sequence(s), Between)
<1> DEFINE k == s % 2
           Into(E, t, F) == LeadsInto("mmap_test", E, t, F)
           MMAP == Seek("map", k)
           FAULT == Run("access", k)
           FLIP == Try("flip", s)
           DRAW == Run("access_range", k)
           U == Mapped(k) \cup Unmapped(k)
<1>0. k \in 0 .. 1
  OBVIOUS
<1> HIDE DEF k
<1>1. /\ Into(Between, MMAP, U) /\ Into(U, FAULT, U) /\ Into(U, DRAW, U)
      /\ Into(Between, FLIP, Between) /\ Into(U, FLIP, U)
      /\ Into(U, Give("map", k), Between)
  BY <1>0, MmapSeek, MmapAccess, MmapFlip, MmapGive
<1> HIDE DEF Into, MMAP, FAULT, FLIP, DRAW, U
<1>c. \A E, F, G, a, b : Into(E, a, F) /\ Into(F, b, G) => Into(E, a \o b, G)
  BY IntoCompose DEF Into
<1>2. Into(Between, MMAP \o FAULT \o FLIP \o DRAW \o Give("map", k), Between)
  BY <1>1, <1>c
<1>3. Into(Between, MMAP \o FLIP \o DRAW \o Give("map", k), Between)
  BY <1>1, <1>c
<1>4. Into(Between, MMAP \o DRAW \o FLIP \o Give("map", k), Between)
  BY <1>1, <1>c
<1>5. Into(Between, FLIP \o MMAP \o DRAW \o Give("map", k), Between)
  BY <1>1, <1>c
<1>6. Into(Between, draw_sequence(s), Between)
  BY <1>2, <1>3, <1>4, <1>5 DEF draw_sequence, MMAP, FAULT, FLIP, DRAW, k
<1> QED
  BY <1>6 DEF Into

\* Up to the first frame.
LEMMA MmapStart ==
  Leads("mmap_test", State({}, {}, {}, 1, 0, "none", {}, {}),
        Take("card", 0, Return1) \o Take("gbm", 0, Return1)
          \o Take("mapper", 0, Crash)
          \o Call("pipe", 0, Return1) \o Take("connector", 0, Crash)
          \o framebuffers \o Call("set_crtc", 0, Return1),
        Calm(MmapKept, "none", MmapKept))
<1> DEFINE p == "mmap_test"
           n1 == {} \cup {<<"card", 0>>}
           l1 == {} \cup {<<"card", 0>>}
           n2 == n1 \cup {<<"gbm", 0>>}
           l2 == l1 \cup {<<"gbm", 0>>}
           n3 == n2 \cup {<<"mapper", 0>>}
           l3 == l2 \cup {<<"mapper", 0>>}
           n4 == n3 \cup {<<"connector", 0>>}
           l4 == l3 \cup {<<"connector", 0>>}
           n5 == n4 \cup {<<"bo", 0>>}
           l5 == l4 \cup {<<"bo", 0>>}
           n6 == n5 \cup {<<"id", 0>>}
           l6 == l5 \cup {<<"id", 0>>}
           n7 == n6 \cup {<<"bo", 1>>}
           l7 == l6 \cup {<<"bo", 1>>}
           n8 == n7 \cup {<<"id", 1>>}
           l8 == l7 \cup {<<"id", 1>>}
<1>0. /\ Plain(p)
      /\ <<"connector", 0>> \in Fatal(p) /\ <<"mapper", 0>> \in Fatal(p)
      /\ <<"card", 0>> \notin Fatal(p)
      /\ <<"gbm", 0>> \notin Fatal(p)
      /\ <<"pipe", 0>> \notin Fatal(p)
      /\ <<"bo", 0>> \notin Fatal(p)
      /\ <<"bo", 1>> \notin Fatal(p)
      /\ <<"id", 0>> \notin Fatal(p)
      /\ <<"id", 1>> \notin Fatal(p)
      /\ <<"set_crtc", 0>> \notin Fatal(p)
  BY DEF Plain, Fatal, Each, Connector
<1>f1. /\ <<"gbm", 0>> \notin l1
       /\ <<"mapper", 0>> \notin l2
       /\ <<"connector", 0>> \notin l3
       /\ <<"bo", 0>> \notin l4
  OBVIOUS
<1>f2. /\ <<"id", 0>> \notin l5
       /\ <<"bo", 1>> \notin l6
       /\ <<"id", 1>> \notin l7
  OBVIOUS
<1> HIDE DEF n1, l1, n2, l2, n3, l3, n4, l4, n5, l5, n6, l6, n7, l7, n8, l8
<1>1. Leads(p, Calm({}, "none", {}), Take("card", 0, Return1), Calm(n1,
         "none", l1))
  BY <1>0, CalmTake DEF n1, l1
<1>2. Leads(p, Calm(n1, "none", l1), Take("gbm", 0, Return1), Calm(n2, "none",
         l2))
  BY <1>f1, <1>0, CalmTake DEF n2, l2
<1>3. Leads(p, Calm(n2, "none", l2), Take("mapper", 0, Crash), Calm(n3,
         "none", l3))
  BY <1>f1, <1>0, CalmTakeCrash DEF n3, l3
<1>4. Leads(p, Calm(n3, "none", l3), Call("pipe", 0, Return1), Calm(n3,
         "none", l3))
  BY <1>0, CalmCall
<1>5. Leads(p, Calm(n3, "none", l3), Take("connector", 0, Crash), Calm(n4,
         "none", l4))
  BY <1>f1, <1>0, CalmTakeCrash DEF n4, l4
<1>6. Leads(p, Calm(n4, "none", l4), Take("bo", 0, Return1), Calm(n5, "none",
         l5))
  BY <1>f1, <1>0, CalmTake DEF n5, l5
<1>7. Leads(p, Calm(n5, "none", l5), Take("id", 0, Return1), Calm(n6, "none",
         l6))
  BY <1>f2, <1>0, CalmTake DEF n6, l6
<1>8. Leads(p, Calm(n6, "none", l6), Take("bo", 1, Return1), Calm(n7, "none",
         l7))
  BY <1>f2, <1>0, CalmTake DEF n7, l7
<1>9. Leads(p, Calm(n7, "none", l7), Take("id", 1, Return1), Calm(n8, "none",
         l8))
  BY <1>f2, <1>0, CalmTake DEF n8, l8
<1>10. Leads(p, Calm(n8, "none", l8), Call("set_crtc", 0, Return1), Calm(n8,
          "none", l8))
  BY <1>0, CalmCall
<1> DEFINE s1 == Take("bo", 0, Return1) \o Take("id", 0, Return1)
           s2 == Take("bo", 1, Return1) \o Take("id", 1, Return1)
           s3 == s1 \o s2
           s4 == Take("card", 0, Return1) \o Take("gbm", 0, Return1) \o
             Take("mapper", 0, Crash) \o Call("pipe", 0, Return1) \o
             Take("connector", 0, Crash) \o framebuffers \o Call("set_crtc", 0,
             Return1)
<1>11. Leads(p, Calm(n4, "none", l4), s1, Calm(n6, "none", l6))
  BY <1>6, <1>7, Compose
<1>12. Leads(p, Calm(n6, "none", l6), s2, Calm(n8, "none", l8))
  BY <1>8, <1>9, Compose
<1>13. Leads(p, Calm(n4, "none", l4), s3, Calm(n8, "none", l8))
  BY <1>11, <1>12, Compose
<1>14. framebuffers = s3
  BY DEF framebuffers, Twice, Buffers
<1>15. Leads(p, Calm(n4, "none", l4), framebuffers, Calm(n8, "none", l8))
  BY <1>13, <1>14
<1>16. Leads(p, Calm({}, "none", {}), s4, Calm(n8, "none", l8))
  BY <1>1, <1>2, <1>3, <1>4, <1>5, <1>15, <1>10, Compose7
<1>k. n8 = MmapKept /\ l8 = MmapKept
  BY DEF MmapKept, n1, l1, n2, l2, n3, l3, n4, l4, n5, l5, n6, l6, n7, l7,
     n8, l8
<1> QED
  BY <1>16, <1>k DEF Calm, Twice

\* mmap_test.c, of which the frames come last.
LEMMA MmapFine ==
  Fine("mmap_test", mmap_test, State({}, {}, {}, 1, 0, "none", {}, {}))
<1> DEFINE p == "mmap_test"
           e == State({}, {}, {}, 1, 0, "none", {}, {})
           start == Take("card", 0, Return1) \o Take("gbm", 0, Return1)
                    \o Take("mapper", 0, Crash)
                    \o Call("pipe", 0, Return1) \o Take("connector", 0, Crash)
                    \o framebuffers \o Call("set_crtc", 0, Return1)
           Done == {Returning(h, 0) : h \in Between}
<1>1. LeadsInto(p, {e}, start, Between)
  <2>1. Calm(MmapKept, "none", MmapKept) \in Between
    BY DEF Calm, State, Between, MmapStates, Blamed
  <2>2. LeadsInto(p, {e}, start, {Calm(MmapKept, "none", MmapKept)})
    BY MmapStart, IntoOne
  <2> HIDE DEF start
  <2>3. {Calm(MmapKept, "none", MmapKept)} \subseteq Between
    BY <2>1
  <2> QED
    BY <2>2, <2>3, IntoMore
<1>2. LeadsInto(p, Between, Return(0), Done)
  <2>1. ASSUME NEW h \in Between
        PROVE  Leads(p, h, Return(0), Returning(h, 0))
    <3>1. h = State(h.names, h.junk, h.failed, h.ret, h.passed, h.egl, h.live,
                    h.faults)
      BY DEF Between, MmapStates, State
    <3> QED
      BY <3>1, GoReturn DEF Returning
  <2>2. \A h \in Between : \E d \in Done : Leads(p, h, Return(0), d)
    BY <2>1
  <2> QED
    BY <2>2, IntoEach, StepIsSteps
<1>3. \A h \in Done : MayEnd(p, h)
  <2> SUFFICES ASSUME NEW h \in Between
               PROVE  MayEnd(p, Returning(h, 0))
    OBVIOUS
  <2> DEFINE d == Returning(h, 0)
  <2>1. /\ h \in MmapStates /\ Blamed(h) /\ h.live = MmapKept
        /\ h.failed \subseteq Flips \cup Maps
        /\ h.names \subseteq MmapKept \cup Maps /\ MmapKept \subseteq h.names
    BY DEF Between, MmapStates
  <2>2. /\ d.failed = h.failed /\ d.faults = h.faults /\ d.live = h.live
        /\ d.names = h.names /\ d.ret = 0
    BY DEF Returning, State
  <2> HIDE DEF d
  <2>3. Doomed(p, d) => d.faults # {}
    <3>1. Flips \cap Fatal(p) = {}
      BY DEF Flips, Fatal, Each, Connector
    <3> QED
      BY <2>1, <2>2, <3>1 DEF Doomed, Blamed
  <2>4. h.failed \subseteq Hidden(p)
    <3>1. Flips \subseteq Hidden(p) /\ Maps \subseteq Hidden(p)
      BY DEF Flips, Maps, Hidden, Each
    <3> QED
      BY <2>1, <3>1
  <2>5. LeftBehind(p, h.names) = MmapKept
    <3>1. /\ \A o \in MmapKept : o[1] # "map"
          /\ \A o \in Maps : o[1] = "map"
      BY DEF MmapKept, Maps
    <3> QED
      BY <2>1, <3>1 DEF LeftBehind
  <2> QED
    BY <2>1, <2>2, <2>3, <2>4, <2>5 DEF MayEnd, d
<1> HIDE DEF start, Done
<1>4. LeadsInto(p, {e}, start \o draw_sequence(1) \o draw_sequence(2)
                       \o draw_sequence(3) \o draw_sequence(4) \o Return(0), Done)
  <2>1. \A s \in 1 .. 4 : LeadsInto(p, Between, draw_sequence(s), Between)
    BY MmapFrame
  <2>2. LeadsInto(p, {e}, start \o draw_sequence(1), Between)
    BY <1>1, <2>1, IntoCompose
  <2>3. LeadsInto(p, {e}, start \o draw_sequence(1) \o draw_sequence(2), Between)
    BY <2>1, <2>2, IntoCompose
  <2>4. LeadsInto(p, {e}, start \o draw_sequence(1) \o draw_sequence(2)
                         \o draw_sequence(3), Between)
    BY <2>1, <2>3, IntoCompose
  <2>5. LeadsInto(p, {e}, start \o draw_sequence(1) \o draw_sequence(2)
                         \o draw_sequence(3) \o draw_sequence(4), Between)
    BY <2>1, <2>4, IntoCompose
  <2> QED
    BY <1>2, <2>5, IntoCompose
<1>5. Fine(p, start \o draw_sequence(1) \o draw_sequence(2)
             \o draw_sequence(3) \o draw_sequence(4) \o Return(0), e)
  BY <1>3, <1>4, IntoEnd
<1> QED
  BY <1>5 DEF mmap_test, start

----------------------------------------------------------------------------
\* Programs as long as nothing has failed, with any return value and with
\* variables without a value.
Smooth(r, j, n, g, l) == State(n, j, {}, r, 0, g, l, {})

\* After the first failure.
Failing(o, r, j, n, g, l) == State(n, j, {o}, r, 0, g, l, {})

LEMMA SmoothTake ==
  ASSUME NEW p, NEW kind, NEW i, NEW else, NEW r, NEW j, NEW n, NEW g, NEW l,
         <<kind, i>> \notin l, <<kind, i>> \notin j,
         kind = "image" => g = "ready", kind # "egl_setup",
         Fine(p, else, Failing(<<kind, i>>, r, j, n \ {<<kind, i>>}, g, l))
  PROVE  Leads(p, Smooth(r, j, n, g, l), Take(kind, i, else),
               Smooth(r, j, n \cup {<<kind, i>>}, g, l \cup {<<kind, i>>}))
<1> DEFINE o == <<kind, i>>
<1>1. j \ {o} = j /\ {} \cup {o} = {o}
  OBVIOUS
<1>2. Fine(p, else, State(n \ {o}, j \ {o}, {} \cup {o}, r, 0, g, l, {}))
  BY <1>1 DEF Failing
<1>3. Leads(p, State(n, j, {}, r, 0, g, l, {}), Take(kind, i, else),
            State(n \cup {o}, j \ {o}, {}, r, 0, g, l \cup {o}, {}))
  BY <1>2, GoTake
<1> QED
  BY <1>1, <1>3 DEF Smooth

\* The variable had no value before.
LEMMA SmoothTakeFirst ==
  ASSUME NEW p, NEW kind, NEW i, NEW else, NEW r, NEW j, NEW n, NEW g, NEW l,
         <<kind, i>> \notin l,
         kind = "image" => g = "ready", kind # "egl_setup",
         Fine(p, else, Failing(<<kind, i>>, r, j \ {<<kind, i>>},
                               n \ {<<kind, i>>}, g, l))
  PROVE  Leads(p, Smooth(r, j, n, g, l), Take(kind, i, else),
               Smooth(r, j \ {<<kind, i>>}, n \cup {<<kind, i>>}, g,
                      l \cup {<<kind, i>>}))
<1> DEFINE o == <<kind, i>>
<1>1. {} \cup {o} = {o}
  OBVIOUS
<1>2. Fine(p, else, State(n \ {o}, j \ {o}, {} \cup {o}, r, 0, g, l, {}))
  BY <1>1 DEF Failing
<1>3. Leads(p, State(n, j, {}, r, 0, g, l, {}), Take(kind, i, else),
            State(n \cup {o}, j \ {o}, {}, r, 0, g, l \cup {o}, {}))
  BY <1>2, GoTake
<1> QED
  BY <1>3 DEF Smooth

LEMMA SmoothMake ==
  ASSUME NEW p, NEW kind, NEW i, NEW r, NEW j, NEW n, NEW g, NEW l,
         kind \notin {"image", "egl_setup"}
  PROVE  /\ Leads(p, Smooth(r, j, n, g, l), Make(kind, i),
                  Smooth(r, j \ {<<kind, i>>}, n \cup {<<kind, i>>}, g,
                         l \cup {<<kind, i>>}))
         /\ <<kind, i>> \notin j =>
              Leads(p, Smooth(r, j, n, g, l), Make(kind, i),
                    Smooth(r, j, n \cup {<<kind, i>>}, g, l \cup {<<kind, i>>}))
<1> DEFINE o == <<kind, i>>
<1>1. o \notin j => j \ {o} = j
  OBVIOUS
<1>2. Leads(p, State(n, j, {}, r, 0, g, l, {}), Make(kind, i),
            State(n \cup {o}, j \ {o}, {}, r, 0, g, l \cup {o}, {}))
  BY GoMake
<1> QED
  BY <1>1, <1>2 DEF Smooth

LEMMA SmoothCall ==
  ASSUME NEW p, NEW kind, NEW i, NEW else, NEW r, NEW j, NEW n, NEW g, NEW l,
         kind # "egl_setup",
         Fine(p, else, Failing(<<kind, i>>, r, j, n, g, l))
  PROVE  Leads(p, Smooth(r, j, n, g, l), Call(kind, i, else), Smooth(r, j, n, g, l))
<1> DEFINE o == <<kind, i>>
<1>1. {} \cup {o} = {o}
  OBVIOUS
<1>2. Fine(p, else, State(n, j, {} \cup {o}, r, 0, g, l, {}))
  BY <1>1 DEF Failing
<1> QED
  BY <1>2, GoCall DEF Smooth

LEMMA ReturnFirst ==
  ASSUME NEW p, NEW value \in 0 .. 2, NEW s,
         NEW n, NEW j, NEW f, NEW r, NEW c, NEW g, NEW l, NEW x,
         Fine(p, s, State(n, j, f, value, c, g, l, x))
  PROVE  Fine(p, Return(value) \o s, State(n, j, f, r, c, g, l, x))
<1>1. Leads(p, State(n, j, f, r, c, g, l, x), Return(value),
            State(n, j, f, value, c, g, l, x))
  BY GoReturn
<1> QED
  BY <1>1, LeadsFine

----------------------------------------------------------------------------
\* swrast_test.c: its labels, the last first, in any state after a failure or
\* without one.

SwrastState(n, f, r, l) == State(n, {}, f, r, 0, "none", l, {})

\* The status fits the failures, and everything that is live goes with the
\* display.
SwrastEnding(n, f, r, l) ==
  /\ r = 0 => f \subseteq Hidden("swrast_test")
  /\ f = {} => r = 0
  /\ <<"display", 0>> \in l /\ <<"display", 0>> \in n
  /\ \A y \in l : y[1] \in GlKinds \cup {"display"}

terminate_display == Give("display", 0)
destroy_context == Give("context", 0) \o terminate_display
delete_gl_buffers == Give("gl_fb", 0) \o Give("gl_rb", 0) \o destroy_context

LEMMA TerminateFine ==
  ASSUME NEW n, NEW f, NEW r, NEW l, SwrastEnding(n, f, r, l)
  PROVE  Fine("swrast_test", terminate_display, SwrastState(n, f, r, l))
<1> DEFINE p == "swrast_test"
           o == <<"display", 0>>
<1>1. "display" \notin ClearedKinds
  BY DEF ClearedKinds, AssertedKinds
<1>2. Terminated(l) \ {o} = {}
  BY DEF SwrastEnding, Terminated
<1>3. o \in l /\ o \in n /\ o \notin {}
  BY DEF SwrastEnding
<1>4. Leads(p, SwrastState(n, f, r, l), Give("display", 0),
            SwrastState(n, f, r, {}))
  <2>1. Leads(p, SwrastState(n, f, r, l), Give("display", 0),
              SwrastState(n, f, r, Terminated(l) \ {o}))
    BY <1>1, <1>3, GoGive DEF SwrastState
  <2> QED
    BY <1>2, <2>1
<1>5. MayEnd(p, SwrastState(n, f, r, {}))
  BY DEF MayEnd, Doomed, State, SwrastState, SwrastEnding, LeftBehind, Fatal
<1> QED
  BY <1>4, <1>5, LeadsEnd DEF terminate_display

LEMMA ContextFine ==
  ASSUME NEW n, NEW f, NEW r, NEW l, SwrastEnding(n, f, r, l),
         <<"context", 0>> \in l, <<"context", 0>> \in n
  PROVE  Fine("swrast_test", destroy_context, SwrastState(n, f, r, l))
<1> DEFINE p == "swrast_test"
           m == l \ {<<"context", 0>>}
<1>1. SwrastEnding(n, f, r, m)
  BY DEF SwrastEnding
<1>2. "context" \notin ClearedKinds
  BY DEF ClearedKinds, AssertedKinds
<1> HIDE DEF m
<1>3. Leads(p, SwrastState(n, f, r, l), Give("context", 0), SwrastState(n, f, r, m))
  BY <1>2, GoGive DEF SwrastState, m
<1>4. Fine(p, terminate_display, SwrastState(n, f, r, m))
  BY <1>1, TerminateFine
<1> QED
  BY <1>3, <1>4, LeadsFine DEF destroy_context

LEMMA BuffersFine ==
  ASSUME NEW n, NEW f, NEW r, NEW l, SwrastEnding(n, f, r, l),
         <<"context", 0>> \in l, <<"context", 0>> \in n,
         <<"gl_fb", 0>> \in n, <<"gl_rb", 0>> \in n
  PROVE  Fine("swrast_test", delete_gl_buffers, SwrastState(n, f, r, l))
<1> DEFINE p == "swrast_test"
           l1 == l \ {<<"gl_fb", 0>>}
           l2 == l1 \ {<<"gl_rb", 0>>}
<1>1. SwrastEnding(n, f, r, l2) /\ <<"context", 0>> \in l2
  BY DEF SwrastEnding
<1>2. "gl_fb" \in IgnoredKinds /\ "gl_rb" \in IgnoredKinds
  BY DEF IgnoredKinds
<1> HIDE DEF l1, l2
<1>3. Leads(p, SwrastState(n, f, r, l), Give("gl_fb", 0), SwrastState(n, f, r, l1))
  BY <1>2, GoGiveIgnored DEF SwrastState, l1
<1>4. Leads(p, SwrastState(n, f, r, l1), Give("gl_rb", 0), SwrastState(n, f, r, l2))
  BY <1>2, GoGiveIgnored DEF SwrastState, l2
<1>5. Fine(p, destroy_context, SwrastState(n, f, r, l2))
  BY <1>1, ContextFine
<1>6. Leads(p, SwrastState(n, f, r, l), Give("gl_fb", 0) \o Give("gl_rb", 0),
            SwrastState(n, f, r, l2))
  BY <1>3, <1>4, Compose
<1> QED
  BY <1>5, <1>6, LeadsFine DEF delete_gl_buffers

LEMMA SwrastTake ==
  ASSUME NEW kind, NEW i, NEW else, NEW n, NEW l,
         <<kind, i>> \notin l, kind \notin {"image", "egl_setup"},
         Fine("swrast_test", else,
              SwrastState(n \ {<<kind, i>>}, {<<kind, i>>}, 0, l))
  PROVE  Leads("swrast_test", SwrastState(n, {}, 0, l), Take(kind, i, else),
               SwrastState(n \cup {<<kind, i>>}, {}, 0, l \cup {<<kind, i>>}))
<1>1. <<kind, i>> \notin {}
  OBVIOUS
<1> QED
  BY <1>1, SmoothTake DEF SwrastState, Smooth, Failing

LEMMA SwrastMake ==
  ASSUME NEW kind, NEW i, NEW n, NEW l, kind \notin {"image", "egl_setup"}
  PROVE  Leads("swrast_test", SwrastState(n, {}, 0, l), Make(kind, i),
               SwrastState(n \cup {<<kind, i>>}, {}, 0, l \cup {<<kind, i>>}))
<1>1. <<kind, i>> \notin {}
  OBVIOUS
<1> QED
  BY <1>1, SmoothMake DEF SwrastState, Smooth

LEMMA SwrastCall ==
  ASSUME NEW kind, NEW i, NEW else, NEW n, NEW l, kind # "egl_setup",
         Fine("swrast_test", else, SwrastState(n, {<<kind, i>>}, 0, l))
  PROVE  Leads("swrast_test", SwrastState(n, {}, 0, l), Call(kind, i, else),
               SwrastState(n, {}, 0, l))
BY SmoothCall DEF SwrastState, Smooth, Failing

\* A failure that the program returns 1 for.
LEMMA SwrastFirst ==
  ASSUME NEW s, NEW n, NEW f, NEW l,
         Fine("swrast_test", s, SwrastState(n, f, 1, l))
  PROVE  Fine("swrast_test", Return(1) \o s, SwrastState(n, f, 0, l))
<1>1. 1 \in 0 .. 2
  OBVIOUS
<1> QED
  BY <1>1, ReturnFirst DEF SwrastState

LEMMA SwrastReturns ==
  ASSUME NEW n, NEW o
  PROVE  Fine("swrast_test", Return(1), SwrastState(n, {o}, 0, {}))
<1>1. MayEnd("swrast_test", SwrastState(n, {o}, 1, {}))
  BY DEF MayEnd, Doomed, State, SwrastState, LeftBehind, Fatal
<1>2. Leads("swrast_test", SwrastState(n, {o}, 0, {}), Return(1),
            SwrastState(n, {o}, 1, {}))
  <2>1. 1 \in 0 .. 2
    OBVIOUS
  <2> QED
    BY <2>1, GoReturn DEF SwrastState
<1> QED
  BY <1>1, <1>2, LeadsEnd

\* draw_triangle: everything it makes goes with the display.
swrast_draw(done) ==
  Take("shader", 0, done) \o Call("compile", 0, done)
  \o Take("shader", 1, done) \o Call("compile", 1, done)
  \o Take("program", 0, done) \o Try("link", 0)
  \o Give("program", 0)

\* What is there when it begins, at least.
SwrastThere == {<<"display", 0>>, <<"context", 0>>, <<"gl_fb", 0>>, <<"gl_rb", 0>>}

LEMMA BuffersFineToo ==
  ASSUME NEW n, NEW f, NEW l, SwrastThere \subseteq n, SwrastThere \subseteq l,
         f \subseteq Hidden("swrast_test"),
         \A y \in l : y[1] \in GlKinds \cup {"display"}
  PROVE  Fine("swrast_test", delete_gl_buffers, SwrastState(n, f, 0, l))
<1>1. SwrastEnding(n, f, 0, l)
  BY DEF SwrastEnding, SwrastThere
<1> QED
  BY <1>1, BuffersFine DEF SwrastThere

LEMMA SwrastDrawFine ==
  ASSUME NEW n, NEW l, n = SwrastThere, l = SwrastThere
  PROVE  Fine("swrast_test", swrast_draw(delete_gl_buffers) \o delete_gl_buffers,
              SwrastState(n, {}, 0, l))
<1> DEFINE p == "swrast_test"
           d == delete_gl_buffers
           S0 == <<"shader", 0>>
           S1 == <<"shader", 1>>
           P == <<"program", 0>>
           n1 == n \cup {S0}
           n2 == n1 \cup {S1}
           n3 == n2 \cup {P}
           St(m, f, v) == SwrastState(m, f, 0, v)
<1>k. \A y \in SwrastThere \cup {S0} \cup {S1} \cup {P} :
        y[1] \in GlKinds \cup {"display"}
  BY DEF SwrastThere, GlKinds
<1>h. /\ {S0} \subseteq Hidden(p) /\ {S1} \subseteq Hidden(p)
      /\ {P} \subseteq Hidden(p) /\ {<<"compile", 0>>} \subseteq Hidden(p)
      /\ {<<"compile", 1>>} \subseteq Hidden(p)
      /\ {<<"link", 0>>} \subseteq Hidden(p)
  BY DEF Hidden, Each
<1>d. /\ S0 \notin SwrastThere /\ S1 \notin SwrastThere /\ P \notin SwrastThere
      /\ S0 # S1 /\ P # S0 /\ P # S1
  BY DEF SwrastThere
<1> HIDE DEF S0, S1, P, d
<1>1. ASSUME NEW m, SwrastThere \subseteq m, NEW f, f \subseteq Hidden(p),
             NEW v, SwrastThere \subseteq v,
             v \subseteq SwrastThere \cup {S0} \cup {S1} \cup {P}
      PROVE  Fine(p, d, St(m, f, v))
  BY <1>1, <1>k, BuffersFineToo DEF d
<1>m. /\ SwrastThere \subseteq n /\ SwrastThere \subseteq n \ {S0}
      /\ SwrastThere \subseteq n1 /\ SwrastThere \subseteq n1 \ {S1}
      /\ SwrastThere \subseteq n2 /\ SwrastThere \subseteq n2 \ {P}
      /\ SwrastThere \subseteq n3 /\ SwrastThere \subseteq n3 \ {P}
      /\ S0 \notin n /\ S1 \notin n1 /\ P \notin n2 /\ P \in n3
      /\ n3 \subseteq SwrastThere \cup {S0} \cup {S1} \cup {P}
      /\ n3 \ {P} \subseteq SwrastThere \cup {S0} \cup {S1} \cup {P}
      /\ n1 \subseteq n3 /\ n2 \subseteq n3 /\ n \subseteq n3
  BY <1>d
<1> HIDE DEF n1, n2, n3
<1>2. /\ Fine(p, d, St(n \ {S0}, {S0}, n))
      /\ Fine(p, d, St(n1, {<<"compile", 0>>}, n1))
      /\ Fine(p, d, St(n1 \ {S1}, {S1}, n1))
      /\ Fine(p, d, St(n2, {<<"compile", 1>>}, n2))
      /\ Fine(p, d, St(n2 \ {P}, {P}, n2))
      /\ Fine(p, d, St(n3, {}, n3 \ {P}))
      /\ Fine(p, d, St(n3, {<<"link", 0>>}, n3 \ {P}))
  BY <1>1, <1>m, <1>h
<1>3. Leads(p, St(n, {}, n), Take("shader", 0, d), St(n1, {}, n1))
  BY <1>2, <1>m, SwrastTake DEF n1, S0
<1>4. Leads(p, St(n1, {}, n1), Call("compile", 0, d), St(n1, {}, n1))
  BY <1>2, SwrastCall
<1>5. Leads(p, St(n1, {}, n1), Take("shader", 1, d), St(n2, {}, n2))
  BY <1>2, <1>m, SwrastTake DEF n2, S1
<1>6. Leads(p, St(n2, {}, n2), Call("compile", 1, d), St(n2, {}, n2))
  BY <1>2, SwrastCall
<1>7. Leads(p, St(n2, {}, n2), Take("program", 0, d), St(n3, {}, n3))
  BY <1>2, <1>m, SwrastTake DEF n3, P
<1> DEFINE F == {St(n3, {}, n3), St(n3, {<<"link", 0>>}, n3)}
           G == {St(n3, {}, n3 \ {P}), St(n3, {<<"link", 0>>}, n3 \ {P})}
           a == Take("shader", 0, d) \o Call("compile", 0, d)
                \o Take("shader", 1, d) \o Call("compile", 1, d)
                \o Take("program", 0, d)
<1>8. LeadsInto(p, {St(n, {}, n)}, a, {St(n3, {}, n3)})
  BY <1>3, <1>4, <1>5, <1>6, <1>7, Compose5, IntoOne
<1>9. LeadsInto(p, {St(n3, {}, n3)}, Try("link", 0), F)
  <2>1. Lacks(St(n3, {}, n3), <<"link", 0>>) = St(n3, {<<"link", 0>>}, n3)
    <3>1. {} \cup {<<"link", 0>>} = {<<"link", 0>>}
      OBVIOUS
    <3> QED
      BY <3>1 DEF Lacks, SwrastState, State
  <2> QED
    BY <2>1, IntoTry
<1>10. LeadsInto(p, F, Give("program", 0), G)
  <2>1. ASSUME NEW f
        PROVE  Leads(p, St(n3, f, n3), Give("program", 0), St(n3, f, n3 \ {P}))
    <3>1. "program" \in IgnoredKinds /\ P \notin {}
      BY DEF IgnoredKinds
    <3> QED
      BY <1>m, <3>1, GoGiveIgnored DEF SwrastState, P
  <2>2. \A e \in F : \E g \in G : Leads(p, e, Give("program", 0), g)
    BY <2>1
  <2>3. IsSteps(Give("program", 0))
    BY StepIsSteps
  <2> QED
    BY <2>2, <2>3, IntoEach
<1> HIDE DEF a, F, G
<1>11. LeadsInto(p, {St(n, {}, n)}, a \o Try("link", 0) \o Give("program", 0), G)
  BY <1>8, <1>9, <1>10, IntoCompose
<1>12. a \o Try("link", 0) \o Give("program", 0) = swrast_draw(d)
  BY DEF a, swrast_draw
<1>13. \A g \in G : Fine(p, d, g)
  BY <1>2 DEF G
<1>14. IsSteps(d)
  BY <1>2, FineSteps
<1>15. Fine(p, swrast_draw(d) \o d, St(n, {}, n))
  BY <1>11, <1>12, <1>13, <1>14, IntoFine
<1> QED
  BY <1>15 DEF d

\* swrast_test.c.
LEMMA SwrastFine ==
  Fine("swrast_test", swrast_test, State({}, {}, {}, 1, 0, "none", {}, {}))
<1> DEFINE p == "swrast_test"
           D == <<"display", 0>>
           C == <<"context", 0>>
           FB == <<"gl_fb", 0>>
           RB == <<"gl_rb", 0>>
           n1 == {} \cup {D}
           n2 == n1 \cup {C}
           n3 == n2 \cup {FB}
           n4 == n3 \cup {RB}
           St(m, f, r, v) == SwrastState(m, f, r, v)
<1>k. /\ \A y \in n4 : y[1] \in GlKinds \cup {"display"}
      /\ n4 = SwrastThere
  BY DEF SwrastThere, GlKinds
<1>h. {<<"choose_config", 0>>} \subseteq Hidden(p) /\ {<<"choose_config", 1>>} \subseteq Hidden(p)
  BY DEF Hidden, Each
<1>d. D # C /\ C # FB /\ C # RB
  OBVIOUS
<1> HIDE DEF D, C, FB, RB
<1>m. /\ D \notin {} /\ C \notin n1 /\ D \in n1 /\ D \in n1 \ {C} /\ D \in n2 /\ C \in n2
      /\ n1 \subseteq n4 /\ n2 \subseteq n4 /\ D \in n4 /\ C \in n4 /\ FB \in n4 /\ RB \in n4
  BY <1>d
<1> HIDE DEF n1, n2, n3, n4
<1>e. ASSUME NEW m, D \in m, NEW f, f # {}, NEW r, r = 0 => f \subseteq Hidden(p),
             NEW v, D \in v, v \subseteq n4
      PROVE  SwrastEnding(m, f, r, v)
  BY <1>e, <1>k DEF SwrastEnding, D
<1>1. Leads(p, Smooth(1, {}, {}, "none", {}), Return(0), St({}, {}, 0, {}))
  <2>1. 0 \in 0 .. 2
    OBVIOUS
  <2> QED
    BY <2>1, GoReturn DEF Smooth, SwrastState
<1>2. Leads(p, St({}, {}, 0, {}), Call("get_display", 0, Return(1)), St({}, {}, 0, {}))
  BY SwrastReturns, SwrastCall
<1>3. Leads(p, St({}, {}, 0, {}), Take("display", 0, Return(1)), St(n1, {}, 0, n1))
  BY SwrastReturns, SwrastTake DEF n1, D
<1>4. ASSUME NEW i \in 0 .. 1
      PROVE  Leads(p, St(n1, {}, 0, n1), Call("choose_config", i, terminate_display),
                   St(n1, {}, 0, n1))
  <2>1. {<<"choose_config", i>>} \subseteq Hidden(p)
    BY <1>h, <1>4
  <2>2. Fine(p, terminate_display, St(n1, {<<"choose_config", i>>}, 0, n1))
    BY <2>1, <1>e, <1>m, TerminateFine
  <2> QED
    BY <2>2, SwrastCall
<1>5. Leads(p, St(n1, {}, 0, n1), Call("bind_api", 0, Return(1) \o terminate_display),
            St(n1, {}, 0, n1))
  <2> DEFINE o == <<"bind_api", 0>>
  <2>0. SwrastEnding(n1, {o}, 1, n1)
    <3>1. {o} # {} /\ (1 = 0 => {o} \subseteq Hidden(p))
      OBVIOUS
    <3> HIDE DEF o
    <3> QED
      BY <3>1, <1>e, <1>m
  <2>1. Fine(p, terminate_display, St(n1, {o}, 1, n1))
    BY <2>0, <1>m, TerminateFine
  <2>2. Fine(p, Return(1) \o terminate_display, St(n1, {<<"bind_api", 0>>}, 0, n1))
    BY <2>1, SwrastFirst
  <2> QED
    BY <2>2, SwrastCall
<1>6. Leads(p, St(n1, {}, 0, n1), Take("context", 0, Return(1) \o terminate_display),
            St(n2, {}, 0, n2))
  <2>1. Fine(p, terminate_display, St(n1 \ {C}, {C}, 1, n1))
    BY <1>e, <1>m, TerminateFine
  <2>2. Fine(p, Return(1) \o terminate_display, St(n1 \ {C}, {C}, 0, n1))
    BY <2>1, SwrastFirst
  <2> QED
    BY <2>2, <1>m, SwrastTake DEF n2, C
<1>7. Leads(p, St(n2, {}, 0, n2), Call("make_current", 0, Return(1) \o destroy_context),
            St(n2, {}, 0, n2))
  <2> DEFINE o == <<"make_current", 0>>
  <2>0. SwrastEnding(n2, {o}, 1, n2)
    <3>1. {o} # {} /\ (1 = 0 => {o} \subseteq Hidden(p))
      OBVIOUS
    <3> HIDE DEF o
    <3> QED
      BY <3>1, <1>e, <1>m
  <2>1. Fine(p, destroy_context, St(n2, {o}, 1, n2))
    BY <2>0, <1>m, ContextFine DEF C
  <2>2. Fine(p, Return(1) \o destroy_context, St(n2, {<<"make_current", 0>>}, 0, n2))
    BY <2>1, SwrastFirst
  <2> QED
    BY <2>2, SwrastCall
<1>8. Leads(p, St(n2, {}, 0, n2), Make("gl_fb", 0), St(n3, {}, 0, n3))
  BY SwrastMake DEF n3, FB
<1>9. Leads(p, St(n3, {}, 0, n3), Make("gl_rb", 0), St(n4, {}, 0, n4))
  BY SwrastMake DEF n4, RB
<1>10. Leads(p, St(n4, {}, 0, n4), Call("complete", 0, Return(1) \o delete_gl_buffers),
            St(n4, {}, 0, n4))
  <2> DEFINE o == <<"complete", 0>>
  <2>0. SwrastEnding(n4, {o}, 1, n4)
    <3>1. {o} # {} /\ (1 = 0 => {o} \subseteq Hidden(p))
      OBVIOUS
    <3> HIDE DEF o
    <3> QED
      BY <3>1, <1>e, <1>m
  <2>1. Fine(p, delete_gl_buffers, St(n4, {o}, 1, n4))
    BY <2>0, <1>m, BuffersFine DEF C, FB, RB
  <2>2. Fine(p, Return(1) \o delete_gl_buffers, St(n4, {<<"complete", 0>>}, 0, n4))
    BY <2>1, SwrastFirst
  <2> QED
    BY <2>2, SwrastCall
<1> DEFINE Choose(i) == Call("choose_config", i, terminate_display)
           a == Return(0)
                \o Call("get_display", 0, Return(1))
                \o Take("display", 0, Return(1))
                \o Choose(0)
                \o Choose(1)
                \o Call("bind_api", 0, Return(1) \o terminate_display)
                \o Take("context", 0, Return(1) \o terminate_display)
                \o Call("make_current", 0, Return(1) \o destroy_context)
           b == a \o Make("gl_fb", 0) \o Make("gl_rb", 0)
                \o Call("complete", 0, Return(1) \o delete_gl_buffers)
<1>11. 0 \in 0 .. 1 /\ 1 \in 0 .. 1
  OBVIOUS
<1>12. /\ Leads(p, St(n1, {}, 0, n1), Choose(0), St(n1, {}, 0, n1))
       /\ Leads(p, St(n1, {}, 0, n1), Choose(1), St(n1, {}, 0, n1))
  BY <1>4, <1>11
<1> HIDE DEF St, Choose
<1>13. Leads(p, Smooth(1, {}, {}, "none", {}), a, St(n2, {}, 0, n2))
  BY <1>1, <1>2, <1>3, <1>12, <1>5, <1>6, <1>7, Compose8
<1> HIDE DEF a
<1>14. Leads(p, Smooth(1, {}, {}, "none", {}), b, St(n4, {}, 0, n4))
  BY <1>13, <1>8, <1>9, <1>10, Compose4
<1> HIDE DEF b
<1>15. Fine(p, swrast_draw(delete_gl_buffers) \o delete_gl_buffers, St(n4, {}, 0, n4))
  BY <1>k, SwrastDrawFine DEF St
<1> DEFINE d == swrast_draw(delete_gl_buffers)
           e == delete_gl_buffers
<1>16. IsSteps(b) /\ IsSteps(d) /\ IsSteps(e)
  <2>1. IsSteps(b)
    BY <1>14 DEF Leads
  <2>2. IsSteps(e)
    BY StepIsSteps, StepsCat
    DEF delete_gl_buffers, destroy_context, terminate_display
  <2> HIDE DEF e
  <2>3. IsSteps(d)
    BY <2>2, StepIsSteps, StepsCat DEF swrast_draw, e
  <2> QED
    BY <2>1, <2>2, <2>3
<1>17. swrast_test = b \o d \o e
  BY DEF swrast_test, b, a, d, e, Choose, swrast_draw, delete_gl_buffers,
         destroy_context, terminate_display
<1> HIDE DEF d, e
<1>18. Fine(p, b \o (d \o e), Smooth(1, {}, {}, "none", {}))
  BY <1>14, <1>15, LeadsFine DEF d, e
<1>19. b \o d \o e = b \o (d \o e)
  BY <1>16, CatAssoc
<1> QED
  BY <1>17, <1>18, <1>19 DEF Smooth

----------------------------------------------------------------------------
\* States in which every live object has its name, and no more than the names
\* of N are there.
Naming(l, N) == {n \in SUBSET N : l \ {Display, Context} \subseteq n}
Holding(N, j, f, r, g, l, x) ==
  {State(n, j, f, r, 0, g, l, x) : n \in Naming(l, N)}

LEMMA HoldGive ==
  ASSUME NEW p, NEW kind, NEW i,
         NEW N, NEW j, NEW f, NEW r, NEW g, NEW l, NEW x,
         <<kind, i>> \in l, <<kind, i>> \notin j,
         kind \notin {"display", "context", "egl_setup"},
         kind = "gbm" => \A y \in l : y[1] # "bo"
  PROVE  LeadsInto(p, Holding(N, j, f, r, g, l, x), Give(kind, i),
                   Holding(N, j, f, r, g, l \ {<<kind, i>>}, x))
<1> DEFINE o == <<kind, i>>
           H == Holding(N, j, f, r, g, l \ {o}, x)
<1>1. ASSUME NEW n \in Naming(l, N)
      PROVE  \E h \in H : Leads(p, State(n, j, f, r, 0, g, l, x), Give(kind, i), h)
  <2> DEFINE m == IF kind \in ClearedKinds THEN n \ {o} ELSE n
  <2>1. o \in n
    BY DEF Naming, Display, Context
  <2>2. m \in Naming(l \ {o}, N)
    BY DEF Naming
  <2> HIDE DEF m
  <2>3. State(m, j, f, r, 0, g, l \ {o}, x) \in H
    BY <2>2 DEF Holding
  <2> HIDE DEF H
  <2>4. Leads(p, State(n, j, f, r, 0, g, l, x), Give(kind, i),
              State(m, j, f, r, 0, g, l \ {o}, x))
    BY <2>1, GoGive DEF m
  <2> QED
    BY <2>3, <2>4
<1> HIDE DEF H
<1>2. \A e \in Holding(N, j, f, r, g, l, x) : \E h \in H : Leads(p, e, Give(kind, i), h)
  BY <1>1 DEF Holding
<1>3. IsSteps(Give(kind, i))
  BY StepIsSteps
<1> QED
  BY <1>2, <1>3, IntoEach DEF H

\* An object whose variable is cleared.
LEMMA HoldClear ==
  ASSUME NEW p, NEW kind \in ClearedKinds, NEW i,
         NEW N, NEW j, NEW f, NEW r, NEW g, NEW l, NEW x,
         <<kind, i>> \in l, <<kind, i>> \notin j
  PROVE  LeadsInto(p, Holding(N, j, f, r, g, l, x), Give(kind, i),
                   Holding(N \ {<<kind, i>>}, j, f, r, g, l \ {<<kind, i>>}, x))
<1> DEFINE o == <<kind, i>>
           H == Holding(N \ {o}, j, f, r, g, l \ {o}, x)
<1>0. kind \notin {"display", "context", "egl_setup", "gbm"}
  BY DEF ClearedKinds, AssertedKinds
<1>1. ASSUME NEW n \in Naming(l, N)
      PROVE  \E h \in H : Leads(p, State(n, j, f, r, 0, g, l, x), Give(kind, i), h)
  <2> DEFINE m == n \ {o}
  <2>1. o \in n
    BY <1>0 DEF Naming, Display, Context
  <2>2. m \in Naming(l \ {o}, N \ {o})
    BY DEF Naming
  <2> HIDE DEF m
  <2>3. State(m, j, f, r, 0, g, l \ {o}, x) \in H
    BY <2>2 DEF Holding
  <2> HIDE DEF H
  <2>4. Leads(p, State(n, j, f, r, 0, g, l, x), Give(kind, i),
              State(m, j, f, r, 0, g, l \ {o}, x))
    BY <1>0, <2>1, GoGive DEF m
  <2> QED
    BY <2>3, <2>4
<1> HIDE DEF H
<1>2. \A e \in Holding(N, j, f, r, g, l, x) : \E h \in H : Leads(p, e, Give(kind, i), h)
  BY <1>1 DEF Holding
<1>3. IsSteps(Give(kind, i))
  BY StepIsSteps
<1> QED
  BY <1>2, <1>3, IntoEach DEF H

\* A name that may be gone already.
LEMMA HoldIgnored ==
  ASSUME NEW p, NEW kind \in IgnoredKinds, NEW i,
         NEW N, NEW j, NEW f, NEW r, NEW g, NEW l, NEW x, <<kind, i>> \notin j
  PROVE  LeadsInto(p, Holding(N, j, f, r, g, l, x), Give(kind, i),
                   Holding(N, j, f, r, g, l \ {<<kind, i>>}, x))
<1> DEFINE o == <<kind, i>>
           H == Holding(N, j, f, r, g, l \ {o}, x)
<1>0. kind \notin {"display", "context", "egl_setup", "gbm"}
  BY DEF IgnoredKinds
<1>1. ASSUME NEW n \in Naming(l, N)
      PROVE  \E h \in H : Leads(p, State(n, j, f, r, 0, g, l, x), Give(kind, i), h)
  <2>1. o \in l => o \in n
    BY <1>0 DEF Naming, Display, Context
  <2>2. n \in Naming(l \ {o}, N)
    BY DEF Naming
  <2>3. State(n, j, f, r, 0, g, l \ {o}, x) \in H
    BY <2>2 DEF Holding
  <2> HIDE DEF H
  <2>4. Leads(p, State(n, j, f, r, 0, g, l, x), Give(kind, i),
              State(n, j, f, r, 0, g, l \ {o}, x))
    BY <2>1, GoGiveIgnored
  <2> QED
    BY <2>3, <2>4
<1> HIDE DEF H
<1>2. \A e \in Holding(N, j, f, r, g, l, x) : \E h \in H : Leads(p, e, Give(kind, i), h)
  BY <1>1 DEF Holding
<1>3. IsSteps(Give(kind, i))
  BY StepIsSteps
<1> QED
  BY <1>2, <1>3, IntoEach DEF H

LEMMA HoldEglDestroy ==
  ASSUME NEW p, NEW N, NEW j, NEW f, NEW r, NEW l, NEW x, Context \in l
  PROVE  LeadsInto(p, Holding(N, j, f, r, "ready", l, x), Run("egl_destroy", 0),
                   Holding(N, j, f, r, "none", Terminated(l), x))
<1> DEFINE H == Holding(N, j, f, r, "none", Terminated(l), x)
           s == Run("egl_destroy", 0)
<1>1. ASSUME NEW n \in Naming(l, N)
      PROVE  \E h \in H : Leads(p, State(n, j, f, r, 0, "ready", l, x), s, h)
  <2>1. n \in Naming(Terminated(l), N)
    BY DEF Naming, Terminated
  <2>2. State(n, j, f, r, 0, "none", Terminated(l), x) \in H
    BY <2>1 DEF Holding
  <2> HIDE DEF H, s
  <2>3. Leads(p, State(n, j, f, r, 0, "ready", l, x), s,
              State(n, j, f, r, 0, "none", Terminated(l), x))
    BY GoEglDestroy DEF s
  <2> QED
    BY <2>2, <2>3
<1> HIDE DEF H
<1>2. \A e \in Holding(N, j, f, r, "ready", l, x) : \E h \in H : Leads(p, e, s, h)
  BY <1>1 DEF Holding
<1>3. IsSteps(s)
  BY StepIsSteps
<1> QED
  BY <1>2, <1>3, IntoEach DEF H

\* What is given back is NULL.
LEMMA HoldAbort ==
  ASSUME NEW p, NEW kind \in AssertedKinds \cup {"bo"}, NEW i,
         NEW E, \A e \in E : /\ <<kind, i>> \notin e.live \cup e.names \cup e.junk
                             /\ Doomed(p, e)
  PROVE  LeadsInto(p, E, Give(kind, i), {})
<1> DEFINE o == <<kind, i>>
<1>1. ASSUME NEW e \in E, NEW t, IsSteps(t)
      PROVE  Fine(p, Give(kind, i) \o t, e)
  <2>1. o \notin e.live \cup e.names \cup e.junk /\ Doomed(p, e)
    OBVIOUS
  <2>2. AfterGive(e, o) = {}
    BY <2>1 DEF AfterGive
  <2>3. Allowed(p, [do |-> "give", of |-> o, else |-> << >>], e)
    BY <2>1 DEF Allowed, AssertedKinds
  <2>4. After(Give(kind, i) \o t, e) = {}
    BY <1>1, <2>2, AfterFirst DEF StepKinds, Give
  <2> QED
    BY <1>1, <2>3, <2>4, FirstStep DEF StepKinds, Give
<1>2. IsSteps(Give(kind, i))
  BY StepIsSteps
<1> QED
  BY <1>1, <1>2 DEF LeadsInto

LEMMA HoldingMember ==
  ASSUME NEW N, NEW j, NEW f, NEW r, NEW g, NEW l, NEW x,
         NEW e \in Holding(N, j, f, r, g, l, x)
  PROVE  /\ e.names \subseteq N /\ e.live = l /\ e.junk = j /\ e.failed = f
         /\ e.ret = r /\ e.faults = x
<1>1. PICK n \in Naming(l, N) : e = State(n, j, f, r, 0, g, l, x)
  BY DEF Holding
<1> QED
  BY <1>1 DEF State, Naming

LEMMA HoldingAborts ==
  ASSUME NEW p, NEW kind \in AssertedKinds \cup {"bo"}, NEW i,
         NEW N, NEW j, NEW f, NEW r, NEW g, NEW l, NEW x,
         <<kind, i>> \notin N, <<kind, i>> \notin l, <<kind, i>> \notin j,
         f \cap Fatal(p) # {}
  PROVE  LeadsInto(p, Holding(N, j, f, r, g, l, x), Give(kind, i), {})
<1> DEFINE E == Holding(N, j, f, r, g, l, x)
<1>1. ASSUME NEW e \in E
      PROVE  /\ <<kind, i>> \notin e.live \cup e.names \cup e.junk
             /\ Doomed(p, e)
  BY HoldingMember DEF Doomed
<1> HIDE DEF E
<1>2. LeadsInto(p, E, Give(kind, i), {})
  BY <1>1, HoldAbort
<1> QED
  BY <1>2 DEF E

\* From nothing to nothing.
LEMMA NothingInto ==
  ASSUME NEW p, NEW s, IsSteps(s)
  PROVE  LeadsInto(p, {}, s, {})
BY DEF LeadsInto

\* A variable without a value, when nothing of its kind is live.
LEMMA HoldJunk ==
  ASSUME NEW p, NEW kind, kind # "egl_setup", NEW i,
         NEW N, NEW j, NEW f, NEW r, NEW g, NEW l, NEW x,
         <<kind, i>> \in j, \A y \in l : y[1] # kind, f \cap Fatal(p) # {}
  PROVE  LeadsInto(p, Holding(N, j, f, r, g, l, x), Give(kind, i),
                   Holding(N, j \ {<<kind, i>>}, f, r, g, l,
                           x \cup {"uninitialized"}))
<1> DEFINE o == <<kind, i>>
           H == Holding(N, j \ {o}, f, r, g, l, x \cup {"uninitialized"})
<1>1. ASSUME NEW n \in Naming(l, N)
      PROVE  \E h \in H : Leads(p, State(n, j, f, r, 0, g, l, x), Give(kind, i), h)
  <2> DEFINE e == State(n, j, f, r, 0, g, l, x)
             h == State(n, j \ {o}, f, r, 0, g, l, x \cup {"uninitialized"})
  <2>1. /\ e.names = n /\ e.junk = j /\ e.failed = f /\ e.ret = r /\ e.passed = 0
        /\ e.egl = g /\ e.live = l /\ e.faults = x
    BY DEF State
  <2>2. o \notin l
    OBVIOUS
  <2>3. JunkLeft(e, o) = {l}
    BY <2>1 DEF JunkLeft
  <2>4. GivesJunk(e, o, l) = h
    BY <2>1 DEF GivesJunk
  <2>5. AfterGive(e, o) = {h}
    BY <2>1, <2>2, <2>3, <2>4 DEF AfterGive
  <2>6. Doomed(p, e)
    BY <2>1 DEF Doomed
  <2>7. h \in H
    BY DEF Holding
  <2> HIDE DEF h, e, H
  <2>8. Leads(p, e, Give(kind, i), h)
    BY <2>5, <2>6, LeadsGive
  <2> QED
    BY <2>7, <2>8 DEF e
<1> HIDE DEF H
<1>2. \A e \in Holding(N, j, f, r, g, l, x) : \E h \in H : Leads(p, e, Give(kind, i), h)
  BY <1>1 DEF Holding
<1>3. IsSteps(Give(kind, i))
  BY StepIsSteps
<1> QED
  BY <1>2, <1>3, IntoEach DEF H

LEMMA HoldingHas ==
  ASSUME NEW j, NEW f, NEW r, NEW g, NEW l, NEW x, NEW n,
         l \ {Display, Context} \subseteq n
  PROVE  State(n, j, f, r, 0, g, l, x) \in Holding(n, j, f, r, g, l, x)
<1>1. n \in Naming(l, n)
  BY DEF Naming
<1> QED
  BY <1>1 DEF Holding

----------------------------------------------------------------------------
\* mapped_texture_test: its labels, the last first.

MT == "mapped_texture_test"
Owned(k) == {<<"bo", k>>, <<"id", k>>, <<"image", k>>, <<"egl_fb", k>>}
Offscreen == {<<"bo", 2>>, <<"image", 2>>, <<"tex", 2>>}
Devices == {<<"card", 0>>, <<"mapper", 0>>, <<"gbm", 0>>}
Base == Devices \cup {Connector, Display, Context}

\* The status and the faults fit the failures.
MtEnding(f, r, x) ==
  /\ f \cap Fatal(MT) # {} => x # {}
  /\ r = 0 => f \subseteq Hidden(MT)
  /\ f = {} => r = 0

LEMMA DisplayFdFine ==
  ASSUME NEW N, NEW j, NEW f, NEW r, NEW g, NEW c, c \subseteq {Connector}, NEW x,
         MtEnding(f, r, x), f = {} => c = {Connector},
         NEW l, l = c \cup {<<"card", 0>>}, j \cap Devices = {},
         NEW e \in Holding(N, j, f, r, g, l, x)
  PROVE  Fine(MT, destroy_display_fd, e)
<1> DEFINE o == <<"card", 0>>
           H == Holding(N, j, f, r, g, l \ {o}, x)
<1>1. l \ {o} = c
  BY DEF Connector
<1>2. o \notin j /\ o \in l
  BY DEF Devices
<1>3. LeadsInto(MT, Holding(N, j, f, r, g, l, x), Give("card", 0), H)
  BY <1>2, HoldGive
<1>4. ASSUME NEW h \in H PROVE MayEnd(MT, h)
  <2>0. h.live = l \ {o} /\ h.failed = f /\ h.ret = r /\ h.faults = x
    BY HoldingMember
  <2>1. h.live = c /\ h.failed = f /\ h.ret = r /\ h.faults = x
    BY <1>1, <2>0
  <2>2. LeftBehind(MT, h.names) = {Connector}
    BY DEF LeftBehind, MT
  <2> HIDE DEF H
  <2> QED
    BY <2>1, <2>2 DEF MayEnd, Doomed, MtEnding
<1> HIDE DEF H
<1> QED
  BY <1>3, <1>4, IntoEnd DEF destroy_display_fd

LEMMA MapperFine ==
  ASSUME NEW N, NEW j, NEW f, NEW r, NEW g, NEW c, c \subseteq {Connector}, NEW x,
         MtEnding(f, r, x), f = {} => c = {Connector},
         NEW l, l = c \cup {<<"card", 0>>, <<"mapper", 0>>}, j \cap Devices = {},
         NEW e \in Holding(N, j, f, r, g, l, x)
  PROVE  Fine(MT, destroy_mapper, e)
<1> DEFINE o == <<"mapper", 0>>
           H == Holding(N, j, f, r, g, l \ {o}, x)
<1>1. l \ {o} = c \cup {<<"card", 0>>}
  BY DEF Connector
<1>2. o \notin j /\ o \in l
  BY DEF Devices
<1>3. LeadsInto(MT, Holding(N, j, f, r, g, l, x), Give("mapper", 0), H)
  BY <1>2, HoldGive
<1>4. \A h \in H : Fine(MT, destroy_display_fd, h)
  BY <1>1, DisplayFdFine
<1>5. IsSteps(destroy_display_fd)
  BY StepIsSteps DEF destroy_display_fd
<1> HIDE DEF H
<1> QED
  BY <1>3, <1>4, <1>5, IntoFine DEF destroy_mapper

LEMMA GbmFine ==
  ASSUME NEW N, NEW j, NEW f, NEW r, NEW g, NEW c, c \subseteq {Connector}, NEW x,
         MtEnding(f, r, x), f = {} => c = {Connector},
         NEW l, l = c \cup Devices, j \cap Devices = {},
         NEW e \in Holding(N, j, f, r, g, l, x)
  PROVE  Fine(MT, destroy_gbm_device, e)
<1> DEFINE o == <<"gbm", 0>>
           H == Holding(N, j, f, r, g, l \ {o}, x)
<1>1. l \ {o} = c \cup {<<"card", 0>>, <<"mapper", 0>>}
  BY DEF Connector, Devices
<1>2. o \notin j /\ o \in l /\ \A y \in l : y[1] # "bo"
  BY DEF Devices, Connector
<1>3. LeadsInto(MT, Holding(N, j, f, r, g, l, x), Give("gbm", 0), H)
  BY <1>2, HoldGive
<1>4. \A h \in H : Fine(MT, destroy_mapper, h)
  BY <1>1, MapperFine
<1>5. IsSteps(destroy_mapper)
  BY StepIsSteps, StepsCat DEF destroy_mapper, destroy_display_fd
<1> HIDE DEF H
<1> QED
  BY <1>3, <1>4, <1>5, IntoFine DEF destroy_gbm_device

----------------------------------------------------------------------------
\* A framebuffer with all it is made from.
GiveFramebuffer(k) ==
  Give("egl_fb", k) \o Give("image", k) \o Give("id", k) \o Give("bo", k)

LEMMA FramebufferSteps ==
  ASSUME NEW k
  PROVE  IsSteps(GiveFramebuffer(k))
BY StepIsSteps, StepsCat DEF GiveFramebuffer

LEMMA FramebufferInto ==
  ASSUME NEW k, NEW N, NEW j, NEW f, NEW r, NEW g, NEW l, NEW x,
         Owned(k) \subseteq l, Owned(k) \cap j = {}
  PROVE  LeadsInto(MT, Holding(N, j, f, r, g, l, x), GiveFramebuffer(k),
                   Holding(N, j, f, r, g, l \ Owned(k), x))
<1> DEFINE l1 == l \ {<<"egl_fb", k>>}
           l2 == l1 \ {<<"image", k>>}
           l3 == l2 \ {<<"id", k>>}
           l4 == l3 \ {<<"bo", k>>}
           H(v) == Holding(N, j, f, r, g, v, x)
<1>1. /\ <<"egl_fb", k>> \in l /\ <<"egl_fb", k>> \notin j
      /\ <<"image", k>> \in l1 /\ <<"image", k>> \notin j
      /\ <<"id", k>> \in l2 /\ <<"id", k>> \notin j
      /\ <<"bo", k>> \in l3 /\ <<"bo", k>> \notin j
      /\ l4 = l \ Owned(k)
  BY DEF Owned
<1> HIDE DEF l1, l2, l3, l4
<1>2. LeadsInto(MT, H(l), Give("egl_fb", k), H(l1))
  BY <1>1, HoldGive DEF l1
<1>3. LeadsInto(MT, H(l1), Give("image", k), H(l2))
  BY <1>1, HoldGive DEF l2
<1>4. LeadsInto(MT, H(l2), Give("id", k), H(l3))
  BY <1>1, HoldGive DEF l3
<1>5. LeadsInto(MT, H(l3), Give("bo", k), H(l4))
  BY <1>1, HoldGive DEF l4
<1> HIDE DEF H
<1>6. LeadsInto(MT, H(l), GiveFramebuffer(k), H(l4))
  BY <1>2, <1>3, <1>4, <1>5, IntoCompose, Zenon DEF GiveFramebuffer
<1> QED
  BY <1>1, <1>6 DEF H

\* The two calls and those of the display.
GiveFramebuffers == GiveFramebuffer(0) \o GiveFramebuffer(1)

LEMMA DeleteIs ==
  delete_framebuffers =
    GiveFramebuffers \o Run("egl_destroy", 0) \o destroy_gbm_device
BY DEF delete_framebuffers, Twice, Buffers, GiveFramebuffers, GiveFramebuffer

LEMMA GbmSteps == IsSteps(destroy_gbm_device)
BY StepIsSteps, StepsCat DEF destroy_gbm_device, destroy_mapper, destroy_display_fd

LEMMA DeleteSteps == IsSteps(delete_framebuffers)
BY DeleteIs, GbmSteps, FramebufferSteps, StepIsSteps, StepsCat DEF GiveFramebuffers

LEMMA DeleteFine ==
  ASSUME NEW N, NEW f, NEW r, NEW x, MtEnding(f, r, x),
         NEW l, Base \cup Owned(0) \cup Owned(1) \subseteq l,
         \A y \in l : y \in Base \cup Owned(0) \cup Owned(1) \/ y[1] \in GlKinds,
         NEW e \in Holding(N, {}, f, r, "ready", l, x)
  PROVE  Fine(MT, delete_framebuffers, e)
<1> DEFINE l1 == l \ Owned(0)
           l2 == l1 \ Owned(1)
           l3 == Terminated(l2)
           H(g, v) == Holding(N, {}, f, r, g, v, x)
<1>1. /\ Owned(0) \subseteq l /\ Owned(1) \subseteq l1 /\ Context \in l2
      /\ Owned(0) \cap {} = {} /\ Owned(1) \cap {} = {}
  BY DEF Base, Owned, Context
<1>2. l3 = {Connector} \cup Devices
  <2>1. l3 \subseteq {Connector} \cup Devices
    BY DEF Terminated, Base, GlKinds, Display, Context, Owned
  <2>2. {Connector} \cup Devices \subseteq l2
    BY DEF Base, Owned, Devices, Connector
  <2>3. \A y \in {Connector} \cup Devices : y[1] # "display" /\ y[1] \notin GlKinds
    BY DEF GlKinds, Devices, Connector
  <2> HIDE DEF l2
  <2>4. {Connector} \cup Devices \subseteq l3
    BY <2>2, <2>3 DEF Terminated
  <2> QED
    BY <2>1, <2>4
<1> HIDE DEF l1, l2, l3
<1>3. LeadsInto(MT, H("ready", l), GiveFramebuffer(0), H("ready", l1))
  BY <1>1, FramebufferInto DEF l1
<1>4. LeadsInto(MT, H("ready", l1), GiveFramebuffer(1), H("ready", l2))
  BY <1>1, FramebufferInto DEF l2
<1>5. LeadsInto(MT, H("ready", l2), Run("egl_destroy", 0), H("none", l3))
  BY <1>1, HoldEglDestroy DEF l3
<1>6. \A h \in H("none", l3) : Fine(MT, destroy_gbm_device, h)
  BY <1>2, GbmFine
<1> HIDE DEF H
<1>7. LeadsInto(MT, H("ready", l), GiveFramebuffers \o Run("egl_destroy", 0),
                H("none", l3))
  BY <1>3, <1>4, <1>5, IntoCompose DEF GiveFramebuffers
<1> QED
  BY <1>6, <1>7, GbmSteps, DeleteIs, IntoFine DEF H

\* The second framebuffer is not there, or neither.
LEMMA DeleteAborts ==
  ASSUME NEW N, NEW j, NEW f, NEW r, NEW g, NEW l, NEW x, f \cap Fatal(MT) # {},
         NEW k \in Buffers, k = 1 => Owned(0) \subseteq l,
         (Owned(0) \cup Owned(1)) \cap j = {},
         <<"egl_fb", k>> \notin N, <<"egl_fb", k>> \notin l,
         NEW e \in Holding(N, j, f, r, g, l, x)
  PROVE  Fine(MT, delete_framebuffers, e)
<1> DEFINE H(v) == Holding(N, j, f, r, g, v, x)
           Rest(i) == Give("image", i) \o Give("id", i) \o Give("bo", i)
<1>0. <<"egl_fb", k>> \notin j /\ <<"egl_fb", k>> \notin l \ Owned(0)
      /\ "egl_fb" \in AssertedKinds
  BY DEF Owned, Buffers, AssertedKinds
<1>1. ASSUME NEW v, <<"egl_fb", k>> \notin v
      PROVE  LeadsInto(MT, H(v), GiveFramebuffer(k), {})
  <2>1. LeadsInto(MT, H(v), Give("egl_fb", k), {})
    BY <1>0, <1>1, HoldingAborts
  <2>2. /\ LeadsInto(MT, {}, Give("image", k), {})
        /\ LeadsInto(MT, {}, Give("id", k), {})
        /\ LeadsInto(MT, {}, Give("bo", k), {})
    BY StepIsSteps, NothingInto
  <2> QED
    BY <2>1, <2>2, IntoCompose, Zenon DEF GiveFramebuffer
<1>2. LeadsInto(MT, H(l), GiveFramebuffers, {})
  <2>1. CASE k = 0
    <3>1. LeadsInto(MT, {}, GiveFramebuffer(1), {})
      BY FramebufferSteps, NothingInto
    <3>2. LeadsInto(MT, H(l), GiveFramebuffer(0), {})
      BY <1>1, <2>1
    <3> QED
      BY <3>1, <3>2, IntoCompose DEF GiveFramebuffers
  <2>2. CASE k = 1
    <3>1. Owned(0) \cap j = {}
      OBVIOUS
    <3>2. LeadsInto(MT, H(l), GiveFramebuffer(0), H(l \ Owned(0)))
      BY <2>2, <3>1, FramebufferInto
    <3>3. LeadsInto(MT, H(l \ Owned(0)), GiveFramebuffer(1), {})
      BY <1>0, <1>1, <2>2
    <3> QED
      BY <3>2, <3>3, IntoCompose DEF GiveFramebuffers
  <2> QED
    BY <2>1, <2>2 DEF Buffers
<1>3. LeadsInto(MT, {}, Run("egl_destroy", 0), {})
  BY StepIsSteps, NothingInto
<1> HIDE DEF H
<1>4. LeadsInto(MT, H(l), GiveFramebuffers \o Run("egl_destroy", 0), {})
  BY <1>2, <1>3, IntoCompose
<1> QED
  BY <1>4, GbmSteps, DeleteIs, IntoFine DEF H

\* Everything the program may hold before its program object.
Whole == Base \cup Owned(0) \cup Owned(1) \cup Offscreen

LEMMA OffscreenSteps == IsSteps(destroy_offscreen_buffer)
BY StepIsSteps, StepsCat, DeleteSteps DEF destroy_offscreen_buffer

LEMMA OffscreenFine ==
  ASSUME NEW N, NEW f, NEW r, NEW x, MtEnding(f, r, x),
         NEW l, Whole \subseteq l, \A y \in l : y \in Whole \/ y[1] \in GlKinds,
         NEW e \in Holding(N, {}, f, r, "ready", l, x)
  PROVE  Fine(MT, destroy_offscreen_buffer, e)
<1> DEFINE l1 == l \ {<<"tex", 2>>}
           l2 == l1 \ {<<"image", 2>>}
           l3 == l2 \ {<<"bo", 2>>}
           H(v) == Holding(N, {}, f, r, "ready", v, x)
<1>1. /\ <<"tex", 2>> \in l /\ <<"image", 2>> \in l1 /\ <<"bo", 2>> \in l2
      /\ <<"tex", 2>> \notin {} /\ <<"image", 2>> \notin {} /\ <<"bo", 2>> \notin {}
  BY DEF Whole, Offscreen
<1>2. Base \cup Owned(0) \cup Owned(1) \subseteq l3
  BY DEF Whole, Base, Owned, Devices, Connector, Display, Context
<1>3. \A y \in l3 : y \in Base \cup Owned(0) \cup Owned(1) \/ y[1] \in GlKinds
  BY DEF Whole, Offscreen
<1> HIDE DEF l1, l2, l3
<1>4. LeadsInto(MT, H(l), Give("tex", 2), H(l1))
  BY <1>1, HoldGive DEF l1
<1>5. LeadsInto(MT, H(l1), Give("image", 2), H(l2))
  BY <1>1, HoldGive DEF l2
<1>6. LeadsInto(MT, H(l2), Give("bo", 2), H(l3))
  BY <1>1, HoldGive DEF l3
<1>7. \A h \in H(l3) : Fine(MT, delete_framebuffers, h)
  BY <1>2, <1>3, DeleteFine
<1> HIDE DEF H
<1>8. LeadsInto(MT, H(l), Give("tex", 2) \o Give("image", 2) \o Give("bo", 2), H(l3))
  BY <1>4, <1>5, <1>6, IntoCompose
<1> QED
  BY <1>7, <1>8, DeleteSteps, IntoFine DEF H, destroy_offscreen_buffer

LEMMA ResourcesSteps == IsSteps(destroy_gl_resources)
BY StepIsSteps, StepsCat, OffscreenSteps DEF destroy_gl_resources

LEMMA ResourcesFine ==
  ASSUME NEW N, NEW f, NEW r, NEW x, MtEnding(f, r, x),
         NEW l, Whole \subseteq l, \A y \in l : y \in Whole \/ y[1] \in GlKinds,
         NEW e \in Holding(N, {}, f, r, "ready", l, x)
  PROVE  Fine(MT, destroy_gl_resources, e)
<1> DEFINE l1 == l \ {<<"program", 0>>}
           l2 == l1 \ {<<"vbo", 0>>}
           H(v) == Holding(N, {}, f, r, "ready", v, x)
<1>1. Whole \subseteq l2
  BY DEF Whole, Base, Owned, Offscreen, Devices, Connector, Display, Context
<1>2. \A y \in l2 : y \in Whole \/ y[1] \in GlKinds
  OBVIOUS
<1>3. /\ "program" \in IgnoredKinds /\ "vbo" \in IgnoredKinds
      /\ <<"program", 0>> \notin {} /\ <<"vbo", 0>> \notin {}
  BY DEF IgnoredKinds
<1> HIDE DEF l1, l2
<1>4. LeadsInto(MT, H(l), Give("program", 0), H(l1))
  BY <1>3, HoldIgnored DEF l1
<1>5. LeadsInto(MT, H(l1), Give("vbo", 0), H(l2))
  BY <1>3, HoldIgnored DEF l2
<1>6. \A h \in H(l2) : Fine(MT, destroy_offscreen_buffer, h)
  BY <1>1, <1>2, OffscreenFine
<1> HIDE DEF H
<1>7. LeadsInto(MT, H(l), Give("program", 0) \o Give("vbo", 0), H(l2))
  BY <1>4, <1>5, IntoCompose
<1> QED
  BY <1>6, <1>7, OffscreenSteps, IntoFine DEF H, destroy_gl_resources

\* The buffer of the vertices was not yet made.
LEMMA ResourcesJunk ==
  ASSUME NEW N, NEW f, f \cap Fatal(MT) # {},
         NEW l, l = Whole,
         NEW e \in Holding(N, {<<"vbo", 0>>}, f, 1, "ready", l, {})
  PROVE  Fine(MT, destroy_gl_resources, e)
<1> DEFINE l1 == l \ {<<"program", 0>>}
           x == {} \cup {"uninitialized"}
           VB == <<"vbo", 0>>
           H(j, y) == Holding(N, j, f, 1, "ready", l, y)
<1>1. l1 = l /\ \A y \in l : y[1] # "vbo"
  BY DEF Whole, Base, Owned, Offscreen, Devices, Connector, Display, Context
<1>2. MtEnding(f, 1, x)
  <2>1. x # {} /\ 1 # 0 /\ f # {}
    OBVIOUS
  <2> QED
    BY <2>1 DEF MtEnding
<1>3. "program" \in IgnoredKinds /\ <<"program", 0>> \notin {VB} /\ {VB} \ {VB} = {}
      /\ VB \in {VB}
  BY DEF IgnoredKinds
<1> HIDE DEF x, VB, l1
<1>4. LeadsInto(MT, H({VB}, {}), Give("program", 0), H({VB}, {}))
  <2>1. LeadsInto(MT, H({VB}, {}), Give("program", 0),
                  Holding(N, {VB}, f, 1, "ready", l1, {}))
    BY <1>3, HoldIgnored DEF l1
  <2> QED
    BY <1>1, <2>1
<1>5. LeadsInto(MT, H({VB}, {}), Give("vbo", 0), H({}, x))
  <2>1. LeadsInto(MT, H({VB}, {}), Give("vbo", 0), H({VB} \ {VB}, x))
    <3> DEFINE j == {<<"vbo", 0>>}
    <3>1. <<"vbo", 0>> \in j
      OBVIOUS
    <3> HIDE DEF j
    <3>2. LeadsInto(MT, Holding(N, j, f, 1, "ready", l, {}), Give("vbo", 0),
                    Holding(N, j \ {<<"vbo", 0>>}, f, 1, "ready", l,
                            {} \cup {"uninitialized"}))
      BY <1>1, <3>1, HoldJunk
    <3> QED
      BY <3>2 DEF VB, x, j
  <2> QED
    BY <1>3, <2>1
<1>6. \A h \in H({}, x) : Fine(MT, destroy_offscreen_buffer, h)
  BY <1>2, OffscreenFine
<1> HIDE DEF H
<1>7. LeadsInto(MT, H({VB}, {}), Give("program", 0) \o Give("vbo", 0), H({}, x))
  BY <1>4, <1>5, IntoCompose
<1> QED
  BY <1>6, <1>7, OffscreenSteps, IntoFine DEF H, destroy_gl_resources, VB

----------------------------------------------------------------------------
\* create_framebuffer, whose failures end in assertions.

LEMMA FailingHolds ==
  ASSUME NEW o, NEW j, NEW n, NEW l, l \ {Display, Context} \subseteq n
  PROVE  Failing(o, 1, j, n, "ready", l) \in Holding(n, j, {o}, 1, "ready", l, {})
BY HoldingHas DEF Failing

LEMMA CreateFramebufferLeads ==
  ASSUME NEW k \in Buffers, NEW j, NEW n, NEW l,
         Owned(k) \cap n = {}, Owned(k) \cap l = {},
         (Owned(0) \cup Owned(1)) \cap j = {},
         l \ {Display, Context} \subseteq n, k = 1 => Owned(0) \subseteq l
  PROVE  Leads(MT, Smooth(1, j, n, "ready", l), create_framebuffer(k),
               Smooth(1, j, n \cup {<<"bo", k>>} \cup {<<"id", k>>}
                              \cup {<<"image", k>>} \cup {<<"egl_fb", k>>}, "ready",
                      l \cup {<<"bo", k>>} \cup {<<"id", k>>}
                        \cup {<<"image", k>>} \cup {<<"egl_fb", k>>}))
<1> DEFINE BO == <<"bo", k>>
           ID == <<"id", k>>
           IM == <<"image", k>>
           FB == <<"egl_fb", k>>
           n1 == n \cup {BO}
           n2 == n1 \cup {ID}
           n3 == n2 \cup {IM}
           n4 == n3 \cup {FB}
           l1 == l \cup {BO}
           l2 == l1 \cup {ID}
           l3 == l2 \cup {IM}
           l4 == l3 \cup {FB}
           S(m, v) == Smooth(1, j, m, "ready", v)
           delete_gbm_bo == Give("bo", k) \o delete_framebuffers
           delete_fb == Give("id", k) \o delete_gbm_bo
           delete_gl_image == Give("image", k) \o delete_fb
           delete_gl_fb == Give("egl_fb", k) \o delete_gl_image
<1>s. /\ IsSteps(delete_gbm_bo) /\ IsSteps(delete_fb) /\ IsSteps(delete_gl_image)
      /\ IsSteps(delete_gl_fb)
  <2>1. IsSteps(delete_gbm_bo)
    BY DeleteSteps, StepIsSteps, StepsCat
  <2> HIDE DEF delete_gbm_bo
  <2>2. IsSteps(delete_fb)
    BY <2>1, StepIsSteps, StepsCat
  <2> HIDE DEF delete_fb
  <2>3. IsSteps(delete_gl_image)
    BY <2>2, StepIsSteps, StepsCat
  <2> HIDE DEF delete_gl_image
  <2>4. IsSteps(delete_gl_fb)
    BY <2>3, StepIsSteps, StepsCat
  <2> QED
    BY <2>1, <2>2, <2>3, <2>4
<1>f. BO \in Fatal(MT) /\ ID \in Fatal(MT) /\ IM \in Fatal(MT) /\ FB \in Fatal(MT)
  BY DEF Fatal, MT, Each
<1>d. /\ Owned(k) = {BO, ID, IM, FB}
      /\ BO \notin n /\ ID \notin n /\ IM \notin n /\ FB \notin n
      /\ BO \notin l /\ ID \notin l /\ IM \notin l /\ FB \notin l
      /\ BO \notin j /\ ID \notin j /\ IM \notin j /\ FB \notin j
      /\ BO # ID /\ BO # IM /\ BO # FB /\ ID # IM /\ ID # FB /\ IM # FB
      /\ BO \notin {Display, Context} /\ ID \notin {Display, Context}
  BY DEF Owned, Buffers, Display, Context
<1>o. k = 1 => Owned(0) \subseteq l3 \ {BO}
  BY DEF Owned
<1> HIDE DEF BO, ID, IM, FB
<1>n. /\ l \ {Display, Context} \subseteq n
      /\ l2 \ {Display, Context} \subseteq n2 \ {IM}
      /\ l3 \ {Display, Context} \subseteq n3 \ {FB}
      /\ n \ {BO} = n /\ n1 \ {ID} = n1 /\ n2 \ {IM} = n2 /\ n3 \ {FB} = n3
      /\ IM \notin n1 /\ IM \notin l1 /\ FB \notin n2 /\ FB \notin n3 /\ FB \notin l3
      /\ ID \in l2 /\ BO \in l2 \ {ID} /\ BO \in l3 /\ (l2 \ {ID}) \ {BO} = l
      /\ FB \notin l3 \ {BO} /\ BO \notin l /\ ID \notin l1 /\ IM \notin l2
      /\ FB \notin l
  BY <1>d
<1> HIDE DEF n1, n2, n3, n4, l1, l2, l3, l4, delete_gbm_bo, delete_fb,
         delete_gl_image, delete_gl_fb
<1>k. "egl_fb" \in AssertedKinds /\ "image" \in AssertedKinds
  BY DEF AssertedKinds
<1>0. ASSUME NEW o \in Fatal(MT) PROVE {o} \cap Fatal(MT) # {}
  BY <1>0
<1>1. Leads(MT, S(n, l), Take("bo", k, delete_gl_fb), S(n1, l1))
  <2>1. FB \notin l \cup n \cup j /\ {BO} \cap Fatal(MT) # {}
    BY <1>d, <1>f, <1>0
  <2>2. Fine(MT, delete_gl_fb, Failing(BO, 1, j, n, "ready", l))
    BY <2>1, <1>k, <1>s, GiveAborts DEF FB, delete_gl_fb, Failing
  <2> QED
    BY <2>2, <1>n, <1>d, SmoothTake DEF BO, n1, l1
<1>2. Leads(MT, S(n1, l1), Take("id", k, delete_gl_image), S(n2, l2))
  <2>1. IM \notin l1 \cup n1 \cup j /\ {ID} \cap Fatal(MT) # {}
    BY <1>d, <1>n, <1>f, <1>0
  <2>2. Fine(MT, delete_gl_image, Failing(ID, 1, j, n1, "ready", l1))
    BY <2>1, <1>k, <1>s, GiveAborts DEF IM, delete_gl_image, Failing
  <2> QED
    BY <2>2, <1>n, <1>d, SmoothTake DEF ID, n2, l2
<1> DEFINE H(N, o, v) == Holding(N, j, {o}, 1, "ready", v, {})
<1>3. Leads(MT, S(n2, l2), Take("image", k, delete_fb), S(n3, l3))
  <2>1. LeadsInto(MT, H(n2, IM, l2), Give("id", k), H(n2, IM, l2 \ {ID}))
    BY <1>n, <1>d, HoldGive DEF ID
  <2>2. LeadsInto(MT, H(n2, IM, l2 \ {ID}), Give("bo", k),
                  H(n2, IM, (l2 \ {ID}) \ {BO}))
    BY <1>n, <1>d, HoldGive DEF BO
  <2>3. \A h \in H(n2, IM, l) : Fine(MT, delete_framebuffers, h)
    BY <1>n, <1>0, <1>f, DeleteAborts DEF FB
  <2>4. \A h \in H(n2, IM, l2 \ {ID}) : Fine(MT, delete_gbm_bo, h)
    BY <1>n, <2>2, <2>3, DeleteSteps, IntoFine DEF delete_gbm_bo
  <2>5. \A h \in H(n2, IM, l2) : Fine(MT, delete_fb, h)
    BY <2>1, <2>4, <1>s, IntoFine DEF delete_fb
  <2>6. Failing(IM, 1, j, n2, "ready", l2) \in H(n2, IM, l2)
    BY <1>n, FailingHolds
  <2>7. Fine(MT, delete_fb, Failing(IM, 1, j, n2, "ready", l2))
    BY <2>5, <2>6
  <2> QED
    BY <2>7, <1>n, <1>d, SmoothTake DEF IM, n3, l3
<1>4. Leads(MT, S(n3, l3), Take("egl_fb", k, delete_gbm_bo), S(n4, l4))
  <2>1. LeadsInto(MT, H(n3, FB, l3), Give("bo", k), H(n3, FB, l3 \ {BO}))
    BY <1>n, <1>d, HoldGive DEF BO
  <2>2. \A h \in H(n3, FB, l3 \ {BO}) : Fine(MT, delete_framebuffers, h)
    BY <1>n, <1>o, <1>0, <1>f, DeleteAborts DEF FB
  <2>3. \A h \in H(n3, FB, l3) : Fine(MT, delete_gbm_bo, h)
    BY <2>1, <2>2, DeleteSteps, IntoFine DEF delete_gbm_bo
  <2>4. Failing(FB, 1, j, n3, "ready", l3) \in H(n3, FB, l3)
    BY <1>n, FailingHolds
  <2>5. Fine(MT, delete_gbm_bo, Failing(FB, 1, j, n3, "ready", l3))
    BY <2>3, <2>4
  <2> QED
    BY <2>5, <1>n, <1>d, SmoothTake DEF FB, n4, l4
<1> HIDE DEF S, H
<1>5. create_framebuffer(k) =
        Take("bo", k, delete_gl_fb) \o Take("id", k, delete_gl_image)
        \o Take("image", k, delete_fb) \o Take("egl_fb", k, delete_gbm_bo)
  BY DEF create_framebuffer, delete_gl_fb, delete_gl_image, delete_fb, delete_gbm_bo
<1>6. Leads(MT, S(n, l), create_framebuffer(k), S(n4, l4))
  BY <1>1, <1>2, <1>3, <1>4, <1>5, Compose4
<1> QED
  BY <1>6 DEF S, n4, l4, n3, l3, n2, l2, n1, l1, BO, ID, IM, FB

\* Whatever is named and live.
Loose(N, j, f, r, g, l, x) ==
  {State(n, j, f, r, 0, g, v, x) : n \in SUBSET N, v \in SUBSET l}

LEMMA LooseMember ==
  ASSUME NEW N, NEW j, NEW f, NEW r, NEW g, NEW l, NEW x,
         NEW e \in Loose(N, j, f, r, g, l, x)
  PROVE  e.names \subseteq N /\ e.live \subseteq l /\ e.junk = j /\ e.failed = f
<1>1. PICK n \in SUBSET N, v \in SUBSET l : e = State(n, j, f, r, 0, g, v, x)
  BY DEF Loose
<1> QED
  BY <1>1 DEF State

\* A variable without a value, whatever it takes away.
LEMMA HoldJunkLoose ==
  ASSUME NEW p, NEW kind, kind # "egl_setup", NEW i,
         NEW N, NEW j, NEW f, NEW r, NEW g, NEW l, NEW x,
         <<kind, i>> \in j, f \cap Fatal(p) # {}
  PROVE  LeadsInto(p, Holding(N, j, f, r, g, l, x), Give(kind, i),
                   Loose(N, j \ {<<kind, i>>}, f, r, g, l,
                         x \cup {"uninitialized"}))
<1> DEFINE o == <<kind, i>>
           H == Loose(N, j \ {o}, f, r, g, l, x \cup {"uninitialized"})
<1>0. ASSUME NEW t, \A h \in H : Fine(p, t, h), IsSteps(t),
             NEW e \in Holding(N, j, f, r, g, l, x)
      PROVE  Fine(p, Give(kind, i) \o t, e)
  <2>1. PICK n \in Naming(l, N) : e = State(n, j, f, r, 0, g, l, x)
    BY DEF Holding
  <2>2. /\ e.names = n /\ e.junk = j /\ e.failed = f /\ e.ret = r /\ e.passed = 0
        /\ e.egl = g /\ e.live = l /\ e.faults = x
    BY <2>1 DEF State
  <2>3. AfterGive(e, o) = {GivesJunk(e, o, v) : v \in JunkLeft(e, o)}
    BY <2>2 DEF AfterGive
  <2>4. ASSUME NEW v \in JunkLeft(e, o)
        PROVE  Fine(p, t, GivesJunk(e, o, v))
    <3>1. v \in SUBSET l
      BY <2>2 DEF JunkLeft
    <3>2. n \in SUBSET N
      BY DEF Naming
    <3>3. GivesJunk(e, o, v)
            = State(n, j \ {o}, f, r, 0, g, v, x \cup {"uninitialized"})
      BY <2>2 DEF GivesJunk
    <3>4. GivesJunk(e, o, v) \in H
      BY <3>1, <3>2, <3>3 DEF Loose
    <3> QED
      BY <3>4, <1>0
  <2>5. After(Give(kind, i) \o t, e) = {<<t, h>> : h \in AfterGive(e, o)}
    BY <1>0, AfterFirst DEF StepKinds, Give
  <2>6. Allowed(p, [do |-> "give", of |-> o, else |-> << >>], e)
    BY <2>2 DEF Allowed, Doomed
  <2>7. \A y \in {<<t, h>> : h \in AfterGive(e, o)} :
          Fine(p, y[1], y[2]) /\ y = <<y[1], y[2]>>
    BY <2>3, <2>4
  <2> QED
    BY <1>0, <2>5, <2>6, <2>7, FirstStep DEF StepKinds, Give
<1>1. IsSteps(Give(kind, i))
  BY StepIsSteps
<1> QED
  BY <1>0, <1>1 DEF LeadsInto

----------------------------------------------------------------------------
\* The offscreen buffer and its texture.

TX == <<"tex", 2>>
I2 == <<"image", 2>>
B2 == <<"bo", 2>>
VB == <<"vbo", 0>>

LEMMA MtNames ==
  /\ "image" \in AssertedKinds /\ "image" \in ClearedKinds /\ "tex" \in IgnoredKinds
  /\ TX # I2 /\ TX # B2 /\ I2 # B2 /\ VB # TX /\ VB # I2 /\ VB # B2
  /\ B2 \in Fatal(MT) /\ I2 \in Fatal(MT) /\ <<"target_texture", 2>> \in Fatal(MT)
  /\ TX \notin {Display, Context} /\ I2 \notin {Display, Context}
  /\ B2 \notin {Display, Context}
BY DEF AssertedKinds, ClearedKinds, IgnoredKinds, TX, I2, B2, VB, Fatal, MT, Each,
       Display, Context

LEMMA OffscreenBo ==
  ASSUME NEW n, NEW l, B2 \notin n, B2 \notin l, l \ {Display, Context} \subseteq n,
         \A y \in l : y[1] # "tex"
  PROVE  Leads(MT, Smooth(1, {TX, I2, VB}, n, "ready", l),
               Take("bo", 2, destroy_offscreen_buffer),
               Smooth(1, {TX, I2, VB}, n \cup {B2}, "ready", l \cup {B2}))
<1> DEFINE j == {TX, I2, VB}
           f == {B2}
           x == {} \cup {"uninitialized"}
           j1 == j \ {TX}
           j2 == j1 \ {I2}
           H(k, y) == Holding(n, k, f, 1, "ready", l, y)
           L == Loose(n, j2, f, 1, "ready", l, x \cup {"uninitialized"})
<1>1. /\ TX \in j /\ I2 \in j1 /\ B2 \notin j /\ f \cap Fatal(MT) # {}
      /\ B2 \notin j2 /\ n \ {B2} = n
  BY MtNames
<1> HIDE DEF j, f, x, j1, j2
<1>2. LeadsInto(MT, H(j, {}), Give("tex", 2), H(j1, x))
  BY <1>1, HoldJunk DEF TX, x, j1
<1>3. LeadsInto(MT, H(j1, x), Give("image", 2), L)
  BY <1>1, HoldJunkLoose DEF I2, j2
<1>4. LeadsInto(MT, L, Give("bo", 2), {})
  <2>1. ASSUME NEW e \in L
        PROVE  B2 \notin e.live \cup e.names \cup e.junk /\ Doomed(MT, e)
    <3>1. e.names \subseteq n /\ e.live \subseteq l /\ e.junk = j2 /\ e.failed = f
      BY LooseMember
    <3> QED
      BY <1>1, <3>1 DEF Doomed
  <2> HIDE DEF L
  <2> QED
    BY <2>1, HoldAbort DEF B2
<1> HIDE DEF H, L
<1>5. LeadsInto(MT, H(j, {}), Give("tex", 2) \o Give("image", 2) \o Give("bo", 2), {})
  BY <1>2, <1>3, <1>4, IntoCompose
<1>6. \A h \in H(j, {}) : Fine(MT, destroy_offscreen_buffer, h)
  BY <1>5, DeleteSteps, IntoFine DEF destroy_offscreen_buffer
<1>7. Fine(MT, destroy_offscreen_buffer, Failing(B2, 1, j, n, "ready", l))
  <2>1. Failing(B2, 1, j, n, "ready", l) \in H(j, {})
    BY FailingHolds DEF f, H
  <2> QED
    BY <2>1, <1>6
<1> QED
  BY <1>1, <1>7, SmoothTake DEF B2, j

LEMMA OffscreenImage ==
  ASSUME NEW n, NEW l, I2 \notin n, I2 \notin l, l \ {Display, Context} \subseteq n,
         B2 \in l, \A y \in l : y[1] # "tex"
  PROVE  Leads(MT, Smooth(1, {TX, I2, VB}, n, "ready", l),
               Take("image", 2, Give("bo", 2) \o destroy_offscreen_buffer),
               Smooth(1, {TX, VB}, n \cup {I2}, "ready", l \cup {I2}))
<1> DEFINE j == {TX, VB}
           f == {I2}
           x == {} \cup {"uninitialized"}
           d == Give("bo", 2)
           l1 == l \ {B2}
           H(k, v, y) == Holding(n, k, f, 1, "ready", v, y)
<1>1. /\ TX \in j /\ I2 \notin j /\ I2 \notin j \ {TX} /\ f \cap Fatal(MT) # {}
      /\ n \ {I2} = n /\ {TX, I2, VB} \ {I2} = j /\ B2 \notin j /\ I2 \notin l1
      /\ \A y \in l1 : y[1] # "tex"
  BY MtNames
<1> HIDE DEF j, f, x, l1
<1>2. LeadsInto(MT, H(j, l, {}), Give("bo", 2), H(j, l1, {}))
  BY <1>1, HoldGive DEF B2, l1
<1>3. LeadsInto(MT, H(j, l1, {}), Give("tex", 2), H(j \ {TX}, l1, x))
  BY <1>1, HoldJunk DEF TX, x
<1>4. LeadsInto(MT, H(j \ {TX}, l1, x), Give("image", 2), {})
  BY <1>1, MtNames, HoldingAborts DEF I2
<1>5. LeadsInto(MT, {}, Give("bo", 2), {})
  BY StepIsSteps, NothingInto
<1> HIDE DEF H
<1>6. LeadsInto(MT, H(j, l1, {}), Give("tex", 2) \o Give("image", 2) \o Give("bo", 2), {})
  BY <1>3, <1>4, <1>5, IntoCompose
<1>7. \A h \in H(j, l1, {}) : Fine(MT, destroy_offscreen_buffer, h)
  BY <1>6, DeleteSteps, IntoFine DEF destroy_offscreen_buffer
<1>8. \A h \in H(j, l, {}) : Fine(MT, Give("bo", 2) \o destroy_offscreen_buffer, h)
  BY <1>2, <1>7, OffscreenSteps, IntoFine
<1>9. Fine(MT, Give("bo", 2) \o destroy_offscreen_buffer,
           Failing(I2, 1, j, n, "ready", l))
  <2>1. Failing(I2, 1, j, n, "ready", l) \in H(j, l, {})
    BY FailingHolds DEF f, H
  <2> QED
    BY <2>1, <1>8
<1> DEFINE k == {TX, I2, VB}
<1>10. k \ {I2} = j
  BY <1>1
<1> HIDE DEF k
<1>11. Leads(MT, Smooth(1, k, n, "ready", l),
             Take("image", 2, Give("bo", 2) \o destroy_offscreen_buffer),
             Smooth(1, k \ {I2}, n \cup {I2}, "ready", l \cup {I2}))
  BY <1>1, <1>9, <1>10, SmoothTakeFirst DEF I2
<1> QED
  BY <1>10, <1>11 DEF j, k

LEMMA OffscreenTexture ==
  ASSUME NEW n, NEW l, l \ {Display, Context} \subseteq n,
         B2 \in l, I2 \in l, TX \in l
  PROVE  Leads(MT, Smooth(1, {VB}, n, "ready", l),
               Call("target_texture", 2,
                    Give("tex", 2) \o Give("image", 2)
                    \o (Give("bo", 2) \o destroy_offscreen_buffer)),
               Smooth(1, {VB}, n, "ready", l))
<1> DEFINE o == <<"target_texture", 2>>
           j == {VB}
           f == {o}
           l1 == l \ {TX}
           l2 == l1 \ {I2}
           l3 == l2 \ {B2}
           l4 == l3 \ {TX}
           m == n \ {I2}
           H(N, v) == Holding(N, j, f, 1, "ready", v, {})
           e == Give("bo", 2) \o destroy_offscreen_buffer
<1>1. /\ TX \notin j /\ I2 \notin j /\ B2 \notin j /\ f \cap Fatal(MT) # {}
      /\ I2 \in l1 /\ B2 \in l2 /\ I2 \notin m /\ I2 \notin l4
  BY MtNames
<1>s. IsSteps(e)
  BY OffscreenSteps, StepIsSteps, StepsCat
<1> HIDE DEF j, f, l1, l2, l3, l4, m, e
<1>2. LeadsInto(MT, H(n, l), Give("tex", 2), H(n, l1))
  BY <1>1, HoldGive DEF TX, l1
<1>3. LeadsInto(MT, H(n, l1), Give("image", 2), H(m, l2))
  BY <1>1, MtNames, HoldClear DEF I2, l2, m
<1>4. LeadsInto(MT, H(m, l2), Give("bo", 2), H(m, l3))
  BY <1>1, HoldGive DEF B2, l3
<1>5. LeadsInto(MT, H(m, l3), Give("tex", 2), H(m, l4))
  BY <1>1, MtNames, HoldIgnored DEF TX, l4
<1>6. LeadsInto(MT, H(m, l4), Give("image", 2), {})
  BY <1>1, MtNames, HoldingAborts DEF I2
<1>7. LeadsInto(MT, {}, Give("bo", 2), {})
  BY StepIsSteps, NothingInto
<1> HIDE DEF H
<1>8. LeadsInto(MT, H(m, l3), Give("tex", 2) \o Give("image", 2) \o Give("bo", 2), {})
  BY <1>5, <1>6, <1>7, IntoCompose
<1>9. \A h \in H(m, l3) : Fine(MT, destroy_offscreen_buffer, h)
  BY <1>8, DeleteSteps, IntoFine DEF destroy_offscreen_buffer
<1>10. \A h \in H(m, l2) : Fine(MT, e, h)
  BY <1>4, <1>9, OffscreenSteps, IntoFine DEF e
<1>11. LeadsInto(MT, H(n, l), Give("tex", 2) \o Give("image", 2), H(m, l2))
  BY <1>2, <1>3, IntoCompose
<1>12. \A h \in H(n, l) : Fine(MT, Give("tex", 2) \o Give("image", 2) \o e, h)
  BY <1>10, <1>11, <1>s, IntoFine
<1>13. Fine(MT, Give("tex", 2) \o Give("image", 2) \o e,
            Failing(o, 1, j, n, "ready", l))
  <2>1. Failing(o, 1, j, n, "ready", l) \in H(n, l)
    BY FailingHolds DEF f, H
  <2> QED
    BY <2>1, <1>12
<1> QED
  BY <1>13, SmoothCall DEF e, j

LEMMA OffscreenLeads ==
  ASSUME NEW n, NEW l, Offscreen \cap n = {}, Offscreen \cap l = {},
         l \ {Display, Context} \subseteq n, \A y \in l : y[1] # "tex"
  PROVE  Leads(MT, Smooth(1, {TX, I2, VB}, n, "ready", l), add_offscreen_texture,
               Smooth(1, {VB}, n \cup {B2} \cup {I2} \cup {TX}, "ready",
                      l \cup {B2} \cup {I2} \cup {TX}))
<1> DEFINE n1 == n \cup {B2}
           n2 == n1 \cup {I2}
           n3 == n2 \cup {TX}
           l1 == l \cup {B2}
           l2 == l1 \cup {I2}
           l3 == l2 \cup {TX}
           destroy_offscreen_bo == Give("bo", 2) \o destroy_offscreen_buffer
           destroy_offscreen_image ==
             Give("tex", 2) \o Give("image", 2) \o destroy_offscreen_bo
<1>0. /\ B2 \notin n /\ I2 \notin n /\ TX \notin n
      /\ B2 \notin l /\ I2 \notin l /\ TX \notin l
      /\ B2[1] # "tex"
  BY DEF Offscreen, B2, I2, TX
<1>1. /\ I2 \notin n1 /\ I2 \notin l1 /\ l1 \ {Display, Context} \subseteq n1
      /\ B2 \in l1 /\ \A y \in l1 : y[1] # "tex"
      /\ l3 \ {Display, Context} \subseteq n3 /\ B2 \in l3 /\ I2 \in l3 /\ TX \in l3
      /\ {TX, VB} \ {TX} = {VB}
  BY <1>0, MtNames
<1> HIDE DEF n1, n2, n3, l1, l2, l3
<1>2. Leads(MT, Smooth(1, {TX, I2, VB}, n, "ready", l),
            Take("bo", 2, destroy_offscreen_buffer),
            Smooth(1, {TX, I2, VB}, n1, "ready", l1))
  BY <1>0, OffscreenBo DEF n1, l1
<1>3. Leads(MT, Smooth(1, {TX, I2, VB}, n1, "ready", l1),
            Take("image", 2, destroy_offscreen_bo),
            Smooth(1, {TX, VB}, n2, "ready", l2))
  BY <1>1, OffscreenImage DEF n2, l2
<1>4. Leads(MT, Smooth(1, {TX, VB}, n2, "ready", l2), Make("tex", 2),
            Smooth(1, {VB}, n3, "ready", l3))
  <2> DEFINE j == {TX, VB}
  <2>1. j \ {TX} = {VB}
    BY <1>1
  <2> HIDE DEF j
  <2>2. Leads(MT, Smooth(1, j, n2, "ready", l2), Make("tex", 2),
              Smooth(1, j \ {TX}, n3, "ready", l3))
    BY SmoothMake DEF TX, n3, l3
  <2> QED
    BY <2>1, <2>2 DEF j
<1>5. Leads(MT, Smooth(1, {VB}, n3, "ready", l3),
            Call("target_texture", 2, destroy_offscreen_image),
            Smooth(1, {VB}, n3, "ready", l3))
  BY <1>1, OffscreenTexture
<1> DEFINE e0 == Smooth(1, {TX, I2, VB}, n, "ready", l)
           e1 == Smooth(1, {TX, I2, VB}, n1, "ready", l1)
           e2 == Smooth(1, {TX, VB}, n2, "ready", l2)
           e3 == Smooth(1, {VB}, n3, "ready", l3)
<1>6. add_offscreen_texture =
        Take("bo", 2, destroy_offscreen_buffer)
        \o Take("image", 2, destroy_offscreen_bo) \o Make("tex", 2)
        \o Call("target_texture", 2, destroy_offscreen_image)
  BY DEF add_offscreen_texture
<1> HIDE DEF destroy_offscreen_bo, destroy_offscreen_image, e0, e1, e2, e3
<1>7. Leads(MT, e0, add_offscreen_texture, e3)
  <2>1. Leads(MT, e0, Take("bo", 2, destroy_offscreen_buffer), e1)
    BY <1>2 DEF e0, e1
  <2>2. Leads(MT, e1, Take("image", 2, destroy_offscreen_bo), e2)
    BY <1>3 DEF e1, e2
  <2>3. Leads(MT, e2, Make("tex", 2), e3)
    BY <1>4 DEF e2, e3
  <2>4. Leads(MT, e3, Call("target_texture", 2, destroy_offscreen_image), e3)
    BY <1>5 DEF e3
  <2> QED
    BY <1>6, <2>1, <2>2, <2>3, <2>4, Compose4
<1> QED
  BY <1>7 DEF e0, e3, n3, l3, n2, l2, n1, l1

\* The beginning.
MtStart ==
  Take("card", 0, Return1)
  \o Take("mapper", 0, Crash)
  \o Take("gbm", 0, destroy_mapper)
  \o Call("pipe", 0, destroy_gbm_device)
  \o Take("connector", 0, Crash)
  \o Run("egl_new", 0) \o Call("egl_setup", 0, destroy_gbm_device)

MtOpened == {} \cup {<<"card", 0>>} \cup {<<"mapper", 0>>} \cup {<<"gbm", 0>>}
               \cup {Connector}

LEMMA MtFails ==
  ASSUME NEW o, o \notin Fatal(MT), NEW x
  PROVE  MtEnding({o}, 1, x)
<1>1. {o} \cap Fatal(MT) = {} /\ 1 # 0 /\ {o} # {}
  OBVIOUS
<1> QED
  BY <1>1 DEF MtEnding

LEMMA MtStartLeads ==
  ASSUME NEW j, j = {TX, I2, VB}
  PROVE  Leads(MT, Smooth(1, j, {}, "none", {}), MtStart,
               Smooth(1, j, MtOpened, "ready", MtOpened \cup {Display, Context}))
<1> DEFINE CD == <<"card", 0>>
           MA == <<"mapper", 0>>
           GB == <<"gbm", 0>>
           CN == <<"connector", 0>>
           n1 == {} \cup {CD}
           n2 == n1 \cup {MA}
           n3 == n2 \cup {GB}
           n4 == n3 \cup {CN}
           S(g, n, l) == Smooth(1, j, n, g, l)
<1>f. /\ CD \notin Fatal(MT) /\ MA \in Fatal(MT) /\ GB \notin Fatal(MT)
      /\ <<"pipe", 0>> \notin Fatal(MT) /\ CN \in Fatal(MT)
      /\ \A point \in SetupPoints : <<point, 0>> \notin Fatal(MT)
  BY DEF Fatal, MT, Each, Connector, SetupPoints, EarlyPoints, TerminatingPoints,
         LatePoints
<1>d. /\ CD \notin {} /\ MA \notin n1 /\ GB \notin n2 /\ CN \notin n3
      /\ CD \notin j /\ MA \notin j /\ GB \notin j /\ CN \notin j
      /\ j \cap Devices = {}
  BY DEF TX, I2, VB, Devices
<1>e. /\ n2 = {} \cup {<<"card", 0>>, <<"mapper", 0>>} /\ n3 = {} \cup Devices
      /\ n4 = {Connector} \cup Devices
  BY DEF Devices, Connector
<1>s. n2 \ {GB} = n2 /\ \A n : n \ {Display, Context} \subseteq n
  BY <1>d
<1> HIDE DEF CD, MA, GB, CN, n1, n2, n3, n4
<1>c. {} \subseteq {Connector} /\ {Connector} \subseteq {Connector}
  OBVIOUS
<1>1. Leads(MT, S("none", {}, {}), Take("card", 0, Return1), S("none", n1, n1))
  <2>1. MtEnding({CD}, 1, {})
    BY <1>f, MtFails
  <2> DEFINE e == Failing(CD, 1, j, {} \ {CD}, "none", {})
  <2>2. e.failed = {CD} /\ e.live = {} /\ e.ret = 1 /\ e.faults = {}
    BY DEF Failing, State
  <2> HIDE DEF e
  <2>3. MayEnd(MT, e)
    BY <2>1, <2>2 DEF MayEnd, Doomed, MtEnding
  <2>4. Fine(MT, Return1, e)
    BY <2>3, FineEnd DEF Return1
  <2> QED
    BY <2>4, <1>d, SmoothTake DEF e, CD, n1
<1>2. Leads(MT, S("none", n1, n1), Take("mapper", 0, Crash), S("none", n2, n2))
  <2>1. Fine(MT, Crash, Failing(MA, 1, j, n1 \ {MA}, "none", n1))
    <3>1. Failing(MA, 1, j, n1 \ {MA}, "none", n1).failed = {MA}
      BY DEF Failing, State
    <3> QED
      BY <3>1, <1>f, FineCrash, NoSteps DEF Doomed
  <2> QED
    BY <2>1, <1>d, SmoothTake DEF MA, n2
<1>3. Leads(MT, S("none", n2, n2), Take("gbm", 0, destroy_mapper), S("none", n3, n3))
  <2>1. MtEnding({GB}, 1, {}) /\ {GB} # {}
    BY <1>f, MtFails
  <2>2. Failing(GB, 1, j, n2, "none", n2) \in Holding(n2, j, {GB}, 1, "none", n2, {})
    BY <1>s, HoldingHas DEF Failing
  <2>3. Fine(MT, destroy_mapper, Failing(GB, 1, j, n2, "none", n2))
    BY <1>c, <1>d, <1>e, <2>1, <2>2, MapperFine
  <2> QED
    BY <2>3, <1>s, <1>d, SmoothTake DEF GB, n3
<1>4. Leads(MT, S("none", n3, n3), Call("pipe", 0, destroy_gbm_device),
            S("none", n3, n3))
  <2> DEFINE o == <<"pipe", 0>>
  <2>1. MtEnding({o}, 1, {}) /\ {o} # {}
    BY <1>f, MtFails
  <2>2. Failing(o, 1, j, n3, "none", n3) \in Holding(n3, j, {o}, 1, "none", n3, {})
    BY <1>s, HoldingHas DEF Failing
  <2>3. Fine(MT, destroy_gbm_device, Failing(o, 1, j, n3, "none", n3))
    BY <1>c, <1>d, <1>e, <2>1, <2>2, GbmFine
  <2> QED
    BY <2>3, SmoothCall
<1>5. Leads(MT, S("none", n3, n3), Take("connector", 0, Crash), S("none", n4, n4))
  <2>1. Fine(MT, Crash, Failing(CN, 1, j, n3 \ {CN}, "none", n3))
    <3>1. Failing(CN, 1, j, n3 \ {CN}, "none", n3).failed = {CN}
      BY DEF Failing, State
    <3> QED
      BY <3>1, <1>f, FineCrash, NoSteps DEF Doomed
  <2> QED
    BY <2>1, <1>d, SmoothTake DEF CN, n4
<1>6. Leads(MT, S("none", n4, n4), Run("egl_new", 0), S("new", n4, n4))
  BY GoEglNew DEF Smooth
<1>7. Leads(MT, S("new", n4, n4), Call("egl_setup", 0, destroy_gbm_device),
            S("ready", n4, n4 \cup {Display, Context}))
  <2>1. ASSUME NEW point \in SetupPoints
        PROVE  Fine(MT, destroy_gbm_device,
                    State(n4, j, {} \cup {<<point, 0>>}, 1, 0, "new", n4, {}))
    <3> DEFINE o == <<point, 0>>
    <3>0. {} \cup {o} = {o}
      OBVIOUS
    <3>1. MtEnding({o}, 1, {}) /\ {o} # {}
      BY <1>f, MtFails
    <3>2. State(n4, j, {o}, 1, 0, "new", n4, {})
            \in Holding(n4, j, {o}, 1, "new", n4, {})
      BY <1>s, HoldingHas
    <3>3. Fine(MT, destroy_gbm_device, State(n4, j, {o}, 1, 0, "new", n4, {}))
      BY <1>c, <1>d, <1>e, <3>1, <3>2, GbmFine
    <3> QED
      BY <3>0, <3>3
  <2> QED
    BY <2>1, GoSetup DEF Smooth
<1> HIDE DEF S
<1>8. Leads(MT, S("none", {}, {}), MtStart, S("ready", n4, n4 \cup {Display, Context}))
  BY <1>1, <1>2, <1>3, <1>4, <1>5, <1>6, <1>7, Compose7 DEF MtStart
<1> QED
  BY <1>8 DEF S, MtOpened, n1, n2, n3, n4, CD, MA, GB, CN, Connector

----------------------------------------------------------------------------
\* The end: nothing is left to fail that would be misused.
MtDone(n, f, l) == State(n, {}, f, 0, 0, "ready", l, {})

LEMMA MtEndFine ==
  ASSUME NEW n, NEW l, Whole \subseteq l, \A y \in l : y \in Whole \/ y[1] \in GlKinds,
         l \ {Display, Context} \subseteq n,
         NEW e0, NEW s, Leads(MT, e0, s, MtDone(n, {}, l))
  PROVE  Fine(MT, s \o Call("draw", 2, destroy_gl_resources)
                    \o Try("flush", 1)
                    \o Call("flip", 1, Return(1) \o destroy_gl_resources)
                    \o Call("wait", 1, destroy_gl_resources)
                    \o destroy_gl_resources, e0)
<1> DEFINE d == destroy_gl_resources
           FL == <<"flush", 1>>
           F == {MtDone(n, {}, l), MtDone(n, {FL}, l)}
<1>0. /\ <<"draw", 2>> \in Hidden(MT) /\ FL \in Hidden(MT)
      /\ <<"wait", 1>> \in Hidden(MT)
      /\ Hidden(MT) \cap Fatal(MT) = {} /\ <<"flip", 1>> \notin Fatal(MT)
  BY DEF Hidden, Fatal, MT, Each, Connector
<1> HIDE DEF FL
<1>1. ASSUME NEW f, f \subseteq Hidden(MT)
      PROVE  Fine(MT, d, MtDone(n, f, l))
  <2>1. MtEnding(f, 0, {})
    BY <1>0, <1>1 DEF MtEnding
  <2>2. MtDone(n, f, l) \in Holding(n, {}, f, 0, "ready", l, {})
    BY HoldingHas DEF MtDone
  <2> QED
    BY <2>1, <2>2, ResourcesFine
<1>2. ASSUME NEW f, f \subseteq Hidden(MT)
      PROVE  Fine(MT, Return(1) \o d, MtDone(n, f \cup {<<"flip", 1>>}, l))
  <2> DEFINE h == f \cup {<<"flip", 1>>}
  <2>1. MtEnding(h, 1, {})
    <3>1. h \cap Fatal(MT) = {} /\ h # {} /\ 1 # 0
      BY <1>0, <1>2
    <3> QED
      BY <3>1 DEF MtEnding
  <2> HIDE DEF h
  <2>2. State(n, {}, h, 1, 0, "ready", l, {}) \in Holding(n, {}, h, 1, "ready", l, {})
    BY HoldingHas
  <2>3. Fine(MT, d, State(n, {}, h, 1, 0, "ready", l, {}))
    BY <2>1, <2>2, ResourcesFine
  <2>4. 1 \in 0 .. 2
    OBVIOUS
  <2>5. Fine(MT, Return(1) \o d, MtDone(n, h, l))
    BY <2>3, <2>4, ReturnFirst DEF MtDone
  <2> QED
    BY <2>5 DEF h
<1>3. {} \subseteq Hidden(MT) /\ {FL} \subseteq Hidden(MT)
  BY <1>0
<1> HIDE DEF d
<1>4. LeadsInto(MT, {MtDone(n, {}, l)}, Call("draw", 2, d), {MtDone(n, {}, l)})
  <2>1. {} \cup {<<"draw", 2>>} \subseteq Hidden(MT)
    BY <1>0
  <2>2. Fine(MT, d, MtDone(n, {} \cup {<<"draw", 2>>}, l))
    BY <2>1, <1>1
  <2>3. Leads(MT, MtDone(n, {}, l), Call("draw", 2, d), MtDone(n, {}, l))
    BY <2>2, GoCall DEF MtDone
  <2> QED
    BY <2>3, IntoOne
<1>5. LeadsInto(MT, {MtDone(n, {}, l)}, Try("flush", 1), F)
  <2>1. Lacks(MtDone(n, {}, l), FL) = MtDone(n, {FL}, l)
    <3>1. {} \cup {FL} = {FL}
      OBVIOUS
    <3> QED
      BY <3>1 DEF Lacks, MtDone, State
  <2> QED
    BY <2>1, IntoTry DEF FL
<1>6. LeadsInto(MT, F, Call("flip", 1, Return(1) \o d), F)
  <2>1. ASSUME NEW f, f \subseteq Hidden(MT)
        PROVE  Leads(MT, MtDone(n, f, l), Call("flip", 1, Return(1) \o d),
                     MtDone(n, f, l))
    BY <1>2, <2>1, GoCall DEF MtDone
  <2>2. \A e \in F : Leads(MT, e, Call("flip", 1, Return(1) \o d), e)
    BY <1>3, <2>1
  <2>3. IsSteps(Call("flip", 1, Return(1) \o d))
    BY StepIsSteps
  <2> QED
    BY <2>2, <2>3, IntoEach
<1>7. LeadsInto(MT, F, Call("wait", 1, d), F)
  <2>1. ASSUME NEW f, f \subseteq Hidden(MT)
        PROVE  Leads(MT, MtDone(n, f, l), Call("wait", 1, d), MtDone(n, f, l))
    <3>1. f \cup {<<"wait", 1>>} \subseteq Hidden(MT)
      BY <1>0, <2>1
    <3>2. Fine(MT, d, MtDone(n, f \cup {<<"wait", 1>>}, l))
      BY <3>1, <1>1
    <3> QED
      BY <3>2, GoCall DEF MtDone
  <2>2. \A e \in F : Leads(MT, e, Call("wait", 1, d), e)
    BY <1>3, <2>1
  <2>3. IsSteps(Call("wait", 1, d))
    BY StepIsSteps
  <2> QED
    BY <2>2, <2>3, IntoEach
<1> HIDE DEF F
<1>8. LeadsInto(MT, {e0}, s, {MtDone(n, {}, l)})
  BY IntoOne
<1>9. LeadsInto(MT, {e0},
                s \o Call("draw", 2, d) \o Try("flush", 1)
                \o Call("flip", 1, Return(1) \o d) \o Call("wait", 1, d), F)
  BY <1>4, <1>5, <1>6, <1>7, <1>8, IntoCompose
<1>10. \A e \in F : Fine(MT, d, e)
  BY <1>1, <1>3 DEF F
<1>11. IsSteps(d)
  BY ResourcesSteps DEF d
<1> QED
  BY <1>9, <1>10, <1>11, IntoFine DEF d

\* The names after each part.
MtFb(n, k) == n \cup {<<"bo", k>>} \cup {<<"id", k>>} \cup {<<"image", k>>}
                \cup {<<"egl_fb", k>>}
MtTexture(n) == n \cup {B2} \cup {I2} \cup {TX}
MtProgram(n) == n \cup {<<"program", 0>>} \cup {<<"shader", 0>>} \cup {<<"shader", 1>>}

LEMMA MtProgramLeads ==
  ASSUME NEW n, NEW l, l = Whole, l \ {Display, Context} \subseteq n
  PROVE  Leads(MT, Smooth(1, {VB}, n, "ready", l), program_create(destroy_gl_resources),
               Smooth(1, {VB}, MtProgram(n), "ready", l \cup {<<"program", 0>>}))
<1> DEFINE d == destroy_gl_resources
           j == {VB}
<1>1. GlNames \cap l = {} /\ GlNames \cap j = {}
  BY DEF GlNames, Whole, Base, Owned, Offscreen, Devices, Connector, Display,
         Context, VB
<1>2. \A o \in GlFailures : {} \cup {o} = {o} /\ {o} \cap Fatal(MT) # {}
  BY DEF GlFailures, GlNames, Fatal, MT, Each
<1> HIDE DEF d
<1>3. ASSUME NEW m, n \ GlNames \subseteq m, NEW o \in GlFailures
      PROVE  Fine(MT, d, State(m, j, {} \cup {o}, 1, 0, "ready", l, {}))
  <2>1. l \ {Display, Context} \subseteq m
    BY <1>1, <1>3
  <2>2. State(m, j, {o}, 1, 0, "ready", l, {}) \in Holding(m, j, {o}, 1, "ready", l, {})
    BY <2>1, HoldingHas
  <2>3. {o} \cap Fatal(MT) # {} /\ {} \cup {o} = {o}
    BY <1>2
  <2>4. Fine(MT, d, State(m, j, {o}, 1, 0, "ready", l, {}))
    BY <2>2, <2>3, ResourcesJunk DEF VB, d
  <2> QED
    BY <2>3, <2>4
<1>4. Bears(MT, d, n, j, {}, 1, 0, "ready", l, {})
  BY <1>3 DEF Bears
<1> QED
  BY <1>1, <1>4, ProgramCreateLeads DEF Smooth, MtProgram, d

LEMMA MtMiddle ==
  ASSUME NEW n, NEW l, l = Whole \cup {<<"program", 0>>},
         l \ {Display, Context} \subseteq n,
         NEW e0, NEW s, Leads(MT, e0, s, Smooth(1, {VB}, n, "ready", l))
  PROVE  Leads(MT, e0,
               s \o Make("vbo", 0) \o Call("set_crtc", 0, destroy_gl_resources)
               \o Return(0),
               MtDone(n \cup {VB}, {}, l \cup {VB}))
<1> DEFINE j == {VB}
           m == n \cup {VB}
           v == l \cup {VB}
           d == destroy_gl_resources
           o == <<"set_crtc", 0>>
<1>1. j \ {VB} = {} /\ v \ {Display, Context} \subseteq m /\ Whole \subseteq v
      /\ \A y \in v : y \in Whole \/ y[1] \in GlKinds
  BY DEF GlKinds, VB
<1>2. MtEnding({o}, 1, {})
  <2>1. o \notin Fatal(MT)
    BY DEF Fatal, MT, Each, Connector
  <2> QED
    BY <2>1, MtFails
<1> HIDE DEF j, m, v
<1>3. Leads(MT, Smooth(1, j, n, "ready", l), Make("vbo", 0),
            Smooth(1, j \ {VB}, m, "ready", v))
  BY SmoothMake DEF VB, m, v
<1>4. Leads(MT, Smooth(1, {}, m, "ready", v), Call("set_crtc", 0, d),
            Smooth(1, {}, m, "ready", v))
  <2>1. Failing(o, 1, {}, m, "ready", v) \in Holding(m, {}, {o}, 1, "ready", v, {})
    BY <1>1, FailingHolds
  <2>2. Fine(MT, d, Failing(o, 1, {}, m, "ready", v))
    BY <1>1, <1>2, <2>1, ResourcesFine
  <2> QED
    BY <2>2, SmoothCall
<1>5. Leads(MT, Smooth(1, {}, m, "ready", v), Return(0), MtDone(m, {}, v))
  <2>1. 0 \in 0 .. 2
    OBVIOUS
  <2> QED
    BY <2>1, GoReturn DEF Smooth, MtDone
<1>6. Leads(MT, e0, s \o Make("vbo", 0) \o Call("set_crtc", 0, d) \o Return(0),
            MtDone(m, {}, v))
  BY <1>1, <1>3, <1>4, <1>5, Compose4 DEF j
<1> QED
  BY <1>6 DEF j, m, v

\* mapped_texture_test.c.
LEMMA MappedTextureFine ==
  Fine("mapped_texture_test", mapped_texture_test,
       State({}, Uninitialized("mapped_texture_test"), {}, 1, 0, "none", {}, {}))
<1> DEFINE j == {TX, I2, VB}
           B == MtOpened
           C == {Display, Context}
           b1 == MtFb(B, 0)
           b2 == MtFb(b1, 1)
           b3 == MtTexture(b2)
           b4 == MtProgram(b3)
           b5 == b4 \cup {VB}
           l0 == B \cup C
           l1 == MtFb(l0, 0)
           l2 == MtFb(l1, 1)
           l3 == MtTexture(l2)
           l4 == l3 \cup {<<"program", 0>>}
           l5 == l4 \cup {VB}
<1>j. Uninitialized("mapped_texture_test") = j
  BY DEF Uninitialized, TX, I2, VB
<1>0. /\ Owned(0) \cap B = {} /\ Owned(0) \cap l0 = {}
      /\ (Owned(0) \cup Owned(1)) \cap j = {}
      /\ l0 \ C \subseteq B
  BY DEF Owned, MtOpened, Connector, Display, Context, TX, I2, VB
<1>1. /\ Owned(1) \cap b1 = {} /\ Owned(1) \cap l1 = {}
      /\ l1 \ C \subseteq b1 /\ Owned(0) \subseteq l1
  BY DEF Owned, MtOpened, Connector, Display, Context, MtFb
<1>2. /\ Offscreen \cap b2 = {} /\ Offscreen \cap l2 = {}
      /\ l2 \ C \subseteq b2 /\ \A y \in l2 : y[1] # "tex"
  BY DEF Offscreen, Owned, MtOpened, Connector, Display, Context, MtFb
<1>3. l3 = Whole /\ l3 \ C \subseteq b3
  <2>1. l3 = Whole
    BY DEF Whole, Base, Offscreen, Owned, Devices, MtOpened, Connector, Display,
           Context, MtFb, MtTexture, B2, I2, TX
  <2>2. l3 \ C \subseteq b3
    BY DEF MtFb, MtTexture
  <2> QED
    BY <2>1, <2>2
<1> HIDE DEF b1, b2, b3, l1, l2, l3
<1>4. l4 \ C \subseteq b4
  BY <1>3 DEF MtProgram
<1>5. /\ Whole \subseteq l5 /\ \A y \in l5 : y \in Whole \/ y[1] \in GlKinds
      /\ l5 \ C \subseteq b5
  BY <1>3, <1>4 DEF GlKinds, VB
<1> HIDE DEF j, B, C, b4, b5, l0, l4, l5
<1>6. Leads(MT, Smooth(1, j, {}, "none", {}), MtStart, Smooth(1, j, B, "ready", l0))
  BY MtStartLeads DEF j, B, C, l0
<1>7. Leads(MT, Smooth(1, j, B, "ready", l0), create_framebuffer(0),
            Smooth(1, j, b1, "ready", l1))
  <2>1. 0 \in Buffers /\ 0 # 1
    BY DEF Buffers
  <2> QED
    BY <1>0, <2>1, CreateFramebufferLeads DEF b1, l1, MtFb, C
<1>8. Leads(MT, Smooth(1, j, b1, "ready", l1), create_framebuffer(1),
            Smooth(1, j, b2, "ready", l2))
  <2>1. 1 \in Buffers
    BY DEF Buffers
  <2> QED
    BY <1>0, <1>1, <2>1, CreateFramebufferLeads DEF b2, l2, MtFb, C
<1>9. Leads(MT, Smooth(1, j, b2, "ready", l2), add_offscreen_texture,
            Smooth(1, {VB}, b3, "ready", l3))
  BY <1>2, OffscreenLeads DEF b3, l3, MtTexture, C, j
<1>10. Leads(MT, Smooth(1, {VB}, b3, "ready", l3),
             program_create(destroy_gl_resources), Smooth(1, {VB}, b4, "ready", l4))
  BY <1>3, MtProgramLeads DEF b4, l4, C
<1> DEFINE e0 == Smooth(1, j, {}, "none", {})
           e1 == Smooth(1, j, B, "ready", l0)
           e2 == Smooth(1, j, b1, "ready", l1)
           e3 == Smooth(1, j, b2, "ready", l2)
           e4 == Smooth(1, {VB}, b3, "ready", l3)
           e5 == Smooth(1, {VB}, b4, "ready", l4)
           s == MtStart \o create_framebuffer(0) \o create_framebuffer(1)
                \o add_offscreen_texture \o program_create(destroy_gl_resources)
           m == s \o Make("vbo", 0) \o Call("set_crtc", 0, destroy_gl_resources)
                \o Return(0)
<1>13. /\ Leads(MT, e0, MtStart, e1) /\ Leads(MT, e1, create_framebuffer(0), e2)
       /\ Leads(MT, e2, create_framebuffer(1), e3)
       /\ Leads(MT, e3, add_offscreen_texture, e4)
       /\ Leads(MT, e4, program_create(destroy_gl_resources), e5)
  BY <1>6, <1>7, <1>8, <1>9, <1>10
<1> HIDE DEF e0, e1, e2, e3, e4, e5
<1>14. Leads(MT, e0, s, e5)
  BY <1>13, Compose5
<1> HIDE DEF s
<1>15. Leads(MT, e0, m, MtDone(b5, {}, l5))
  BY <1>14, <1>3, <1>4, MtMiddle DEF e5, b5, l5, l4, C
<1> HIDE DEF m
<1>16. Fine(MT, m \o Call("draw", 2, destroy_gl_resources)
                  \o Try("flush", 1)
                  \o Call("flip", 1, Return(1) \o destroy_gl_resources)
                  \o Call("wait", 1, destroy_gl_resources)
                  \o destroy_gl_resources, e0)
  BY <1>5, <1>15, MtEndFine DEF C
<1>17. Fine(MT, mapped_texture_test, e0)
  BY <1>16 DEF m, s, mapped_texture_test, MtStart
<1> QED
  BY <1>j, <1>17 DEF e0, MT, Smooth

----------------------------------------------------------------------------
\* linear_bo_test.c.

LinearState(n, f, c, l) == State(n, {}, f, 1, c, "ready", l, {})

LinearBase == {<<"card", 0>>, <<"gbm", 0>>, <<"connector", 0>>, <<"mapper", 0>>}

\* What the first k cases leave, when none of them fails.
Framebuffers(k) == {<<"created_fb", i>> : i \in 0 .. k - 1}
Descriptors(k) == {<<"bo_fd", i>> : i \in {m \in 0 .. k - 1 : UsageLinear(m)}}
LinearFull(k) ==
  LinearBase \cup {Display, Context} \cup Framebuffers(k) \cup Descriptors(k)
FailedBos(k) == {<<"bo", i>> : i \in 0 .. k - 1}

\* After k cases: a case that failed was one without a buffer object.
LinearAt(k, n, f, c, l) ==
  /\ f \subseteq FailedBos(k) /\ c \in 0 .. k
  /\ f = {} <=> c = 0
  /\ LinearBase \cup {Display, Context} \subseteq l
  /\ l \subseteq LinearFull(k) /\ l \ {Display, Context} \subseteq n
  /\ f = {} => l = LinearFull(k)

LinearDone(k, s) ==
  /\ IsSteps(s)
  /\ \A n, f, c, l : LinearAt(k, n, f, c, l) =>
                       Fine("linear_bo_test", s, LinearState(n, f, c, l))

LEMMA LinearIs ==
  /\ Plain("linear_bo_test")
  /\ Fatal("linear_bo_test") = {<<"connector", 0>>, <<"egl_fb", 0>>, <<"egl_fb", 2>>}
  /\ Hidden("linear_bo_test") = {}
  /\ \A n : LeftBehind("linear_bo_test", n)
              = {<<"connector", 0>>, <<"card", 0>>, <<"gbm", 0>>, <<"bo_fd", 1>>,
                 <<"bo_fd", 3>>}
<1>1. Each({"bo_fd"}, {1, 3}) = {<<"bo_fd", 1>>, <<"bo_fd", 3>>}
  BY DEF Each
<1> QED
  BY <1>1 DEF Plain, Fatal, Hidden, LeftBehind, Connector, Fb

\* Failures that are none of those do no harm at the end.
LEMMA QuitAfter ==
  ASSUME NEW p, Plain(p), NEW f, f # {}, f \cap Fatal(p) = {}, NEW n, NEW j,
         NEW c, NEW g, NEW l
  PROVE  Fine(p, Return1, State(n, j, f, 1, c, g, l, {}))
<1>1. MayEnd(p, State(n, j, f, 1, c, g, l, {}))
  BY DEF MayEnd, Doomed, State, Plain
<1> QED
  BY <1>1, FineEnd DEF Return1

LEMMA LinearQuit ==
  ASSUME NEW k \in 0 .. 3, NEW f, f \subseteq FailedBos(k), NEW kind, NEW i,
         kind \notin {"connector", "egl_fb"}, NEW n, NEW c, NEW l
  PROVE  Fine("linear_bo_test", Return1, LinearState(n, f \cup {<<kind, i>>}, c, l))
<1>1. (f \cup {<<kind, i>>}) \cap Fatal("linear_bo_test") = {}
  BY LinearIs DEF FailedBos
<1>2. f \cup {<<kind, i>>} # {}
  OBVIOUS
<1> QED
  BY <1>1, <1>2, QuitAfter, LinearIs DEF LinearState

\* The calls of a case, each after the ones before.
LEMMA LinearTake ==
  ASSUME NEW k \in 0 .. 3, NEW f, f \subseteq FailedBos(k), NEW kind, NEW i,
         NEW n, NEW c, NEW l,
         kind \notin {"connector", "egl_fb", "egl_setup"}, <<kind, i>> \notin l
  PROVE  Leads("linear_bo_test", LinearState(n, f, c, l), Take(kind, i, Return1),
               LinearState(n \cup {<<kind, i>>}, f, c, l \cup {<<kind, i>>}))
<1>1. Fine("linear_bo_test", Return1,
           LinearState(n \ {<<kind, i>>}, f \cup {<<kind, i>>}, c, l))
  BY LinearQuit
<1>2. {} \ {<<kind, i>>} = {}
  OBVIOUS
<1> QED
  BY <1>1, <1>2, GoTake DEF LinearState

LEMMA LinearTakeOr ==
  ASSUME NEW f, NEW kind, NEW i, NEW n, NEW c, NEW l, NEW else,
         kind # "egl_setup", <<kind, i>> \notin l,
         Fine("linear_bo_test", else,
              LinearState(n \ {<<kind, i>>}, f \cup {<<kind, i>>}, c, l))
  PROVE  Leads("linear_bo_test", LinearState(n, f, c, l), Take(kind, i, else),
               LinearState(n \cup {<<kind, i>>}, f, c, l \cup {<<kind, i>>}))
<1>2. {} \ {<<kind, i>>} = {}
  OBVIOUS
<1> QED
  BY <1>2, GoTake DEF LinearState

LEMMA LinearGive ==
  ASSUME NEW f, NEW kind, NEW i, NEW n, NEW c, NEW l,
         kind \notin {"egl_setup", "display", "gbm"},
         <<kind, i>> \in l, <<kind, i>> \in n
  PROVE  Leads("linear_bo_test", LinearState(n, f, c, l), Give(kind, i),
               LinearState(IF kind \in ClearedKinds THEN n \ {<<kind, i>>} ELSE n,
                           f, c, l \ {<<kind, i>>}))
<1>2. <<kind, i>> \notin {}
  OBVIOUS
<1> QED
  BY <1>2, GoGive DEF LinearState

LEMMA LinearGiveClear ==
  ASSUME NEW f, NEW kind \in {"image", "egl_fb"}, NEW i, NEW n, NEW c, NEW l,
         <<kind, i>> \in l, <<kind, i>> \in n
  PROVE  Leads("linear_bo_test", LinearState(n, f, c, l), Give(kind, i),
               LinearState(n \ {<<kind, i>>}, f, c, l \ {<<kind, i>>}))
<1>1. kind \in ClearedKinds
  BY DEF ClearedKinds, AssertedKinds
<1> QED
  BY <1>1, LinearGive

LEMMA LinearGiveKeep ==
  ASSUME NEW f, NEW kind \in {"bo", "map", "program", "mapper"}, NEW i, NEW n,
         NEW c, NEW l, <<kind, i>> \in l, <<kind, i>> \in n
  PROVE  Leads("linear_bo_test", LinearState(n, f, c, l), Give(kind, i),
               LinearState(n, f, c, l \ {<<kind, i>>}))
<1>1. kind \notin ClearedKinds
  BY DEF ClearedKinds, AssertedKinds
<1> QED
  BY <1>1, LinearGive

LEMMA LinearCall ==
  ASSUME NEW f, NEW kind, NEW i, NEW n, NEW c, NEW l, NEW else,
         kind # "egl_setup",
         Fine("linear_bo_test", else, LinearState(n, f \cup {<<kind, i>>}, c, l))
  PROVE  Leads("linear_bo_test", LinearState(n, f, c, l), Call(kind, i, else),
               LinearState(n, f, c, l))
BY GoCall DEF LinearState

\* The end after a failure in the middle of drawing: the program, the framebuffer
\* and the image go.
LEMMA LinearFbDestroy ==
  ASSUME NEW k \in 0 .. 3, NEW f, f \subseteq FailedBos(k), NEW kind, NEW i,
         kind \notin {"connector", "egl_fb"}, NEW n, NEW c, NEW l,
         <<"egl_fb", k>> \in l, <<"egl_fb", k>> \in n,
         <<"image", k>> \in l, <<"image", k>> \in n
  PROVE  Fine("linear_bo_test", Give("egl_fb", k) \o Give("image", k),
              LinearState(n, f \cup {<<kind, i>>}, c, l))
<1> DEFINE h == f \cup {<<kind, i>>}
           n1 == n \ {<<"egl_fb", k>>}
           l1 == l \ {<<"egl_fb", k>>}
           n2 == n1 \ {<<"image", k>>}
           l2 == l1 \ {<<"image", k>>}
<1>1. Leads("linear_bo_test", LinearState(n, h, c, l), Give("egl_fb", k),
            LinearState(n1, h, c, l1))
  BY LinearGiveClear
<1>2. <<"image", k>> \in l1 /\ <<"image", k>> \in n1
  OBVIOUS
<1>3. Leads("linear_bo_test", LinearState(n1, h, c, l1), Give("image", k),
            LinearState(n2, h, c, l2))
  BY <1>2, LinearGiveClear
<1>4. h # {} /\ h \cap Fatal("linear_bo_test") = {}
  <2>1. h # {}
    OBVIOUS
  <2>2. (f \cup {<<kind, i>>}) \cap Fatal("linear_bo_test") = {}
    BY LinearIs DEF FailedBos
  <2> QED
    BY <2>1, <2>2 DEF h
<1>5. MayEnd("linear_bo_test", LinearState(n2, h, c, l2))
  BY <1>4, LinearIs DEF MayEnd, Doomed, State, LinearState, Plain
<1> HIDE DEF h, n1, l1, n2, l2
<1>6. Leads("linear_bo_test", LinearState(n, h, c, l),
            Give("egl_fb", k) \o Give("image", k), LinearState(n2, h, c, l2))
  BY <1>1, <1>3, Compose
<1>7. Fine("linear_bo_test", Give("egl_fb", k) \o Give("image", k),
           LinearState(n, h, c, l))
  BY <1>5, <1>6, LeadsEnd
<1> QED
  BY <1>7 DEF h

----------------------------------------------------------------------------
LEMMA LinearGl ==
  ASSUME NEW k \in 0 .. 3, NEW f, f \subseteq FailedBos(k), k \in {0, 2},
         NEW n, NEW c, NEW l,
         <<"image", k>> \notin l, <<"egl_fb", k>> \notin l, GlNames \cap l = {}
  PROVE  \E m : /\ n \ {<<"image", k>>, <<"egl_fb", k>>} \subseteq m
                /\ Leads("linear_bo_test", LinearState(n, f, c, l),
                         test_case_draw_gl(k), LinearState(m, f, c, l))
<1> DEFINE p == "linear_bo_test"
           i == <<"image", k>>
           b == <<"egl_fb", k>>
           g == <<"program", 0>>
           n1 == n \cup {i}
           l1 == l \cup {i}
           n2 == n1 \cup {b}
           l2 == l1 \cup {b}
           n3 == n2 \cup {g} \cup {<<"shader", 0>>} \cup {<<"shader", 1>>}
           l3 == l2 \cup {g}
           l4 == l3 \ {g}
           n4 == n3 \ {b}
           l5 == l4 \ {b}
           n5 == n4 \ {i}
           l6 == l5 \ {i}
           image_destroy == Give("image", k)
           fb_destroy == Give("egl_fb", k) \o image_destroy
           delete_program == Give("program", 0) \o fb_destroy
<1>d. /\ i \notin l /\ b \notin l1 /\ GlNames \cap l2 = {} /\ g \in l3 /\ g \in n3
      /\ b \in l2 /\ b \in n2 /\ i \in l2 /\ i \in n2
      /\ b \in l4 /\ b \in n3 /\ i \in l4 /\ i \in n3
      /\ i \in l5 /\ i \in n4
      /\ i \in n1 /\ i \in l1 /\ i \in n1 \ {b}
  BY DEF GlNames
<1>e. \A m : n2 \ GlNames \subseteq m => b \in m /\ i \in m
  BY DEF GlNames
<1>f. l6 = l
  BY DEF GlNames
<1>g. n \ {i, b} \subseteq n5
  OBVIOUS
<1>h. i \notin l1 \ {i} /\ i \notin (n1 \ {b}) \ {i}
  OBVIOUS
<1>s. /\ IsSteps(image_destroy) /\ IsSteps(fb_destroy) /\ IsSteps(delete_program)
  BY StepIsSteps, StepsCat
<1>t. test_case_draw_gl(k)
        = Take("image", k, Return1)
          \o Take("egl_fb", k, Give("image", k) \o image_destroy)
          \o program_create(fb_destroy)
          \o Call("uniform", 0, delete_program)
          \o delete_program
  BY DEF test_case_draw_gl
<1>u. f \cup {b} # {} /\ b \in Fatal(p) /\ (f \cup {b}) \cap Fatal(p) # {}
  BY LinearIs
<1> HIDE DEF n1, n2, n3, n4, n5, l1, l2, l3, l4, l5, l6
<1>1. Leads(p, LinearState(n, f, c, l), Take("image", k, Return1),
            LinearState(n1, f, c, l1))
  BY <1>d, LinearTake DEF n1, l1
<1>2. Fine(p, image_destroy, LinearState((n1 \ {b}) \ {i}, f \cup {b}, c, l1 \ {i}))
  <2>1. "image" \in AssertedKinds \cup {"bo"}
    BY DEF AssertedKinds
  <2>2. i \notin (l1 \ {i}) \cup ((n1 \ {b}) \ {i}) \cup {}
    BY <1>h
  <2>3. Fine(p, Give("image", k) \o << >>,
             LinearState((n1 \ {b}) \ {i}, f \cup {b}, c, l1 \ {i}))
    BY <2>1, <2>2, <1>u, NoSteps, GiveAborts DEF LinearState
  <2> QED
    BY <2>3, <1>s, CatNothing
<1>3. Leads(p, LinearState(n1 \ {b}, f \cup {b}, c, l1), Give("image", k),
            LinearState((n1 \ {b}) \ {i}, f \cup {b}, c, l1 \ {i}))
  BY <1>d, LinearGiveClear
<1>4. Fine(p, Give("image", k) \o image_destroy,
           LinearState(n1 \ {b}, f \cup {b}, c, l1))
  BY <1>2, <1>3, LeadsFine
<1>5. Leads(p, LinearState(n1, f, c, l1),
            Take("egl_fb", k, Give("image", k) \o image_destroy),
            LinearState(n2, f, c, l2))
  <2>1. "egl_fb" # "egl_setup"
    OBVIOUS
  <2> HIDE DEF image_destroy
  <2> QED
    BY <2>1, <1>4, <1>d, LinearTakeOr DEF n2, l2
<1>6. ASSUME NEW m, n2 \ GlNames \subseteq m, NEW o \in GlFailures
      PROVE  Fine(p, fb_destroy, State(m, {}, f \cup {o}, 1, c, "ready", l2, {}))
  <2>1. PICK kind \in {"program", "shader", "compile", "link"}, j \in {0, 1} :
          o = <<kind, j>>
    BY DEF GlFailures, GlNames
  <2>2. b \in m /\ i \in m
    BY <1>6, <1>e
  <2>3. kind \notin {"connector", "egl_fb"}
    OBVIOUS
  <2>4. Fine(p, fb_destroy, LinearState(m, f \cup {<<kind, j>>}, c, l2))
    BY <2>2, <2>3, <1>d, LinearFbDestroy
  <2> QED
    BY <2>1, <2>4 DEF LinearState
<1>7. Leads(p, LinearState(n2, f, c, l2), program_create(fb_destroy),
            LinearState(n3, f, c, l3))
  <2>1. Bears(p, fb_destroy, n2, {}, f, 1, c, "ready", l2, {})
    BY <1>6 DEF Bears
  <2>2. GlNames \cap {} = {}
    OBVIOUS
  <2> HIDE DEF fb_destroy
  <2> QED
    BY <2>1, <2>2, <1>d, ProgramCreateLeads DEF LinearState, n3, l3
<1>8. Leads(p, LinearState(n3, f \cup {<<"uniform", 0>>}, c, l3), Give("program", 0),
            LinearState(n3, f \cup {<<"uniform", 0>>}, c, l4))
  BY <1>d, LinearGiveKeep DEF l4
<1>9. Fine(p, fb_destroy, LinearState(n3, f \cup {<<"uniform", 0>>}, c, l4))
  <2>1. "uniform" \notin {"connector", "egl_fb"}
    OBVIOUS
  <2> QED
    BY <2>1, <1>d, LinearFbDestroy
<1>10. Fine(p, delete_program, LinearState(n3, f \cup {<<"uniform", 0>>}, c, l3))
  <2> HIDE DEF fb_destroy
  <2> QED
    BY <1>8, <1>9, LeadsFine
<1>11. Leads(p, LinearState(n3, f, c, l3), Call("uniform", 0, delete_program),
             LinearState(n3, f, c, l3))
  <2>1. "uniform" # "egl_setup"
    OBVIOUS
  <2> HIDE DEF delete_program
  <2> QED
    BY <2>1, <1>10, LinearCall
<1>12. Leads(p, LinearState(n3, f, c, l3), Give("program", 0),
             LinearState(n3, f, c, l4))
  BY <1>d, LinearGiveKeep DEF l4
<1>13. Leads(p, LinearState(n3, f, c, l4), Give("egl_fb", k), LinearState(n4, f, c, l5))
  BY <1>d, LinearGiveClear DEF n4, l5
<1>14. Leads(p, LinearState(n4, f, c, l5), Give("image", k), LinearState(n5, f, c, l6))
  BY <1>d, LinearGiveClear DEF n5, l6
<1>15. Leads(p, LinearState(n3, f, c, l4), fb_destroy, LinearState(n5, f, c, l6))
  BY <1>13, <1>14, Compose
<1>16. Leads(p, LinearState(n3, f, c, l3), delete_program, LinearState(n5, f, c, l6))
  <2> HIDE DEF fb_destroy
  <2> QED
    BY <1>12, <1>15, Compose
<1>17. Leads(p, LinearState(n, f, c, l), test_case_draw_gl(k),
             LinearState(n5, f, c, l6))
  <2> HIDE DEF fb_destroy, delete_program, image_destroy
  <2> QED
    BY <1>t, <1>1, <1>5, <1>7, <1>11, <1>16, Compose5
<1> QED
  BY <1>17, <1>f, <1>g

LEMMA LinearDma ==
  ASSUME NEW k \in 0 .. 3, NEW f, f \subseteq FailedBos(k),
         NEW n, NEW c, NEW l, <<"bo_fd", k>> \notin l, <<"map", k>> \notin l
  PROVE  Leads("linear_bo_test", LinearState(n, f, c, l), test_case_draw_dma_buf(k),
               LinearState(n \cup {<<"bo_fd", k>>} \cup {<<"map", k>>}, f, c,
                           l \cup {<<"bo_fd", k>>}))
<1> DEFINE p == "linear_bo_test"
           n1 == n \cup {<<"bo_fd", k>>}
           l1 == l \cup {<<"bo_fd", k>>}
           n2 == n1 \cup {<<"map", k>>}
           l2 == l1 \cup {<<"map", k>>}
           l3 == l2 \ {<<"map", k>>}
<1>1. <<"map", k>> \notin l1 /\ <<"map", k>> \in l2 /\ <<"map", k>> \in n2
      /\ l3 = l1
  OBVIOUS
<1> HIDE DEF n1, n2, l1, l2, l3
<1>2. Leads(p, LinearState(n, f, c, l), Take("bo_fd", k, Return1),
            LinearState(n1, f, c, l1))
  BY LinearTake DEF n1, l1
<1>3. Leads(p, LinearState(n1, f, c, l1), Take("map", k, Return1),
            LinearState(n2, f, c, l2))
  BY <1>1, LinearTake DEF n2, l2
<1>4. Leads(p, LinearState(n2, f, c, l2), Give("map", k), LinearState(n2, f, c, l3))
  BY <1>1, LinearGiveKeep DEF l3
<1>5. Leads(p, LinearState(n, f, c, l), test_case_draw_dma_buf(k),
            LinearState(n2, f, c, l1))
  BY <1>1, <1>2, <1>3, <1>4, Compose3 DEF test_case_draw_dma_buf
<1> QED
  BY <1>5 DEF n2, n1, l1

LEMMA LinearFullStep ==
  ASSUME NEW k \in 0 .. 3
  PROVE  /\ LinearFull(k) \subseteq LinearFull(k + 1)
         /\ FailedBos(k) \subseteq FailedBos(k + 1)
         /\ LinearFull(k + 1) = LinearFull(k) \cup {<<"created_fb", k>>}
                  \cup (IF UsageLinear(k) THEN {<<"bo_fd", k>>} ELSE {})
         /\ <<"bo", k>> \in FailedBos(k + 1)
<1>1. 0 .. (k + 1) - 1 = (0 .. k - 1) \cup {k}
  OBVIOUS
<1>2. Framebuffers(k + 1) = Framebuffers(k) \cup {<<"created_fb", k>>}
  BY <1>1 DEF Framebuffers
<1>3. Descriptors(k + 1)
        = Descriptors(k) \cup (IF UsageLinear(k) THEN {<<"bo_fd", k>>} ELSE {})
  BY <1>1 DEF Descriptors
<1>4. FailedBos(k + 1) = FailedBos(k) \cup {<<"bo", k>>}
  BY <1>1 DEF FailedBos
<1> QED
  BY <1>2, <1>3, <1>4 DEF LinearFull

LEMMA LinearNotYet ==
  ASSUME NEW k \in 0 .. 3, NEW l, l \subseteq LinearFull(k)
  PROVE  /\ \A y \in l : y[1] \in {"card", "gbm", "connector", "mapper", "display",
                                   "context", "created_fb", "bo_fd"}
         /\ <<"created_fb", k>> \notin l /\ <<"bo_fd", k>> \notin l
<1>1. \A y \in LinearFull(k) :
        y[1] \in {"card", "gbm", "connector", "mapper", "display", "context",
                  "created_fb", "bo_fd"}
  BY DEF LinearFull, LinearBase, Framebuffers, Descriptors, Display, Context
<1>2. <<"created_fb", k>> \notin Framebuffers(k) /\ <<"bo_fd", k>> \notin Descriptors(k)
  BY DEF Framebuffers, Descriptors
<1>3. <<"created_fb", k>> \notin LinearFull(k)
  BY <1>2 DEF LinearFull, LinearBase, Descriptors, Display, Context
<1>4. <<"bo_fd", k>> \notin LinearFull(k)
  BY <1>2 DEF LinearFull, LinearBase, Framebuffers, Display, Context
<1> QED
  BY <1>1, <1>3, <1>4

\* A case without a buffer object.
LEMMA LinearMissed ==
  ASSUME NEW k \in 0 .. 3, NEW n, NEW f, NEW c, NEW l, LinearAt(k, n, f, c, l)
  PROVE  /\ c \in 0 .. 3
         /\ LinearAt(k + 1, n \ {<<"bo", k>>}, f \cup {<<"bo", k>>}, c + 1, l)
<1>1. f \subseteq FailedBos(k) /\ c \in 0 .. k /\ l \subseteq LinearFull(k)
      /\ LinearBase \cup {Display, Context} \subseteq l
      /\ l \ {Display, Context} \subseteq n
  BY DEF LinearAt
<1>2. c \in 0 .. 3 /\ c + 1 \in 0 .. k + 1 /\ c + 1 # 0
  BY <1>1
<1>3. <<"bo", k>> \notin l
  BY <1>1, LinearNotYet
<1>4. l \ {Display, Context} \subseteq n \ {<<"bo", k>>}
  BY <1>1, <1>3
<1>5. f \cup {<<"bo", k>>} \subseteq FailedBos(k + 1)
  BY <1>1, LinearFullStep
<1>6. l \subseteq LinearFull(k + 1)
  BY <1>1, LinearFullStep
<1>7. f \cup {<<"bo", k>>} # {}
  OBVIOUS
<1> QED
  BY <1>1, <1>2, <1>4, <1>5, <1>6, <1>7 DEF LinearAt

\* A case that is drawn.
LEMMA LinearDrawn ==
  ASSUME NEW k \in 0 .. 3, NEW n, NEW f, NEW c, NEW l, LinearAt(k, n, f, c, l),
         NEW m, (n \cup {<<"bo", k>>} \cup {<<"created_fb", k>>})
                  \ {<<"image", k>>, <<"egl_fb", k>>} \subseteq m,
         NEW h, h = l \cup {<<"bo", k>>} \cup {<<"created_fb", k>>}
                      \cup (IF UsageLinear(k) THEN {<<"bo_fd", k>>} ELSE {}),
         UsageLinear(k) => <<"bo_fd", k>> \in m
  PROVE  LinearAt(k + 1, m, f, c, h \ {<<"bo", k>>})
<1>1. f \subseteq FailedBos(k) /\ c \in 0 .. k /\ l \subseteq LinearFull(k)
      /\ LinearBase \cup {Display, Context} \subseteq l
      /\ l \ {Display, Context} \subseteq n
      /\ (f = {} <=> c = 0) /\ (f = {} => l = LinearFull(k))
  BY DEF LinearAt
<1>2. <<"bo", k>> \notin l /\ <<"image", k>> \notin l /\ <<"egl_fb", k>> \notin l
  BY <1>1, LinearNotYet
<1>3. h \ {<<"bo", k>>} = l \cup {<<"created_fb", k>>}
                            \cup (IF UsageLinear(k) THEN {<<"bo_fd", k>>} ELSE {})
  BY <1>2
<1>4. LinearBase \cup {Display, Context} \subseteq h \ {<<"bo", k>>}
  BY <1>1, <1>3
<1>5. h \ {<<"bo", k>>} \subseteq LinearFull(k + 1)
      /\ (f = {} => h \ {<<"bo", k>>} = LinearFull(k + 1))
  BY <1>1, <1>3, LinearFullStep
<1>6. (h \ {<<"bo", k>>}) \ {Display, Context} \subseteq m
  BY <1>1, <1>2, <1>3
<1>7. f \subseteq FailedBos(k + 1) /\ c \in 0 .. k + 1
  BY <1>1, LinearFullStep
<1> QED
  BY <1>1, <1>4, <1>5, <1>6, <1>7 DEF LinearAt
----------------------------------------------------------------------------
LEMMA LinearDraws ==
  ASSUME NEW k \in 0 .. 3, NEW f, f \subseteq FailedBos(k),
         NEW n, NEW c, NEW l, <<"bo_fd", k>> \notin l, <<"map", k>> \notin l,
         <<"image", k>> \notin l, <<"egl_fb", k>> \notin l, GlNames \cap l = {}
  PROVE  \E m : /\ n \ {<<"image", k>>, <<"egl_fb", k>>} \subseteq m
                /\ UsageLinear(k) => <<"bo_fd", k>> \in m
                /\ Leads("linear_bo_test", LinearState(n, f, c, l),
                         IF UsageLinear(k) THEN test_case_draw_dma_buf(k)
                         ELSE test_case_draw_gl(k),
                         LinearState(m, f, c,
                           l \cup (IF UsageLinear(k) THEN {<<"bo_fd", k>>} ELSE {})))
<1>1. CASE UsageLinear(k)
  <2>1. Leads("linear_bo_test", LinearState(n, f, c, l), test_case_draw_dma_buf(k),
               LinearState(n \cup {<<"bo_fd", k>>} \cup {<<"map", k>>}, f, c,
                           l \cup {<<"bo_fd", k>>}))
    BY LinearDma
  <2> QED
    BY <1>1, <2>1
<1>2. CASE ~UsageLinear(k)
  <2>1. k \in {0, 2} /\ l \cup {} = l
    BY <1>2 DEF UsageLinear
  <2>2. PICK m : /\ n \ {<<"image", k>>, <<"egl_fb", k>>} \subseteq m
                 /\ Leads("linear_bo_test", LinearState(n, f, c, l),
                         test_case_draw_gl(k), LinearState(m, f, c, l))
    BY <2>1, LinearGl
  <2> QED
    BY <1>2, <2>1, <2>2
<1> QED
  BY <1>1, <1>2

LEMMA LinearBuilder ==
  ASSUME NEW kind \in BuilderRuns, NEW k, NEW n, NEW f, NEW c, NEW l
  PROVE  Leads("linear_bo_test", LinearState(n, f, c, l), Run(kind, k),
               LinearState(n, f, c, l))
BY GoBuilder

LEMMA LeadsNowhere ==
  ASSUME NEW p, NEW e
  PROVE  Leads(p, e, << >>, e)
<1>1. ASSUME NEW t, Fine(p, t, e)
      PROVE  Fine(p, << >> \o t, e)
  BY <1>1, FineSteps, CatNothing
<1> QED
  BY <1>1, NoSteps DEF Leads

\* The calls of the builder before the framebuffer.
LEMMA LinearBuilds ==
  ASSUME NEW k \in 0 .. 3, NEW n, NEW f, NEW c, NEW l, NEW e0, NEW s,
         Leads("linear_bo_test", e0, s, LinearState(n, f, c, l))
  PROVE  Leads("linear_bo_test", e0,
               s \o Run("builder_new", k) \o Run("gbm_bo", k)
               \o (IF FbFormatGiven(k) THEN Run("fb_format", k) ELSE << >>)
               \o Run("create_fb", k), LinearState(n, f, c, l))
<1> DEFINE e == LinearState(n, f, c, l)
           p == "linear_bo_test"
<1>1. /\ Leads(p, e, Run("builder_new", k), e) /\ Leads(p, e, Run("gbm_bo", k), e)
      /\ Leads(p, e, Run("fb_format", k), e) /\ Leads(p, e, Run("create_fb", k), e)
  BY LinearBuilder DEF BuilderRuns
<1>2. Leads(p, e, IF FbFormatGiven(k) THEN Run("fb_format", k) ELSE << >>, e)
  BY <1>1, LeadsNowhere
<1> HIDE DEF e
<1>3. Leads(p, e0, s, e)
  BY DEF e
<1> QED
  BY <1>1, <1>2, <1>3, Compose5 DEF e

\* A case of the test, whether its buffer object is there or not.
LEMMA LinearCase ==
  ASSUME NEW k \in 0 .. 3, NEW rest, LinearDone(k + 1, rest),
         NEW n, NEW f, NEW c, NEW l, LinearAt(k, n, f, c, l)
  PROVE  Fine("linear_bo_test", test_case(k, rest), LinearState(n, f, c, l))
<1> DEFINE p == "linear_bo_test"
           o == <<"bo", k>>
           n1 == n \cup {o}
           l1 == l \cup {o}
           n2 == n1 \cup {<<"created_fb", k>>}
           l2 == l1 \cup {<<"created_fb", k>>}
           l3 == l2 \cup (IF UsageLinear(k) THEN {<<"bo_fd", k>>} ELSE {})
           failed_case == Run("case_failed", k) \o rest
           formatted == IF FbFormatGiven(k) THEN Run("fb_format", k) ELSE << >>
           drawn == IF UsageLinear(k) THEN test_case_draw_dma_buf(k)
                    ELSE test_case_draw_gl(k)
<1>1. f \subseteq FailedBos(k) /\ l \subseteq LinearFull(k)
  BY DEF LinearAt
<1>2. /\ \A y \in l : y[1] \in {"card", "gbm", "connector", "mapper", "display",
                                "context", "created_fb", "bo_fd"}
      /\ <<"created_fb", k>> \notin l /\ <<"bo_fd", k>> \notin l
  BY <1>1, LinearNotYet
<1>3. /\ o \notin l /\ <<"created_fb", k>> \notin l1
      /\ <<"bo_fd", k>> \notin l2 /\ <<"map", k>> \notin l2
      /\ <<"image", k>> \notin l2 /\ <<"egl_fb", k>> \notin l2 /\ GlNames \cap l2 = {}
      /\ o \in l3
  BY <1>2 DEF GlNames
<1>4. \A m : n2 \ {<<"image", k>>, <<"egl_fb", k>>} \subseteq m => o \in m
  OBVIOUS
<1>5. IsSteps(rest)
  BY DEF LinearDone
<1>t. test_case(k, rest)
        = Take("bo", k, failed_case)
          \o Run("builder_new", k) \o Run("gbm_bo", k)
          \o formatted
          \o Run("create_fb", k)
          \o Take("created_fb", k, Run("builder_destroy", k))
          \o Run("builder_destroy", k)
          \o drawn
          \o Give("bo", k)
          \o rest
  BY DEF test_case
<1>6. Fine(p, failed_case, LinearState(n \ {o}, f \cup {o}, c, l))
  <2>1. /\ c \in 0 .. 3
        /\ LinearAt(k + 1, n \ {o}, f \cup {o}, c + 1, l)
    BY LinearMissed
  <2>2. Fine(p, rest, LinearState(n \ {o}, f \cup {o}, c + 1, l))
    BY <2>1 DEF LinearDone
  <2>3. Leads(p, LinearState(n \ {o}, f \cup {o}, c, l), Run("case_failed", k),
              LinearState(n \ {o}, f \cup {o}, c + 1, l))
    BY <2>1, GoCase DEF LinearState
  <2> QED
    BY <2>2, <2>3, LeadsFine
<1>7. PICK m : /\ n2 \ {<<"image", k>>, <<"egl_fb", k>>} \subseteq m
               /\ UsageLinear(k) => <<"bo_fd", k>> \in m
               /\ Leads(p, LinearState(n2, f, c, l2), drawn, LinearState(m, f, c, l3))
  <2> HIDE DEF n2, l2, p
  <2> QED
    BY <1>1, <1>3, LinearDraws DEF p
<1>8. LinearAt(k + 1, m, f, c, l3 \ {o})
  BY <1>7, LinearDrawn
<1>9. Fine(p, rest, LinearState(m, f, c, l3 \ {o}))
  BY <1>8 DEF LinearDone
<1>10. o \in m
  BY <1>4, <1>7
<1> HIDE DEF n1, l1, n2, l2, l3, failed_case, formatted, drawn
<1>11. Leads(p, LinearState(n, f, c, l), Take("bo", k, failed_case),
             LinearState(n1, f, c, l1))
  BY <1>3, <1>6, LinearTakeOr DEF n1, l1
<1>12. Leads(p, LinearState(n, f, c, l),
             Take("bo", k, failed_case)
               \o Run("builder_new", k) \o Run("gbm_bo", k)
               \o formatted
               \o Run("create_fb", k), LinearState(n1, f, c, l1))
  BY <1>11, LinearBuilds DEF formatted
<1>13. Leads(p, LinearState(n1, f, c, l1),
             Take("created_fb", k, Run("builder_destroy", k)),
             LinearState(n2, f, c, l2))
  <2> DEFINE q == LinearState(n1 \ {<<"created_fb", k>>},
                              f \cup {<<"created_fb", k>>}, c, l1)
  <2>1. Leads(p, q, Run("builder_destroy", k), q)
    BY LinearBuilder DEF BuilderRuns
  <2>2. Fine(p, Return1, q)
    BY <1>1, LinearQuit
  <2>3. Fine(p, Run("builder_destroy", k) \o Return1, q)
    <3> HIDE DEF q
    <3> QED
      BY <2>1, <2>2, LeadsFine
  <2>4. Run("builder_destroy", k) \o Return1 = Run("builder_destroy", k)
    BY StepIsSteps, CatNothing DEF Return1
  <2> QED
    BY <2>3, <2>4, <1>3, LinearTakeOr DEF n2, l2
<1>14. Leads(p, LinearState(n2, f, c, l2), Run("builder_destroy", k),
             LinearState(n2, f, c, l2))
  BY LinearBuilder DEF BuilderRuns
<1>15. Leads(p, LinearState(m, f, c, l3), Give("bo", k),
             LinearState(m, f, c, l3 \ {o}))
  BY <1>3, <1>10, LinearGiveKeep
<1>16. Leads(p, LinearState(n, f, c, l),
             Take("bo", k, failed_case)
               \o Run("builder_new", k) \o Run("gbm_bo", k)
               \o formatted
               \o Run("create_fb", k)
               \o Take("created_fb", k, Run("builder_destroy", k))
               \o Run("builder_destroy", k)
               \o drawn
               \o Give("bo", k), LinearState(m, f, c, l3 \ {o}))
  BY <1>7, <1>12, <1>13, <1>14, <1>15, Compose5
<1> QED
  BY <1>t, <1>9, <1>16, LeadsFine

LEMMA ProgramSteps ==
  ASSUME NEW else
  PROVE  IsSteps(program_create(else))
BY StepIsSteps, StepsCat DEF program_create, shader_create

LEMMA DrawSteps ==
  ASSUME NEW k
  PROVE  IsSteps(test_case_draw_gl(k)) /\ IsSteps(test_case_draw_dma_buf(k))
<1> DEFINE fb_destroy == Give("egl_fb", k) \o Give("image", k)
           delete_program == Give("program", 0) \o fb_destroy
<1>1. IsSteps(fb_destroy)
  BY StepIsSteps, StepsCat
<1>2. IsSteps(delete_program)
  <2> HIDE DEF fb_destroy
  <2> QED
    BY <1>1, StepIsSteps, StepsCat
<1>3. test_case_draw_gl(k)
        = Take("image", k, Return1)
          \o Take("egl_fb", k, Give("image", k) \o Give("image", k))
          \o program_create(fb_destroy)
          \o Call("uniform", 0, delete_program)
          \o delete_program
  BY DEF test_case_draw_gl
<1> HIDE DEF fb_destroy, delete_program
<1>4. IsSteps(test_case_draw_gl(k))
  BY <1>2, <1>3, StepIsSteps, ProgramSteps, StepsCat
<1>5. IsSteps(test_case_draw_dma_buf(k))
  BY StepIsSteps, StepsCat DEF test_case_draw_dma_buf
<1> QED
  BY <1>4, <1>5

LEMMA CaseSteps ==
  ASSUME NEW k, NEW rest, IsSteps(rest)
  PROVE  IsSteps(test_case(k, rest))
<1>1. IsSteps(IF FbFormatGiven(k) THEN Run("fb_format", k) ELSE << >>)
  BY StepIsSteps, NoSteps
<1>2. IsSteps(IF UsageLinear(k) THEN test_case_draw_dma_buf(k) ELSE test_case_draw_gl(k))
  BY DrawSteps
<1> QED
  BY <1>1, <1>2, StepIsSteps, StepsCat DEF test_case

LinearFinish ==
  Give("mapper", 0)
  \o Call("set_crtc_if_made", 0, Return1) \o Call("set_crtc_if_made", 1, Return1)
  \o Call("set_crtc_if_made", 2, Return1) \o Call("set_crtc_if_made", 3, Return1)
  \o Give("created_fb", 0) \o Give("created_fb", 1)
  \o Give("created_fb", 2) \o Give("created_fb", 3)
  \o Run("egl_destroy", 0)
  \o Run("return_all_pass", 0)

LinearShown(l) ==
  ((((l \ {<<"mapper", 0>>}) \ {<<"created_fb", 0>>}) \ {<<"created_fb", 1>>})
     \ {<<"created_fb", 2>>}) \ {<<"created_fb", 3>>}

\* Without a failure only what the program forgets is left.
LEMMA LinearLeft ==
  LET l == LinearShown(LinearFull(4)) IN
  Terminated(l) = {<<"connector", 0>>, <<"card", 0>>, <<"gbm", 0>>, <<"bo_fd", 1>>,
                   <<"bo_fd", 3>>}
<1>1. Framebuffers(4) = {<<"created_fb", 0>>, <<"created_fb", 1>>,
                         <<"created_fb", 2>>, <<"created_fb", 3>>}
  <2>1. 0 .. 4 - 1 = {0, 1, 2, 3}
    OBVIOUS
  <2> QED
    BY <2>1 DEF Framebuffers
<1>2. Descriptors(4) = {<<"bo_fd", 1>>, <<"bo_fd", 3>>}
  <2>1. {m \in 0 .. 4 - 1 : UsageLinear(m)} = {1, 3}
    BY DEF UsageLinear
  <2> QED
    BY <2>1 DEF Descriptors
<1>3. LinearShown(LinearFull(4))
        = {<<"connector", 0>>, <<"card", 0>>, <<"gbm", 0>>, <<"bo_fd", 1>>,
           <<"bo_fd", 3>>, <<"display", 0>>, <<"context", 0>>}
  BY <1>1, <1>2 DEF LinearShown, LinearFull, LinearBase, Display, Context
<1> QED
  BY <1>3 DEF Terminated, GlKinds

LEMMA LinearShow ==
  ASSUME NEW i, NEW n, NEW f, NEW c, NEW l, f \cap Fatal("linear_bo_test") = {}
  PROVE  Leads("linear_bo_test", LinearState(n, f, c, l),
               Call("set_crtc_if_made", i, Return1), LinearState(n, f, c, l))
<1>1. (f \cup {<<"set_crtc_if_made", i>>}) \cap Fatal("linear_bo_test") = {}
  BY LinearIs
<1>2. f \cup {<<"set_crtc_if_made", i>>} # {}
  OBVIOUS
<1>3. Fine("linear_bo_test", Return1,
           LinearState(n, f \cup {<<"set_crtc_if_made", i>>}, c, l))
  BY <1>1, <1>2, QuitAfter, LinearIs DEF LinearState
<1> QED
  BY <1>3, LinearCall

LEMMA LinearGiveIgnored ==
  ASSUME NEW i, NEW n, NEW f, NEW c, NEW l,
         <<"created_fb", i>> \in l => <<"created_fb", i>> \in n
  PROVE  Leads("linear_bo_test", LinearState(n, f, c, l), Give("created_fb", i),
               LinearState(n, f, c, l \ {<<"created_fb", i>>}))
<1>1. "created_fb" \in IgnoredKinds /\ <<"created_fb", i>> \notin {}
  BY DEF IgnoredKinds
<1> QED
  BY <1>1, GoGiveIgnored DEF LinearState

LEMMA LinearFinishFine ==
  ASSUME NEW n, NEW f, NEW c, NEW l, LinearAt(4, n, f, c, l)
  PROVE  Fine("linear_bo_test", LinearFinish, LinearState(n, f, c, l))
<1> DEFINE p == "linear_bo_test"
           l1 == l \ {<<"mapper", 0>>}
           l2 == l1 \ {<<"created_fb", 0>>}
           l3 == l2 \ {<<"created_fb", 1>>}
           l4 == l3 \ {<<"created_fb", 2>>}
           l5 == l4 \ {<<"created_fb", 3>>}
           l6 == Terminated(l5)
           r == IF c = 0 THEN 0 ELSE 2
           e == State(n, {}, f, 1, c, "none", l6, {})
           s == State(n, {}, f, r, c, "none", l6, {})
<1>1. /\ f \subseteq FailedBos(4) /\ (f = {} <=> c = 0) /\ c \in 0 .. 4
      /\ LinearBase \cup {Display, Context} \subseteq l
      /\ l \ {Display, Context} \subseteq n
      /\ (f = {} => l = LinearFull(4))
  BY DEF LinearAt
<1>2. f \cap Fatal(p) = {}
  BY <1>1, LinearIs DEF FailedBos
<1>3. /\ <<"mapper", 0>> \in l /\ <<"mapper", 0>> \in n /\ Context \in l5
      /\ <<"created_fb", 0>> \in l1 => <<"created_fb", 0>> \in n
      /\ <<"created_fb", 1>> \in l2 => <<"created_fb", 1>> \in n
      /\ <<"created_fb", 2>> \in l3 => <<"created_fb", 2>> \in n
      /\ <<"created_fb", 3>> \in l4 => <<"created_fb", 3>> \in n
  BY <1>1 DEF LinearBase, Display, Context
<1>4. f = {} => l6 = LeftBehind(p, n)
  BY <1>1, LinearLeft, LinearIs DEF LinearShown
<1>5. MayEnd(p, s)
  BY <1>1, <1>2, <1>4, LinearIs DEF MayEnd, Doomed, State, Plain
<1> HIDE DEF l1, l2, l3, l4, l5, l6, e, s
<1>6. Leads(p, LinearState(n, f, c, l), Give("mapper", 0), LinearState(n, f, c, l1))
  BY <1>3, LinearGiveKeep DEF l1
<1>7. \A i : Leads(p, LinearState(n, f, c, l1), Call("set_crtc_if_made", i, Return1),
                   LinearState(n, f, c, l1))
  BY <1>2, LinearShow
<1>8. Leads(p, LinearState(n, f, c, l),
            Give("mapper", 0)
            \o Call("set_crtc_if_made", 0, Return1)
            \o Call("set_crtc_if_made", 1, Return1)
            \o Call("set_crtc_if_made", 2, Return1)
            \o Call("set_crtc_if_made", 3, Return1), LinearState(n, f, c, l1))
  BY <1>6, <1>7, Compose5
<1>9. Leads(p, LinearState(n, f, c, l1), Give("created_fb", 0), LinearState(n, f, c, l2))
  BY <1>3, LinearGiveIgnored DEF l2
<1>10. Leads(p, LinearState(n, f, c, l2), Give("created_fb", 1), LinearState(n, f, c, l3))
  BY <1>3, LinearGiveIgnored DEF l3
<1>11. Leads(p, LinearState(n, f, c, l3), Give("created_fb", 2), LinearState(n, f, c, l4))
  BY <1>3, LinearGiveIgnored DEF l4
<1>12. Leads(p, LinearState(n, f, c, l4), Give("created_fb", 3), LinearState(n, f, c, l5))
  BY <1>3, LinearGiveIgnored DEF l5
<1>13. Leads(p, LinearState(n, f, c, l5), Run("egl_destroy", 0), e)
  BY <1>3, GoEglDestroy DEF LinearState, e, l6
<1>14. Leads(p, e, Run("return_all_pass", 0), s)
  BY GoReturnPass DEF e, s
<1>15. Leads(p, LinearState(n, f, c, l), LinearFinish, s)
  BY <1>8, <1>9, <1>10, <1>11, <1>12, <1>13, <1>14, Compose7 DEF LinearFinish
<1> QED
  BY <1>5, <1>15, LeadsEnd

LEMMA LinearCases ==
  LinearDone(0, test_case(0, test_case(1, test_case(2, test_case(3, LinearFinish)))))
<1>1. IsSteps(LinearFinish)
  BY StepIsSteps, StepsCat DEF LinearFinish
<1>2. LinearDone(4, LinearFinish)
  BY <1>1, LinearFinishFine DEF LinearDone
<1>3. ASSUME NEW k \in 0 .. 3, NEW rest, LinearDone(k + 1, rest)
      PROVE  LinearDone(k, test_case(k, rest))
  <2>1. IsSteps(test_case(k, rest))
    BY <1>3, CaseSteps DEF LinearDone
  <2>2. ASSUME NEW n, NEW f, NEW c, NEW l, LinearAt(k, n, f, c, l)
        PROVE  Fine("linear_bo_test", test_case(k, rest), LinearState(n, f, c, l))
    BY <1>3, <2>2, LinearCase
  <2> QED
    BY <2>1, <2>2 DEF LinearDone
<1> DEFINE s4 == LinearFinish
           s3 == test_case(3, s4)
           s2 == test_case(2, s3)
           s1 == test_case(1, s2)
           s0 == test_case(0, s1)
<1>4. LinearDone(3 + 1, s4)
  BY <1>2
<1> HIDE DEF s4
<1>5. LinearDone(2 + 1, s3)
  BY <1>3, <1>4
<1> HIDE DEF s3
<1>6. LinearDone(1 + 1, s2)
  BY <1>3, <1>5
<1> HIDE DEF s2
<1>7. LinearDone(0 + 1, s1)
  BY <1>3, <1>6
<1> HIDE DEF s1
<1>8. LinearDone(0, s0)
  BY <1>3, <1>7
<1> QED
  BY <1>8 DEF s0, s1, s2, s3, s4

LEMMA OpenDisplay ==
  ASSUME NEW p, Plain(p), <<"connector", 0>> \in Fatal(p),
         <<"card", 0>> \notin Fatal(p), <<"gbm", 0>> \notin Fatal(p),
         <<"pipe", 0>> \notin Fatal(p)
  PROVE  Leads(p, Calm({}, "none", {}), open_display,
               Calm({<<"card", 0>>, <<"gbm", 0>>, <<"connector", 0>>}, "none",
                    {<<"card", 0>>, <<"gbm", 0>>, <<"connector", 0>>}))
<1> DEFINE n1 == {} \cup {<<"card", 0>>}
           n2 == n1 \cup {<<"gbm", 0>>}
           n3 == n2 \cup {<<"connector", 0>>}
<1>1. <<"card", 0>> \notin {} /\ <<"gbm", 0>> \notin n1 /\ <<"connector", 0>> \notin n2
  OBVIOUS
<1>2. n3 = {<<"card", 0>>, <<"gbm", 0>>, <<"connector", 0>>}
  OBVIOUS
<1> HIDE DEF n1, n2, n3
<1>3. Leads(p, Calm({}, "none", {}), Take("card", 0, Return1), Calm(n1, "none", n1))
  BY <1>1, CalmTake DEF n1
<1>4. Leads(p, Calm(n1, "none", n1), Take("gbm", 0, Return1), Calm(n2, "none", n2))
  BY <1>1, CalmTake DEF n2
<1>5. Leads(p, Calm(n2, "none", n2), Call("pipe", 0, Return1), Calm(n2, "none", n2))
  BY CalmCall
<1>6. Leads(p, Calm(n2, "none", n2), Take("connector", 0, Crash), Calm(n3, "none", n3))
  BY <1>1, CalmTakeCrash DEF n3
<1> QED
  BY <1>2, <1>3, <1>4, <1>5, <1>6, Compose4 DEF open_display

LEMMA LinearBoFine ==
  Fine("linear_bo_test", linear_bo_test, State({}, {}, {}, 1, 0, "none", {}, {}))
<1> DEFINE p == "linear_bo_test"
           n1 == {<<"card", 0>>, <<"gbm", 0>>, <<"connector", 0>>}
           l2 == n1 \cup {Display, Context}
           n3 == n1 \cup {<<"mapper", 0>>}
           l3 == l2 \cup {<<"mapper", 0>>}
           s == test_case(0, test_case(1, test_case(2, test_case(3, LinearFinish))))
<1>1. /\ <<"connector", 0>> \in Fatal(p) /\ <<"card", 0>> \notin Fatal(p)
      /\ <<"gbm", 0>> \notin Fatal(p) /\ <<"pipe", 0>> \notin Fatal(p)
      /\ Plain(p)
  BY LinearIs
<1>2. Fatal(p) \cap (SetupPoints \X {0}) = {}
  BY LinearIs DEF SetupPoints, EarlyPoints, TerminatingPoints, LatePoints
<1>3. LinearAt(0, n3, {}, 0, l3)
  <2>1. Framebuffers(0) = {}
    BY DEF Framebuffers
  <2>2. Descriptors(0) = {}
    BY DEF Descriptors
  <2>3. l3 = LinearFull(0)
    BY <2>1, <2>2 DEF LinearFull, LinearBase
  <2>4. l3 \ {Display, Context} \subseteq n3 /\ LinearBase \cup {Display, Context} \subseteq l3
    BY DEF LinearBase
  <2>5. 0 \in 0 .. 0 /\ {} \subseteq FailedBos(0)
    OBVIOUS
  <2> QED
    BY <2>3, <2>4, <2>5 DEF LinearAt
<1>4. Fine(p, s, LinearState(n3, {}, 0, l3))
  BY <1>3, LinearCases DEF LinearDone
<1>5. linear_bo_test
        = open_display \o Run("egl_new", 0) \o Call("egl_setup", 0, Return1)
          \o Make("mapper", 0) \o s
  BY DEF linear_bo_test, LinearFinish
<1>6. Leads(p, Calm({}, "none", {}), open_display, Calm(n1, "none", n1))
  BY <1>1, OpenDisplay
<1> HIDE DEF s, n1, l2, n3, l3
<1>7. Leads(p, Calm(n1, "none", n1), Run("egl_new", 0), Calm(n1, "new", n1))
  BY CalmEglNew
<1>8. Leads(p, Calm(n1, "new", n1), Call("egl_setup", 0, Return1), Calm(n1, "ready", l2))
  BY <1>1, <1>2, CalmSetup DEF l2
<1>9. Leads(p, Calm(n1, "ready", l2), Make("mapper", 0), Calm(n3, "ready", l3))
  BY CalmMake DEF n3, l3
<1>10. Leads(p, Calm({}, "none", {}),
             open_display \o Run("egl_new", 0) \o Call("egl_setup", 0, Return1)
             \o Make("mapper", 0), LinearState(n3, {}, 0, l3))
  BY <1>6, <1>7, <1>8, <1>9, Compose4 DEF Calm, LinearState
<1>11. Fine(p, linear_bo_test, Calm({}, "none", {}))
  BY <1>4, <1>5, <1>10, LeadsFine
<1> QED
  BY <1>11 DEF Calm

----------------------------------------------------------------------------
\* gamma_test.c.

GT == "gamma_test"
GammaState(n, f, c, l, x) == State(n, {}, f, 1, c, "none", l, x)
GammaBase ==
  {<<"card", 0>>, <<"gbm", 0>>, <<"resources", 0>>, <<"mapper", 0>>,
   <<"plumber", 0>>}
Gone(k) == {"pipe", "gamma_size", "mode"} \X (0 .. k - 1)

\* After k CRTCs: one that was passed over did not pass, one without a gamma
\* table was looked at after it was freed, and there may be no connector.
GammaAt(k, n, f, c, l, x) ==
  /\ f \subseteq Gone(k) /\ c \in 0 .. k
  /\ f = {} => c = k
  /\ f \cap Fatal(GT) # {} => x # {}
  /\ l \ {Connector} = GammaBase /\ GammaBase \subseteq n
  /\ Connector \in l <=> Connector \in n

GammaDone(k, s) ==
  /\ IsSteps(s)
  /\ \A n, f, c, l, x : GammaAt(k, n, f, c, l, x) =>
                          Fine(GT, s, GammaState(n, f, c, l, x))

LEMMA GammaIs ==
  /\ Plain(GT)
  /\ Fatal(GT) = {<<"gamma_size", 0>>, <<"gamma_size", 1>>}
  /\ Hidden(GT) = {"pipe", "gamma_size", "mode"} \X {0, 1}
  /\ \A n : LeftBehind(GT, n) = {<<"card", 0>>, <<"gbm", 0>>}
<1>1. Each({"gamma_size"}, {0, 1}) = {<<"gamma_size", 0>>, <<"gamma_size", 1>>}
  BY DEF Each
<1>2. Each({"card", "gbm"}, {0}) = {<<"card", 0>>, <<"gbm", 0>>}
  BY DEF Each
<1>3. Fatal(GT) = Each({"gamma_size"}, {0, 1})
  BY DEF Fatal, GT
<1>4. \A n : LeftBehind(GT, n) = Each({"card", "gbm"}, {0})
  BY DEF LeftBehind, GT
<1>5. Hidden(GT) = Each({"pipe", "gamma_size", "mode"}, {0, 1})
  BY DEF Hidden, GT
<1> QED
  BY <1>1, <1>2, <1>3, <1>4, <1>5 DEF Plain, GT, Each

\* A failure that ends the program.
LEMMA GammaQuit ==
  ASSUME NEW f, NEW x, f \cap Fatal(GT) # {} => x # {},
         NEW kind, kind # "gamma_size", NEW i, NEW n, NEW c, NEW l
  PROVE  Fine(GT, Return1, GammaState(n, f \cup {<<kind, i>>}, c, l, x))
<1>1. (f \cup {<<kind, i>>}) \cap Fatal(GT) # {} => x # {}
  BY GammaIs
<1>2. f \cup {<<kind, i>>} # {}
  OBVIOUS
<1>3. MayEnd(GT, GammaState(n, f \cup {<<kind, i>>}, c, l, x))
  BY <1>1, <1>2, GammaIs DEF MayEnd, Doomed, GammaState, State, Plain
<1> QED
  BY <1>3, FineEnd DEF Return1

LEMMA GammaTake ==
  ASSUME NEW f, NEW x, f \cap Fatal(GT) # {} => x # {},
         NEW kind, kind \notin {"gamma_size", "image", "egl_setup"}, NEW i,
         NEW n, NEW c, NEW l, <<kind, i>> \notin l
  PROVE  Leads(GT, GammaState(n, f, c, l, x), Take(kind, i, Return1),
               GammaState(n \cup {<<kind, i>>}, f, c, l \cup {<<kind, i>>}, x))
<1>1. Fine(GT, Return1, GammaState(n \ {<<kind, i>>}, f \cup {<<kind, i>>}, c, l, x))
  BY GammaQuit
<1>2. {} \ {<<kind, i>>} = {}
  OBVIOUS
<1> QED
  BY <1>1, <1>2, GoTake DEF GammaState

LEMMA GammaCall ==
  ASSUME NEW f, NEW x, f \cap Fatal(GT) # {} => x # {},
         NEW kind, kind \notin {"gamma_size", "egl_setup"}, NEW i,
         NEW n, NEW c, NEW l
  PROVE  Leads(GT, GammaState(n, f, c, l, x), Call(kind, i, Return1),
               GammaState(n, f, c, l, x))
<1>1. Fine(GT, Return1, GammaState(n, f \cup {<<kind, i>>}, c, l, x))
  BY GammaQuit
<1> QED
  BY <1>1, GoCall DEF GammaState

LEMMA GammaCallOr ==
  ASSUME NEW f, NEW x, NEW kind, kind # "egl_setup", NEW i, NEW else,
         NEW n, NEW c, NEW l,
         Fine(GT, else, GammaState(n, f \cup {<<kind, i>>}, c, l, x))
  PROVE  Leads(GT, GammaState(n, f, c, l, x), Call(kind, i, else),
               GammaState(n, f, c, l, x))
BY GoCall DEF GammaState

LEMMA GammaGive ==
  ASSUME NEW f, NEW x, NEW kind \in {"bo", "id", "map", "mapper", "resources",
                                     "plumber"}, NEW i,
         NEW n, NEW c, NEW l, <<kind, i>> \in l, <<kind, i>> \in n
  PROVE  Leads(GT, GammaState(n, f, c, l, x), Give(kind, i),
               GammaState(n, f, c, l \ {<<kind, i>>}, x))
<1>1. kind \notin ClearedKinds /\ <<kind, i>> \notin {}
  BY DEF ClearedKinds, AssertedKinds
<1> QED
  BY ZenonT(60), <1>1, GoGive DEF GammaState

\* The connector that is there, or none.
LEMMA GammaGiveConnector ==
  ASSUME NEW f, NEW x, NEW n, NEW c, NEW l, Connector \in l <=> Connector \in n
  PROVE  Leads(GT, GammaState(n, f, c, l, x), Give("connector", 0),
               GammaState(n \ {Connector}, f, c, l \ {Connector}, x))
<1>1. CASE Connector \in l
  <2>1. "connector" \in ClearedKinds /\ Connector \notin {}
    BY DEF ClearedKinds
  <2> QED
    BY <1>1, <2>1, GoGive DEF GammaState, Connector
<1>2. CASE Connector \notin l
  <2>1. l \ {Connector} = l /\ n \ {Connector} = n
    BY <1>2
  <2>2. /\ <<"connector", 0>> \notin l \cup n \cup {}
        /\ "connector" \notin AssertedKinds \cup {"bo", "egl_setup"}
    BY <1>2 DEF Connector, AssertedKinds
  <2> QED
    BY <2>1, <2>2, GoGiveNothing DEF GammaState
<1> QED
  BY <1>1, <1>2

LEMMA GoneStep ==
  ASSUME NEW k \in 0 .. 1
  PROVE  /\ Gone(k) \subseteq Gone(k + 1)
         /\ \A kind \in {"pipe", "gamma_size", "mode"} : <<kind, k>> \in Gone(k + 1)
BY DEF Gone
----------------------------------------------------------------------------
\* The three ways to pass over a CRTC.
LEMMA GammaPassedOver ==
  ASSUME NEW k \in 0 .. 1, NEW n, NEW f, NEW c, NEW l, NEW x,
         GammaAt(k, n, f, c, l, x),
         NEW n0, n0 = n \ {Connector}, NEW l0, l0 = l \ {Connector}
  PROVE  /\ GammaAt(k + 1, n0, f \cup {<<"pipe", k>>}, c, l0, x)
         /\ GammaAt(k + 1, n0 \cup {Connector}, f \cup {<<"gamma_size", k>>}, c,
                    l0 \cup {Connector}, x \cup {"freed"})
         /\ GammaAt(k + 1, n0 \cup {Connector}, f \cup {<<"mode", k>>}, c,
                    l0 \cup {Connector}, x)
<1>1. /\ f \subseteq Gone(k) /\ c \in 0 .. k
      /\ f \cap Fatal(GT) # {} => x # {}
      /\ l \ {Connector} = GammaBase /\ GammaBase \subseteq n
  BY DEF GammaAt
<1>2. c \in 0 .. k + 1
  BY <1>1
<1>3. /\ f \cup {<<"pipe", k>>} \subseteq Gone(k + 1)
      /\ f \cup {<<"gamma_size", k>>} \subseteq Gone(k + 1)
      /\ f \cup {<<"mode", k>>} \subseteq Gone(k + 1)
  BY <1>1, GoneStep
<1>4. /\ (f \cup {<<"pipe", k>>}) \cap Fatal(GT) # {} => x # {}
      /\ (f \cup {<<"mode", k>>}) \cap Fatal(GT) # {} => x # {}
  BY <1>1, GammaIs
<1>5. /\ l0 = GammaBase /\ Connector \notin GammaBase
      /\ GammaBase \subseteq n0 /\ Connector \notin n0
  BY <1>1 DEF GammaBase, Connector
<1>6. /\ l0 \ {Connector} = GammaBase
      /\ (l0 \cup {Connector}) \ {Connector} = GammaBase
      /\ GammaBase \subseteq n0 \cup {Connector}
  BY <1>5
<1>7. GammaAt(k + 1, n0, f \cup {<<"pipe", k>>}, c, l0, x)
  BY <1>2, <1>3, <1>4, <1>5, <1>6 DEF GammaAt
<1>8. GammaAt(k + 1, n0 \cup {Connector}, f \cup {<<"gamma_size", k>>}, c,
              l0 \cup {Connector}, x \cup {"freed"})
  BY <1>2, <1>3, <1>4, <1>5, <1>6 DEF GammaAt
<1>9. GammaAt(k + 1, n0 \cup {Connector}, f \cup {<<"mode", k>>}, c,
              l0 \cup {Connector}, x)
  BY <1>2, <1>3, <1>4, <1>5, <1>6 DEF GammaAt
<1> QED
  BY <1>7, <1>8, <1>9

\* A CRTC that passes.
LEMMA GammaPassed ==
  ASSUME NEW k \in 0 .. 1, NEW n, NEW f, NEW c, NEW l, NEW x,
         GammaAt(k, n, f, c, l, x),
         NEW n4, (n \ {Connector}) \cup {Connector} \subseteq n4
  PROVE  GammaAt(k + 1, n4, f, c + 1, (l \ {Connector}) \cup {Connector}, x)
<1>1. /\ f \subseteq Gone(k) /\ c \in 0 .. k /\ (f = {} => c = k)
      /\ f \cap Fatal(GT) # {} => x # {}
      /\ l \ {Connector} = GammaBase /\ GammaBase \subseteq n
  BY DEF GammaAt
<1>2. c + 1 \in 0 .. k + 1 /\ (f = {} => c + 1 = k + 1)
  BY <1>1
<1>3. f \subseteq Gone(k + 1)
  BY <1>1, GoneStep
<1>4. Connector \notin GammaBase
  BY DEF GammaBase, Connector
<1>5. /\ ((l \ {Connector}) \cup {Connector}) \ {Connector} = GammaBase
      /\ GammaBase \subseteq n4 /\ Connector \in n4
  BY <1>1, <1>4
<1> QED
  BY <1>1, <1>2, <1>3, <1>5 DEF GammaAt

\* A CRTC of the test.
LEMMA GammaCase ==
  ASSUME NEW k \in 0 .. 1, NEW rest, GammaDone(k + 1, rest),
         NEW n, NEW f, NEW c, NEW l, NEW x, GammaAt(k, n, f, c, l, x)
  PROVE  Fine(GT, gamma_case(k, rest), GammaState(n, f, c, l, x))
<1> DEFINE n0 == n \ {Connector}
           l0 == l \ {Connector}
           n1 == n0 \cup {Connector}
           l1 == l0 \cup {Connector}
           n2 == n1 \cup {<<"bo", k>>}
           l2 == l1 \cup {<<"bo", k>>}
           n3 == n2 \cup {<<"id", k>>}
           l3 == l2 \cup {<<"id", k>>}
           n4 == n3 \cup {<<"map", k>>}
           l4 == l3 \cup {<<"map", k>>}
           l5 == l4 \ {<<"map", k>>}
           l6 == l5 \ {<<"id", k>>}
           l7 == l6 \ {<<"bo", k>>}
           freed == Run("read_freed", k) \o rest
<1>1. /\ f \cap Fatal(GT) # {} => x # {}
      /\ Connector \in l <=> Connector \in n
      /\ l \ {Connector} = GammaBase /\ c \in 0 .. k
  BY DEF GammaAt
<1>2. /\ <<"bo", k>> \notin l1 /\ <<"id", k>> \notin l2 /\ <<"map", k>> \notin l3
      /\ <<"map", k>> \in l4 /\ <<"map", k>> \in n4
      /\ <<"id", k>> \in l5 /\ <<"id", k>> \in n4
      /\ <<"bo", k>> \in l6 /\ <<"bo", k>> \in n4
      /\ l7 = l1
  BY <1>1 DEF GammaBase, Connector
<1>3. /\ GammaAt(k + 1, n0, f \cup {<<"pipe", k>>}, c, l0, x)
      /\ GammaAt(k + 1, n1, f \cup {<<"gamma_size", k>>}, c, l1, x \cup {"freed"})
      /\ GammaAt(k + 1, n1, f \cup {<<"mode", k>>}, c, l1, x)
  BY GammaPassedOver
<1>4. GammaAt(k + 1, n4, f, c + 1, l1, x)
  <2>1. n1 \subseteq n4
    OBVIOUS
  <2> QED
    BY <2>1, GammaPassed
<1>5. (f \cup {<<"gamma_size", k>>}) \cap Fatal(GT) # {}
  <2>1. k = 0 \/ k = 1
    OBVIOUS
  <2>2. <<"gamma_size", k>> \in Fatal(GT)
    BY <2>1, GammaIs
  <2> QED
    BY <2>2
<1>6. c \in 0 .. 3
  BY <1>1
<1>t. gamma_case(k, rest)
        = Give("connector", 0)
          \o Call("pipe", k, rest) \o Make("connector", 0)
          \o Call("get_crtc", k, Return1)
          \o Call("gamma_size", k, freed)
          \o Call("mode", k, rest)
          \o Take("bo", k, Return1) \o Take("id", k, Return1)
          \o Take("map", k, Return1) \o Give("map", k)
          \o Call("set_crtc", k, Return1)
          \o Call("set_gamma", k, Return1) \o Call("reset_gamma", k, Return1)
          \o Call("disable_crtc", k, Return1)
          \o Give("id", k) \o Give("bo", k) \o Run("case_passed", k)
          \o rest
  BY DEF gamma_case
<1>7. /\ Fine(GT, rest, GammaState(n0, f \cup {<<"pipe", k>>}, c, l0, x))
      /\ Fine(GT, rest, GammaState(n1, f \cup {<<"gamma_size", k>>}, c, l1,
                                   x \cup {"freed"}))
      /\ Fine(GT, rest, GammaState(n1, f \cup {<<"mode", k>>}, c, l1, x))
      /\ Fine(GT, rest, GammaState(n4, f, c + 1, l1, x))
  BY <1>3, <1>4 DEF GammaDone
<1> HIDE DEF n0, n1, n2, n3, n4, l0, l1, l2, l3, l4, l5, l6, l7
<1>8. Leads(GT, GammaState(n, f, c, l, x), Give("connector", 0),
            GammaState(n0, f, c, l0, x))
  BY <1>1, GammaGiveConnector DEF n0, l0
<1>9. Leads(GT, GammaState(n0, f, c, l0, x), Call("pipe", k, rest),
            GammaState(n0, f, c, l0, x))
  BY <1>7, GammaCallOr
<1>10. Leads(GT, GammaState(n0, f, c, l0, x), Make("connector", 0),
             GammaState(n1, f, c, l1, x))
  <2>1. {} \ {<<"connector", 0>>} = {}
    OBVIOUS
  <2> QED
    BY <2>1, GoMake DEF GammaState, Connector, n1, l1
<1>11. Leads(GT, GammaState(n1, f, c, l1, x), Call("get_crtc", k, Return1),
             GammaState(n1, f, c, l1, x))
  BY <1>1, GammaCall
<1>12. Fine(GT, freed, GammaState(n1, f \cup {<<"gamma_size", k>>}, c, l1, x))
  <2>1. Leads(GT, GammaState(n1, f \cup {<<"gamma_size", k>>}, c, l1, x),
              Run("read_freed", k),
              GammaState(n1, f \cup {<<"gamma_size", k>>}, c, l1, x \cup {"freed"}))
    BY <1>5, GoFreed DEF GammaState
  <2> QED
    BY <2>1, <1>7, LeadsFine
<1> HIDE DEF freed
<1>13. Leads(GT, GammaState(n1, f, c, l1, x), Call("gamma_size", k, freed),
             GammaState(n1, f, c, l1, x))
  BY <1>12, GammaCallOr
<1>14. Leads(GT, GammaState(n1, f, c, l1, x), Call("mode", k, rest),
             GammaState(n1, f, c, l1, x))
  BY <1>7, GammaCallOr
<1>15. Leads(GT, GammaState(n1, f, c, l1, x), Take("bo", k, Return1),
             GammaState(n2, f, c, l2, x))
  BY <1>1, <1>2, GammaTake DEF n2, l2
<1>16. Leads(GT, GammaState(n2, f, c, l2, x), Take("id", k, Return1),
             GammaState(n3, f, c, l3, x))
  BY <1>1, <1>2, GammaTake DEF n3, l3
<1>17. Leads(GT, GammaState(n3, f, c, l3, x), Take("map", k, Return1),
             GammaState(n4, f, c, l4, x))
  BY <1>1, <1>2, GammaTake DEF n4, l4
<1>18. Leads(GT, GammaState(n4, f, c, l4, x), Give("map", k),
             GammaState(n4, f, c, l5, x))
  BY <1>2, GammaGive DEF l5
<1>19. Leads(GT, GammaState(n4, f, c, l5, x), Call("set_crtc", k, Return1),
             GammaState(n4, f, c, l5, x))
  BY <1>1, GammaCall
<1>20. Leads(GT, GammaState(n4, f, c, l5, x), Call("set_gamma", k, Return1),
             GammaState(n4, f, c, l5, x))
  BY <1>1, GammaCall
<1>21. Leads(GT, GammaState(n4, f, c, l5, x), Call("reset_gamma", k, Return1),
             GammaState(n4, f, c, l5, x))
  BY <1>1, GammaCall
<1>22. Leads(GT, GammaState(n4, f, c, l5, x), Call("disable_crtc", k, Return1),
             GammaState(n4, f, c, l5, x))
  BY <1>1, GammaCall
<1>23. Leads(GT, GammaState(n4, f, c, l5, x), Give("id", k),
             GammaState(n4, f, c, l6, x))
  BY <1>2, GammaGive DEF l6
<1>24. Leads(GT, GammaState(n4, f, c, l6, x), Give("bo", k),
             GammaState(n4, f, c, l7, x))
  BY <1>2, GammaGive DEF l7
<1>25. Leads(GT, GammaState(n4, f, c, l7, x), Run("case_passed", k),
             GammaState(n4, f, c + 1, l7, x))
  BY <1>6, GoCase DEF GammaState
<1>26. Leads(GT, GammaState(n, f, c, l, x),
             Give("connector", 0)
             \o Call("pipe", k, rest) \o Make("connector", 0)
             \o Call("get_crtc", k, Return1)
             \o Call("gamma_size", k, freed)
             \o Call("mode", k, rest)
             \o Take("bo", k, Return1) \o Take("id", k, Return1),
             GammaState(n3, f, c, l3, x))
  BY <1>8, <1>9, <1>10, <1>11, <1>13, <1>14, <1>15, <1>16, Compose8
<1>27. Leads(GT, GammaState(n, f, c, l, x),
             Give("connector", 0)
             \o Call("pipe", k, rest) \o Make("connector", 0)
             \o Call("get_crtc", k, Return1)
             \o Call("gamma_size", k, freed)
             \o Call("mode", k, rest)
             \o Take("bo", k, Return1) \o Take("id", k, Return1)
             \o Take("map", k, Return1) \o Give("map", k)
             \o Call("set_crtc", k, Return1)
             \o Call("set_gamma", k, Return1) \o Call("reset_gamma", k, Return1)
             \o Call("disable_crtc", k, Return1),
             GammaState(n4, f, c, l5, x))
  BY <1>26, <1>17, <1>18, <1>19, <1>20, <1>21, <1>22, Compose7
<1>28. Leads(GT, GammaState(n, f, c, l, x),
             Give("connector", 0)
             \o Call("pipe", k, rest) \o Make("connector", 0)
             \o Call("get_crtc", k, Return1)
             \o Call("gamma_size", k, freed)
             \o Call("mode", k, rest)
             \o Take("bo", k, Return1) \o Take("id", k, Return1)
             \o Take("map", k, Return1) \o Give("map", k)
             \o Call("set_crtc", k, Return1)
             \o Call("set_gamma", k, Return1) \o Call("reset_gamma", k, Return1)
             \o Call("disable_crtc", k, Return1)
             \o Give("id", k) \o Give("bo", k) \o Run("case_passed", k),
             GammaState(n4, f, c + 1, l7, x))
  BY <1>27, <1>23, <1>24, <1>25, Compose4
<1>29. Fine(GT, rest, GammaState(n4, f, c + 1, l7, x))
  BY <1>2, <1>7
<1> QED
  BY <1>t, <1>28, <1>29, LeadsFine

LEMMA GammaCaseSteps ==
  ASSUME NEW k, NEW rest, IsSteps(rest)
  PROVE  IsSteps(gamma_case(k, rest))
<1>1. IsSteps(Run("read_freed", k) \o rest)
  BY StepIsSteps, StepsCat
<1>2. IsSteps(Make("connector", 0))
  BY NoSteps, StepFirst DEF Make, StepKinds
<1>3. \A a, b : IsSteps(a) /\ IsSteps(b) => IsSteps(a \o b)
  BY StepsCat
<1> DEFINE freed == Run("read_freed", k) \o rest
<1>t. gamma_case(k, rest)
        = Give("connector", 0)
          \o Call("pipe", k, rest) \o Make("connector", 0)
          \o Call("get_crtc", k, Return1)
          \o Call("gamma_size", k, freed)
          \o Call("mode", k, rest)
          \o Take("bo", k, Return1) \o Take("id", k, Return1)
          \o Take("map", k, Return1) \o Give("map", k)
          \o Call("set_crtc", k, Return1)
          \o Call("set_gamma", k, Return1) \o Call("reset_gamma", k, Return1)
          \o Call("disable_crtc", k, Return1)
          \o Give("id", k) \o Give("bo", k) \o Run("case_passed", k)
          \o rest
  BY DEF gamma_case
<1> HIDE DEF freed
<1> QED
  BY ZenonT(60), <1>2, <1>3, <1>t, StepIsSteps

GammaFinish ==
  Give("mapper", 0) \o Give("connector", 0)
  \o Give("resources", 0) \o Give("plumber", 0) \o Run("return_any_pass", 0)

LEMMA GammaFinishFine ==
  ASSUME NEW n, NEW f, NEW c, NEW l, NEW x, GammaAt(2, n, f, c, l, x)
  PROVE  Fine(GT, GammaFinish, GammaState(n, f, c, l, x))
<1> DEFINE l1 == l \ {<<"mapper", 0>>}
           l2 == l1 \ {Connector}
           n2 == n \ {Connector}
           l3 == l2 \ {<<"resources", 0>>}
           l4 == l3 \ {<<"plumber", 0>>}
           r == IF c = 0 THEN 1 ELSE 0
           s == State(n2, {}, f, r, c, "none", l4, x)
<1>1. /\ f \subseteq Gone(2) /\ (f = {} => c = 2)
      /\ f \cap Fatal(GT) # {} => x # {}
      /\ l \ {Connector} = GammaBase /\ GammaBase \subseteq n
      /\ (Connector \in l <=> Connector \in n)
  BY DEF GammaAt
<1>2. /\ <<"mapper", 0>> \in l /\ <<"mapper", 0>> \in n
      /\ (Connector \in l1 <=> Connector \in n)
      /\ <<"resources", 0>> \in l2 /\ <<"resources", 0>> \in n2
      /\ <<"plumber", 0>> \in l3 /\ <<"plumber", 0>> \in n2
      /\ l4 = {<<"card", 0>>, <<"gbm", 0>>}
  BY <1>1 DEF GammaBase, Connector
<1>3. f \subseteq Hidden(GT)
  <2>1. 0 .. 2 - 1 = {0, 1}
    OBVIOUS
  <2> QED
    BY <1>1, <2>1, GammaIs DEF Gone
<1>4. MayEnd(GT, s)
  <2>1. f = {} => r = 0
    BY <1>1
  <2>2. l4 = LeftBehind(GT, n2)
    BY <1>2, GammaIs
  <2> HIDE DEF l4, r, n2
  <2> QED
    BY <1>1, <1>3, <2>1, <2>2, GammaIs DEF MayEnd, Doomed, State, Plain
<1> HIDE DEF l1, l2, l3, l4, n2, s
<1>5. Leads(GT, GammaState(n, f, c, l, x), Give("mapper", 0),
            GammaState(n, f, c, l1, x))
  BY <1>2, GammaGive DEF l1
<1>6. Leads(GT, GammaState(n, f, c, l1, x), Give("connector", 0),
            GammaState(n2, f, c, l2, x))
  BY <1>2, GammaGiveConnector DEF l2, n2
<1>7. Leads(GT, GammaState(n2, f, c, l2, x), Give("resources", 0),
            GammaState(n2, f, c, l3, x))
  BY <1>2, GammaGive DEF l3
<1>8. Leads(GT, GammaState(n2, f, c, l3, x), Give("plumber", 0),
            GammaState(n2, f, c, l4, x))
  BY <1>2, GammaGive DEF l4
<1>9. Leads(GT, GammaState(n2, f, c, l4, x), Run("return_any_pass", 0), s)
  BY GoReturnPass DEF s, GammaState
<1>10. Leads(GT, GammaState(n, f, c, l, x), GammaFinish, s)
  BY <1>5, <1>6, <1>7, <1>8, <1>9, Compose5 DEF GammaFinish
<1> QED
  BY <1>4, <1>10, LeadsEnd

LEMMA GammaCases == GammaDone(0, gamma_case(0, gamma_case(1, GammaFinish)))
<1>1. IsSteps(GammaFinish)
  BY StepIsSteps, StepsCat DEF GammaFinish
<1>2. GammaDone(1 + 1, GammaFinish)
  BY <1>1, GammaFinishFine DEF GammaDone
<1>3. ASSUME NEW k \in 0 .. 1, NEW rest, GammaDone(k + 1, rest)
      PROVE  GammaDone(k, gamma_case(k, rest))
  <2>1. IsSteps(gamma_case(k, rest))
    BY <1>3, GammaCaseSteps DEF GammaDone
  <2>2. ASSUME NEW n, NEW f, NEW c, NEW l, NEW x, GammaAt(k, n, f, c, l, x)
        PROVE  Fine(GT, gamma_case(k, rest), GammaState(n, f, c, l, x))
    BY <1>3, <2>2, GammaCase
  <2> QED
    BY <2>1, <2>2 DEF GammaDone
<1> DEFINE s2 == GammaFinish
           s1 == gamma_case(1, s2)
           s0 == gamma_case(0, s1)
<1> HIDE DEF s2
<1>4. GammaDone(0 + 1, s1)
  BY <1>2, <1>3 DEF s2
<1> HIDE DEF s1
<1>5. GammaDone(0, s0)
  BY <1>3, <1>4
<1> QED
  BY <1>5 DEF s0, s1, s2

LEMMA GammaFine == Fine(GT, gamma_test, State({}, {}, {}, 1, 0, "none", {}, {}))
<1> DEFINE n1 == {} \cup {<<"plumber", 0>>}
           n2 == n1 \cup {<<"card", 0>>}
           n3 == n2 \cup {<<"connector", 0>>}
           n4 == n3 \cup {<<"resources", 0>>}
           n5 == n4 \cup {<<"gbm", 0>>}
           n6 == n5 \cup {<<"mapper", 0>>}
           s == gamma_case(0, gamma_case(1, GammaFinish))
<1>1. <<"card", 0>> \notin n1 /\ <<"resources", 0>> \notin n3 /\ <<"gbm", 0>> \notin n4
  OBVIOUS
<1>2. /\ <<"card", 0>> \notin Fatal(GT) /\ <<"resources", 0>> \notin Fatal(GT)
      /\ <<"gbm", 0>> \notin Fatal(GT) /\ Plain(GT)
  BY GammaIs
<1>3. GammaAt(0, n6, {}, 0, n6, {})
  BY DEF GammaAt, GammaBase, Connector
<1>4. Fine(GT, s, GammaState(n6, {}, 0, n6, {}))
  BY <1>3, GammaCases DEF GammaDone
<1>t. gamma_test = Make("plumber", 0) \o Take("card", 0, Return1)
                   \o Make("connector", 0)
                   \o Take("resources", 0, Return1) \o Take("gbm", 0, Return1)
                   \o Make("mapper", 0) \o s
  BY DEF gamma_test, GammaFinish
<1> HIDE DEF s, n1, n2, n3, n4, n5, n6
<1>5. Leads(GT, Calm({}, "none", {}), Make("plumber", 0), Calm(n1, "none", n1))
  BY CalmMake DEF n1
<1>6. Leads(GT, Calm(n1, "none", n1), Take("card", 0, Return1), Calm(n2, "none", n2))
  BY <1>1, <1>2, CalmTake DEF n2
<1>7. Leads(GT, Calm(n2, "none", n2), Make("connector", 0), Calm(n3, "none", n3))
  BY CalmMake DEF n3
<1>8. Leads(GT, Calm(n3, "none", n3), Take("resources", 0, Return1),
            Calm(n4, "none", n4))
  BY <1>1, <1>2, CalmTake DEF n4
<1>9. Leads(GT, Calm(n4, "none", n4), Take("gbm", 0, Return1), Calm(n5, "none", n5))
  BY <1>1, <1>2, CalmTake DEF n5
<1>10. Leads(GT, Calm(n5, "none", n5), Make("mapper", 0), Calm(n6, "none", n6))
  BY CalmMake DEF n6
<1>11. Leads(GT, Calm({}, "none", {}),
             Make("plumber", 0) \o Take("card", 0, Return1)
             \o Make("connector", 0)
             \o Take("resources", 0, Return1) \o Take("gbm", 0, Return1)
             \o Make("mapper", 0), GammaState(n6, {}, 0, n6, {}))
  BY <1>5, <1>6, <1>7, <1>8, <1>9, <1>10, Compose6 DEF Calm, GammaState
<1>12. Fine(GT, gamma_test, Calm({}, "none", {}))
  BY <1>4, <1>11, <1>t, LeadsFine
<1> QED
  BY <1>12 DEF Calm

----------------------------------------------------------------------------
\* The clients.

\* A set-up of the client that failed late: the struct keeps a context that was
\* destroyed.
Spoiled == failed \cap Fatal("egl_client") # {}

EglClientInv ==
  /\ program \in Programs /\ program = "egl_client"
  /\ todo = << >> /\ names = {} /\ junk = {} /\ ret = 1 /\ passed = 0
  /\ egl = NoEgl \/ egl \in EglRecords
  /\ egl # NoEgl /\ egl.setup => egl.display /\ egl.ctx /\ Context \in live
  /\ egl # NoEgl /\ egl.ctx /\ ~egl.setup => Spoiled
  /\ aborted \in BOOLEAN
  /\ aborted => Spoiled
  /\ faults \subseteq {"dead", "overflow"}
  /\ "dead" \in faults => Spoiled
  /\ "overflow" \in faults => MaxPlanes > 3

FbClientInv ==
  /\ program \in Programs /\ program = "fb_client"
  /\ todo = << >> /\ names = {} /\ junk = {} /\ failed = {}
  /\ ret = 1 /\ passed = 0
  /\ egl = NoEgl /\ live = {} /\ spilled = 0 /\ faults = {} /\ aborted = FALSE

\* A client takes none of the steps of the programs.
LEMMA ClientSteps ==
  ASSUME todo = << >>, [Next]_vars
  PROVE  EglClient \/ FbClient \/ UNCHANGED vars
<1>1. ~Running
  BY DEF Running
<1> QED
  BY <1>1
  DEF Next, TakeObject, TakeFails, ImageFails, SeekFails, GiveLive, GiveNothing,
      GiveDead, GiveJunk, CallSucceeds, CallFails, Setup, SetupFails, RunEgl,
      RunBuilder, RunAccess, RunCase, Doing

LEMMA FbClientStep == FbClientInv /\ [Next]_vars => FbClientInv'
<1> SUFFICES ASSUME FbClientInv, [Next]_vars PROVE FbClientInv'
  OBVIOUS
<1>1. UNCHANGED <<scriptVars, eglVars>>
  <2>1. ~EglClient
    BY DEF EglClient, FbClientInv
  <2> QED
    BY <2>1, ClientSteps DEF FbClientInv, FbClient, vars
<1> QED
  BY <1>1 DEF FbClientInv, scriptVars, eglVars

LEMMA ThreePlanesFit ==
  ASSUME NEW planes \in 1 .. MaxPlanes, Overflows(planes)
  PROVE  MaxPlanes > 3
<1>1. MaxPlanes \in 1 .. 4
  BY EglAssumption
<1>2. CASE planes \in 1 .. 3
  <2>1. planes = 1 \/ planes = 2 \/ planes = 3
    BY <1>2
  <2> QED
    BY <2>1 DEF Overflows, AttributeCount, AttributeRoom
<1> QED
  BY <1>1, <1>2

LEMMA EglClientMakesKeeps ==
  ASSUME EglClientInv, EglClientMakes,
         UNCHANGED <<program, todo, names, junk, failed, ret, passed>>
  PROVE  EglClientInv'
<1>0. UNCHANGED Spoiled
  BY DEF Spoiled
<1>1. CASE ClientNew
  <2>1. /\ egl' \in EglRecords /\ ~egl'.setup /\ ~egl'.ctx
        /\ UNCHANGED <<live, faults, aborted>>
    BY <1>1 DEF ClientNew, bs_egl_new, EglRecords
  <2> QED
    BY <1>0, <2>1 DEF EglClientInv
<1>2. CASE ClientDestroy
  <2>1. egl # NoEgl /\ egl \in EglRecords /\ bs_egl_destroy
    BY <1>2 DEF ClientDestroy, EglClientInv
  <2>2. CASE egl.ctx /\ ~egl.display
    <3>1. Spoiled
      BY <2>1, <2>2 DEF EglClientInv, EglRecords
    <3>2. aborted' = TRUE /\ UNCHANGED <<egl, live, spilled, faults>>
      BY <2>1, <2>2 DEF bs_egl_destroy, Abort
    <3> QED
      BY <1>0, <3>1, <3>2 DEF EglClientInv
  <2>3. CASE ~(egl.ctx /\ ~egl.display)
    <3>1. /\ faults' = IF egl.ctx /\ Context \notin live THEN faults \cup {"dead"}
                       ELSE faults
          /\ egl' = NoEgl /\ UNCHANGED aborted
      BY <2>1, <2>3 DEF bs_egl_destroy, Faulty
    <3>2. egl.ctx /\ Context \notin live => Spoiled
      BY <2>1 DEF EglClientInv
    <3> QED
      BY <1>0, <3>1, <3>2 DEF EglClientInv
  <2> QED
    BY <2>2, <2>3
<1>3. CASE ClientSetup
  <2>1. egl \in EglRecords /\ egl # NoEgl
    BY <1>3 DEF ClientSetup, EglClientInv
  <2>2. PICK flush \in BOOLEAN, mods \in BOOLEAN :
          egl' = Noted([egl EXCEPT !.setup = TRUE, !.display = TRUE, !.ctx = TRUE],
                       flush, mods)
    BY <1>3 DEF ClientSetup, bs_egl_setup
  <2>3. [egl EXCEPT !.setup = TRUE, !.display = TRUE, !.ctx = TRUE] \in EglRecords
    BY <2>1 DEF EglRecords
  <2>4. egl' \in EglRecords /\ egl'.setup /\ egl'.display /\ egl'.ctx
    BY ZenonT(60), <2>1, <2>2, <2>3, NotedType DEF EglRecords
  <2>5. Context \in live' /\ UNCHANGED <<faults, aborted>>
    BY <1>3 DEF ClientSetup, bs_egl_setup
  <2> QED
    BY <1>0, <2>4, <2>5 DEF EglClientInv
<1>4. ASSUME NEW k \in ClientImages, ClientImage(k) PROVE EglClientInv'
  <2>1. PICK planes \in 1 .. MaxPlanes : bs_egl_image_create_gbm(k, planes)
    BY <1>4 DEF ClientImage
  <2>2. egl.display
    BY <1>4 DEF ClientImage, HasContext, EglClientInv
  <2>3. /\ faults' = faults \/ (faults' = faults \cup {"overflow"} /\ Overflows(planes))
        /\ live \subseteq live' /\ UNCHANGED <<egl, aborted>>
    BY <2>1, <2>2 DEF bs_egl_image_create_gbm, Faulty
  <2> QED
    BY <1>0, <2>3, ThreePlanesFit DEF EglClientInv
<1>5. ASSUME NEW k \in ClientImages, ClientFb(k) PROVE EglClientInv'
  BY <1>0, <1>5 DEF ClientFb, bs_egl_fb_new, EglClientInv
<1>6. ASSUME NEW k \in ClientImages, ClientGives(Image(k)) \/ ClientGives(Fb(k))
      PROVE  EglClientInv'
  <2>1. Context # Image(k) /\ Context # Fb(k)
    BY DEF Context, Image, Fb
  <2>2. /\ Context \in live => Context \in live'
        /\ UNCHANGED <<egl, faults, aborted>>
    BY <1>6, <2>1 DEF ClientGives
  <2> HIDE DEF Spoiled
  <2> QED
    BY <1>0, <2>2 DEF EglClientInv
<1> QED
  BY <1>1, <1>2, <1>3, <1>4, <1>5, <1>6 DEF EglClientMakes

\* Whatever the client calls.
LEMMA EglClientStep == EglClientInv /\ [Next]_vars => EglClientInv'
<1> SUFFICES ASSUME EglClientInv, [Next]_vars PROVE EglClientInv'
  OBVIOUS
<1>1. EglClient \/ UNCHANGED vars
  BY ClientSteps DEF EglClientInv, FbClient
<1>2. CASE UNCHANGED vars
  BY <1>2 DEF vars, scriptVars, eglVars, EglClientInv, Spoiled
<1>3. CASE EglClient
  <2>1. UNCHANGED <<program, todo, names, junk, ret, passed>>
    BY <1>3 DEF EglClient
  <2>2. CASE EglClientMakes /\ UNCHANGED failed
    BY <2>1, <2>2, EglClientMakesKeeps
  <2>3. ASSUME NEW point \in SetupPoints, ClientSetupFails(point),
               failed' = failed \cup {<<point, 0>>}
        PROVE  EglClientInv'
    <3>1. egl \in EglRecords /\ egl # NoEgl /\ bs_egl_setup_fails(point)
      BY <2>3 DEF ClientSetupFails, EglClientInv
    <3>2. ~egl.setup /\ UNCHANGED <<live, faults, aborted>>
      BY <3>1 DEF bs_egl_setup_fails
    <3>3. FailedSetup(egl, point) \in EglRecords
          /\ FailedSetup(egl, point).setup = egl.setup
      BY <3>1, FailedSetupType
    <3>4. FailedSetup(egl, point).ctx => egl.ctx \/ point \in LatePoints
      BY <3>1 DEF FailedSetup, EglRecords
    <3>5. /\ egl' \in EglRecords /\ egl'.setup = egl.setup
          /\ egl'.ctx = FailedSetup(egl, point).ctx
      BY <3>1, <3>3, NotedType DEF bs_egl_setup_fails
    <3>6. Spoiled => Spoiled'
      BY <2>3 DEF Spoiled
    <3>7. point \in LatePoints => Spoiled'
      <4>1. Fatal("egl_client") = Each(LatePoints, {0})
        BY DEF Fatal
      <4> QED
        BY <2>3, <4>1 DEF Spoiled, Each
    <3> QED
      BY <2>1, <3>1, <3>2, <3>4, <3>5, <3>6, <3>7 DEF EglClientInv
  <2>4. CASE ClientImageFails /\ failed' = failed \cup {Image(0)}
    <3>1. PICK planes \in 1 .. MaxPlanes : bs_egl_image_create_gbm_fails(planes)
      BY <2>4 DEF ClientImageFails
    <3>2. egl.display
      BY <2>4 DEF ClientImageFails, HasContext, EglClientInv
    <3>3. /\ faults' = faults
             \/ (faults' = faults \cup {"overflow"} /\ Overflows(planes))
          /\ UNCHANGED <<egl, live, aborted>>
      BY <3>1, <3>2 DEF bs_egl_image_create_gbm_fails, Faulty
    <3>4. Spoiled => Spoiled'
      BY <2>4 DEF Spoiled
    <3> QED
      BY <2>1, <3>3, <3>4, ThreePlanesFit DEF EglClientInv
  <2> QED
    BY <1>3, <2>2, <2>3, <2>4 DEF EglClient
<1> QED
  BY <1>1, <1>2, <1>3
----------------------------------------------------------------------------
\* The descriptors that are left open.
SpilledInv ==
  /\ spilled \in 0 .. MaxSpilled
  /\ spilled > 0 => \E call \in failed : call[1] = "image"

LEMMA SpilledStep == SpilledInv /\ [Next]_vars => SpilledInv'
<1> SUFFICES ASSUME SpilledInv, [Next]_vars PROVE SpilledInv'
  OBVIOUS
<1>0. MaxSpilled \in Nat /\ MaxPlanes \in 1 .. 4
  BY EglAssumption
<1>1. ASSUME spilled' = spilled, failed \subseteq failed' PROVE SpilledInv'
  BY <1>1 DEF SpilledInv
<1>2. ASSUME NEW planes \in Nat, bs_egl_image_create_gbm_fails(planes),
             failed \subseteq failed', \E call \in failed' : call[1] = "image"
      PROVE  SpilledInv'
  <2>1. spilled' = spilled \/ \E had \in 0 .. planes : Spilled(had)
    BY <1>2 DEF bs_egl_image_create_gbm_fails, Abort
  <2>2. spilled' \in 0 .. MaxSpilled
    BY <1>0, <2>1 DEF Spilled, SpilledInv
  <2> QED
    BY <1>2, <2>2 DEF SpilledInv
<1>3. CASE TakeObject
  <2>1. failed' = failed /\ spilled' = spilled
    BY <1>3 DEF TakeObject, GoOn, bs_egl_image_create_gbm, Abort
  <2> QED
    BY <1>1, <2>1
<1>4. CASE TakeFails \/ SeekFails \/ CallSucceeds \/ CallFails
  <2>1. failed \subseteq failed' /\ spilled' = spilled
    BY <1>4 DEF TakeFails, SeekFails, CallSucceeds, CallFails, Fails, Undisturbed,
                eglVars, GoOn
  <2> QED
    BY <1>1, <2>1
<1>5. CASE ImageFails
  <2>1. PICK planes \in BoPlanes : bs_egl_image_create_gbm_fails(planes)
    BY <1>5 DEF ImageFails
  <2>2. failed' = failed \cup {Object} /\ Object[1] = "image"
    BY <1>5 DEF ImageFails, Fails, Kind
  <2> QED
    BY <1>2, <2>1, <2>2 DEF BoPlanes
<1>6. CASE GiveLive \/ GiveNothing \/ GiveDead \/ GiveJunk
  <2>1. failed' = failed /\ spilled' = spilled
    BY <1>6 DEF GiveLive, GiveNothing, GiveDead, GiveJunk, GoOn, Abort, eglVars
  <2> QED
    BY <1>1, <2>1
<1>7. CASE Setup \/ SetupFails
  <2>1. failed \subseteq failed' /\ spilled' = spilled
    BY <1>7 DEF Setup, SetupFails, GoOn, Fails, bs_egl_setup, bs_egl_setup_fails
  <2> QED
    BY <1>1, <2>1
<1>8. CASE RunEgl \/ RunBuilder \/ RunAccess \/ RunCase
  <2>1. failed' = failed /\ spilled' = spilled
    BY <1>8 DEF RunEgl, RunBuilder, RunAccess, RunCase, GoOn, Abort, eglVars,
                bs_egl_new, bs_egl_destroy, Undisturbed
  <2> QED
    BY <1>1, <2>1
<1>9. CASE EglClient
  <2>1. CASE EglClientMakes /\ UNCHANGED failed
    <3>1. spilled' = spilled
      BY <2>1 DEF EglClientMakes, ClientNew, ClientDestroy, ClientSetup, ClientImage,
                  ClientFb, ClientGives, bs_egl_new, bs_egl_destroy, bs_egl_setup,
                  bs_egl_image_create_gbm, bs_egl_fb_new, Abort
    <3> QED
      BY <1>1, <2>1, <3>1
  <2>2. ASSUME NEW point \in SetupPoints, ClientSetupFails(point),
               failed' = failed \cup {<<point, 0>>}
        PROVE  SpilledInv'
    <3>1. spilled' = spilled
      BY <2>2 DEF ClientSetupFails, bs_egl_setup_fails
    <3> QED
      BY <1>1, <2>2, <3>1
  <2>3. CASE ClientImageFails /\ failed' = failed \cup {Image(0)}
    <3>1. PICK planes \in 1 .. MaxPlanes : bs_egl_image_create_gbm_fails(planes)
      BY <2>3 DEF ClientImageFails
    <3>2. Image(0)[1] = "image" /\ planes \in Nat
      BY <1>0 DEF Image
    <3> QED
      BY <1>2, <2>3, <3>1, <3>2
  <2> QED
    BY <1>9, <2>1, <2>2, <2>3 DEF EglClient
<1>10. CASE FbClient \/ UNCHANGED vars
  <2>1. failed' = failed /\ spilled' = spilled
    BY <1>10 DEF FbClient, vars, scriptVars, eglVars
  <2> QED
    BY <1>1, <2>1
<1> QED
  BY <1>3, <1>4, <1>5, <1>6, <1>7, <1>8, <1>9, <1>10 DEF Next

----------------------------------------------------------------------------
\* The framebuffer builder, for buffer objects and formats of any client.

IsBo(bo) == bo.planes \in Nat \ {0}

\* A builder whose fields and entries hold anything.
IsBuilder(b) ==
  \E V, E : b \in [ fd : BOOLEAN, size : V, format : V, plane_count : V,
                    planes : [Slots -> E] ]

BuilderType == builder # Null => IsBuilder(builder)

AskedType ==
  /\ \E V : asked \in [bo : V, format : V]
  /\ builder # Null /\ builder.fd => IsBo(asked.bo)

\* A builder with a card describes the buffer given last, as far as that has
\* planes; nothing is known of the entries past them.
Describes ==
  builder # Null /\ builder.fd =>
    /\ builder.size = asked.bo.name
    /\ builder.format = asked.format
    /\ builder.plane_count = PlaneCount(asked.bo)
    /\ \A p \in Slots : p < PlaneCount(asked.bo) =>
         builder.planes[p] = Entry(asked.bo, p)

\* The inductive invariant.
BuilderInv == BuilderType /\ AskedType /\ Describes /\ RequestIsOwn

LEMMA InitializedType ==
  ASSUME NEW content
  PROVE  IsBuilder(Initialized(content)) /\ Initialized(content).fd = FALSE
<1>1. Initialized(content) \in
        [ fd : BOOLEAN, size : {content}, format : {content},
          plane_count : {content}, planes : [Slots -> {content}] ]
  BY DEF Initialized
<1> QED
  BY <1>1 DEF IsBuilder, Initialized

\* After bs_drm_fb_builder_gbm_bo the fields are the buffer's, whatever they
\* were.
LEMMA FilledFields ==
  ASSUME NEW b, NEW bo
  PROVE  /\ Filled(b, bo).fd = TRUE
         /\ Filled(b, bo).size = bo.name
         /\ Filled(b, bo).format = bo.format
         /\ Filled(b, bo).plane_count = PlaneCount(bo)
         /\ \A p \in Slots : Filled(b, bo).planes[p] =
              IF p < PlaneCount(bo) THEN Entry(bo, p) ELSE b.planes[p]
BY DEF Filled

LEMMA FilledType ==
  ASSUME NEW b, NEW bo
  PROVE  IsBuilder(Filled(b, bo))
<1> DEFINE planes == [p \in Slots |-> IF p < PlaneCount(bo) THEN Entry(bo, p)
                                      ELSE b.planes[p]]
           E == {planes[p] : p \in Slots}
           V == {bo.name, bo.format, PlaneCount(bo)}
<1>1. planes \in [Slots -> E]
  OBVIOUS
<1>2. Filled(b, bo) = [ fd |-> TRUE, size |-> bo.name, format |-> bo.format,
                        plane_count |-> PlaneCount(bo), planes |-> planes ]
  BY DEF Filled
<1> HIDE DEF planes, E
<1>3. Filled(b, bo) \in [ fd : BOOLEAN, size : V, format : V, plane_count : V,
                          planes : [Slots -> E] ]
  BY <1>1, <1>2
<1> HIDE DEF V
<1> QED
  BY <1>3 DEF IsBuilder

\* A trimmed builder asks for the planes of its buffer and for nothing else.
LEMMA TrimmedFields ==
  ASSUME NEW b, IsBuilder(b)
  PROVE  /\ IsBuilder(Trimmed(b))
         /\ Trimmed(b).fd = b.fd /\ Trimmed(b).size = b.size
         /\ Trimmed(b).format = b.format
         /\ Trimmed(b).plane_count = b.plane_count
         /\ Trimmed(b).planes = [p \in Slots |-> IF p < b.plane_count
                                                 THEN b.planes[p] ELSE Null]
<1> DEFINE planes == [p \in Slots |-> IF p < b.plane_count
                                      THEN b.planes[p] ELSE Null]
<1>1. PICK V, E : b \in [ fd : BOOLEAN, size : V, format : V, plane_count : V,
                          planes : [Slots -> E] ]
  BY DEF IsBuilder
<1>2. planes \in [Slots -> E \cup {Null}]
  BY <1>1
<1>3. Trimmed(b) = [b EXCEPT !.planes = planes]
  BY DEF Trimmed
<1> HIDE DEF planes
<1>4. /\ Trimmed(b) \in [ fd : BOOLEAN, size : V, format : V, plane_count : V,
                          planes : [Slots -> E \cup {Null}] ]
      /\ Trimmed(b).fd = b.fd /\ Trimmed(b).size = b.size
      /\ Trimmed(b).format = b.format
      /\ Trimmed(b).plane_count = b.plane_count
      /\ Trimmed(b).planes = planes
  BY <1>1, <1>2, <1>3
<1>5. IsBuilder(Trimmed(b))
  BY <1>4 DEF IsBuilder
<1> QED
  BY <1>4, <1>5 DEF planes
----------------------------------------------------------------------------
\* The operations.
LEMMA NewKeeps == BuilderInv /\ bs_drm_fb_builder_new => BuilderInv'
<1> SUFFICES ASSUME BuilderInv, bs_drm_fb_builder_new PROVE BuilderInv'
  OBVIOUS
<1>1. /\ builder' = Initialized(Null) /\ asked' = NothingAsked /\ request' = request
  BY DEF bs_drm_fb_builder_new
<1>2. builder'.fd = FALSE /\ IsBuilder(builder')
  BY <1>1, InitializedType
<1>3. asked' \in [bo : {Null}, format : {Null}]
  BY <1>1 DEF NothingAsked
<1> QED
  BY <1>1, <1>2, <1>3
  DEF BuilderInv, BuilderType, AskedType, Describes, RequestIsOwn

LEMMA DestroyKeeps == BuilderInv /\ bs_drm_fb_builder_destroy => BuilderInv'
<1> SUFFICES ASSUME BuilderInv, bs_drm_fb_builder_destroy PROVE BuilderInv'
  OBVIOUS
<1>1. builder' = Null /\ asked' = asked /\ request' = request
  BY DEF bs_drm_fb_builder_destroy
<1> QED
  BY <1>1 DEF BuilderInv, BuilderType, AskedType, Describes, RequestIsOwn

LEMMA GbmBoKeeps ==
  ASSUME BuilderInv, NEW bo, IsBo(bo), bs_drm_fb_builder_gbm_bo(bo)
  PROVE  BuilderInv'
<1>1. /\ builder # Null /\ builder' = Filled(builder, bo)
      /\ asked' = [bo |-> bo, format |-> bo.format]
      /\ request' = request
  BY DEF bs_drm_fb_builder_gbm_bo
<1>2. BuilderType'
  BY <1>1, FilledType DEF BuilderType
<1>3. asked'.bo = bo /\ asked'.format = bo.format
      /\ asked' \in [bo : {bo, bo.format}, format : {bo, bo.format}]
  BY <1>1
<1>4. AskedType'
  BY <1>3 DEF AskedType
<1>5. /\ builder'.size = bo.name /\ builder'.format = bo.format
      /\ builder'.plane_count = PlaneCount(bo)
      /\ \A p \in Slots : p < PlaneCount(bo) => builder'.planes[p] = Entry(bo, p)
  BY <1>1, FilledFields
<1>6. Describes'
  BY <1>3, <1>5 DEF Describes
<1> QED
  BY <1>1, <1>2, <1>4, <1>6 DEF BuilderInv, RequestIsOwn

LEMMA FormatKeeps ==
  ASSUME BuilderInv, NEW format, bs_drm_fb_builder_format(format)
  PROVE  BuilderInv'
<1>1. /\ builder # Null /\ builder' = [builder EXCEPT !.format = format]
      /\ asked' = [asked EXCEPT !.format = format] /\ request' = request
  BY DEF bs_drm_fb_builder_format
<1>2. PICK V, E : builder \in [ fd : BOOLEAN, size : V, format : V,
                                plane_count : V, planes : [Slots -> E] ]
  BY <1>1 DEF BuilderInv, BuilderType, IsBuilder
<1>3. /\ builder' \in [ fd : BOOLEAN, size : V \cup {format},
                        format : V \cup {format},
                        plane_count : V \cup {format}, planes : [Slots -> E] ]
      /\ builder'.fd = builder.fd /\ builder'.size = builder.size
      /\ builder'.format = format
      /\ builder'.plane_count = builder.plane_count
      /\ builder'.planes = builder.planes
  BY <1>1, <1>2
<1>4. PICK A : asked \in [bo : A, format : A]
  BY DEF BuilderInv, AskedType
<1>5. /\ asked'.bo = asked.bo /\ asked'.format = format
      /\ asked' \in [bo : A \cup {format}, format : A \cup {format}]
  BY <1>1, <1>4
<1>6. BuilderType'
  BY <1>3 DEF BuilderType, IsBuilder
<1>7. AskedType'
  BY <1>1, <1>3, <1>5 DEF BuilderInv, AskedType
<1>8. Describes'
  BY <1>1, <1>3, <1>5 DEF BuilderInv, Describes
<1> QED
  BY <1>1, <1>6, <1>7, <1>8 DEF BuilderInv, RequestIsOwn

LEMMA CreateFbKeeps == BuilderInv /\ bs_drm_fb_builder_create_fb => BuilderInv'
<1> SUFFICES ASSUME BuilderInv, bs_drm_fb_builder_create_fb PROVE BuilderInv'
  OBVIOUS
<1> USE DEF BuilderInv
<1>1. builder # Null /\ asked' = asked
  BY DEF bs_drm_fb_builder_create_fb
<1>2. CASE ~Valid(builder)
  BY <1>1, <1>2
  DEF bs_drm_fb_builder_create_fb, BuilderType, AskedType, Describes, RequestIsOwn
<1>3. CASE Valid(builder)
  <2>1. /\ builder' = Trimmed(builder)
        /\ request' = [size |-> builder'.size, format |-> builder'.format,
                       planes |-> builder'.planes, asked |-> asked]
    BY <1>3 DEF bs_drm_fb_builder_create_fb, drmModeAddFB2
  <2>2. builder.fd
    BY <1>3 DEF Valid
  <2>3. /\ IsBo(asked.bo)
        /\ builder.size = asked.bo.name /\ builder.format = asked.format
        /\ builder.plane_count = PlaneCount(asked.bo)
        /\ \A p \in Slots : p < PlaneCount(asked.bo) =>
             builder.planes[p] = Entry(asked.bo, p)
    BY <1>1, <2>2 DEF Describes, AskedType
  <2>4. /\ IsBuilder(builder')
        /\ builder'.fd = builder.fd /\ builder'.size = builder.size
        /\ builder'.format = builder.format
        /\ builder'.plane_count = builder.plane_count
        /\ builder'.planes = [p \in Slots |-> IF p < builder.plane_count
                                              THEN builder.planes[p] ELSE Null]
    BY <1>1, <2>1, TrimmedFields DEF BuilderType
  <2>5. builder'.planes = [p \in Slots |-> IF p < PlaneCount(asked.bo)
                                           THEN Entry(asked.bo, p) ELSE Null]
    BY <2>3, <2>4
  <2>6. BuilderType' /\ AskedType'
    BY <1>1, <2>3, <2>4 DEF BuilderType, AskedType
  <2>7. Describes'
    BY <1>1, <2>3, <2>4, <2>5 DEF Describes
  <2>8. /\ request'.size = builder.size /\ request'.format = builder.format
        /\ request'.planes = builder'.planes /\ request'.asked = asked
    BY <2>1, <2>4
  <2>9. RequestIsOwn'
    BY <2>3, <2>5, <2>8 DEF RequestIsOwn
  <2> QED
    BY <2>6, <2>7, <2>9
<1> QED
  BY <1>2, <1>3

LEMMA CreateGbmKeeps ==
  ASSUME BuilderInv, NEW bo, bs_drm_fb_create_gbm(bo)
  PROVE  BuilderInv'
<1> USE DEF BuilderInv
<1> DEFINE b == Filled(Initialized(Junk), bo)
           own == [bo |-> bo, format |-> bo.format]
<1>1. builder' = builder /\ asked' = asked
  BY DEF bs_drm_fb_create_gbm
<1>2. BuilderType' /\ AskedType' /\ Describes'
  BY <1>1 DEF BuilderType, AskedType, Describes
<1>3. CASE ~Valid(b)
  <2>1. request' = request
    BY <1>3 DEF bs_drm_fb_create_gbm
  <2> QED
    BY <1>2, <2>1 DEF RequestIsOwn
<1>4. CASE Valid(b)
  <2>1. request' = [size |-> Trimmed(b).size, format |-> Trimmed(b).format,
                    planes |-> Trimmed(b).planes, asked |-> own]
    BY <1>4 DEF bs_drm_fb_create_gbm, drmModeAddFB2
  <2>2. IsBuilder(b)
    BY FilledType
  <2>3. /\ b.size = bo.name /\ b.format = bo.format
        /\ b.plane_count = PlaneCount(bo)
        /\ \A p \in Slots : p < PlaneCount(bo) => b.planes[p] = Entry(bo, p)
    BY FilledFields
  <2> HIDE DEF b
  <2>4. /\ Trimmed(b).size = b.size /\ Trimmed(b).format = b.format
        /\ Trimmed(b).planes = [p \in Slots |-> IF p < b.plane_count
                                                THEN b.planes[p] ELSE Null]
    BY <2>2, TrimmedFields
  <2>5. Trimmed(b).planes = [p \in Slots |-> IF p < PlaneCount(bo)
                                             THEN Entry(bo, p) ELSE Null]
    BY <2>3, <2>4
  <2>6. /\ request'.size = bo.name /\ request'.format = bo.format
        /\ request'.planes = [p \in Slots |-> IF p < PlaneCount(bo)
                                              THEN Entry(bo, p) ELSE Null]
        /\ request'.asked.bo = bo /\ request'.asked.format = bo.format
    BY <2>1, <2>3, <2>4, <2>5
  <2> QED
    BY <1>2, <2>6 DEF RequestIsOwn
<1> QED
  BY <1>3, <1>4

----------------------------------------------------------------------------
\* A client begins without a builder and has asked for nothing.
THEOREM BuilderInitHolds == BuilderInit => BuilderInv
<1> SUFFICES ASSUME BuilderInit PROVE BuilderInv
  OBVIOUS
<1>1. BuilderType /\ Describes /\ RequestIsOwn
  BY DEF BuilderInit, BuilderType, Describes, RequestIsOwn
<1>2. asked \in [bo : {Null}, format : {Null}]
  BY DEF BuilderInit, NothingAsked
<1> QED
  BY <1>1, <1>2 DEF BuilderInv, AskedType, BuilderInit

LEMMA BuilderStays == BuilderInv /\ UNCHANGED builderVars => BuilderInv'
BY DEF BuilderInv, builderVars, BuilderType, AskedType, Describes, RequestIsOwn

\* One step per operation of the builder.
THEOREM BuilderStep == BuilderInv /\ [BuilderNext]_builderVars => BuilderInv'
<1> SUFFICES ASSUME BuilderInv, [BuilderNext]_builderVars PROVE BuilderInv'
  OBVIOUS
<1>1. \A bo \in Bos : IsBo(bo)
  BY FbBuilderAssumption DEF IsBo
<1> QED
  BY <1>1, NewKeeps, DestroyKeeps, GbmBoKeeps, FormatKeeps, CreateFbKeeps,
     CreateGbmKeeps, BuilderStays DEF BuilderNext

\* For all buffer objects, formats and orders of calls: what the kernel is
\* asked for is the buffer given last in the format set last, without an entry
\* of another buffer or of the stack.
THEOREM RequestIsAlwaysOwn == BuilderSpec => []RequestIsOwn
<1>1. BuilderInv => RequestIsOwn
  BY DEF BuilderInv
<1> QED
  BY <1>1, BuilderInitHolds, BuilderStep, PTL DEF BuilderSpec

LEMMA ProgramBuilds == BuilderInv /\ [Next]_vars => BuilderInv'
<1> SUFFICES ASSUME BuilderInv, [Next]_vars PROVE BuilderInv'
  OBVIOUS
<1>1. CASE RunBuilder
  <2>1. IsBo(LinearBo(Index))
    BY DEF IsBo, LinearBo
  <2> QED
    BY <1>1, <2>1, NewKeeps, DestroyKeeps, GbmBoKeeps, FormatKeeps, CreateFbKeeps
    DEF RunBuilder
<1>2. CASE FbClient
  BY <1>2, BuilderStep DEF FbClient
<1>3. CASE UNCHANGED builderVars
  BY <1>3, BuilderStays
<1>4. RunBuilder \/ FbClient \/ UNCHANGED builderVars
  BY DEF Next, TakeObject, TakeFails, ImageFails, SeekFails, GiveLive, GiveNothing,
         GiveDead, GiveJunk, CallSucceeds, CallFails, Setup, SetupFails, RunEgl,
         RunAccess, RunCase, EglClient, Undisturbed, vars
<1> QED
  BY <1>1, <1>2, <1>3, <1>4

----------------------------------------------------------------------------
\* Every program begins with all its steps, and everything that can happen to
\* it then keeps the discipline.
LEMMA ScriptsAre ==
  /\ Script("null_platform_test") = null_platform_test
  /\ Script("mapped_texture_test") = mapped_texture_test
  /\ Script("linear_bo_test") = linear_bo_test
  /\ Script("gamma_test") = gamma_test
  /\ Script("mmap_test") = mmap_test
  /\ Script("drm_cursor_test") = drm_cursor_test
  /\ Script("swrast_test") = swrast_test
  /\ Script("vgem_test") = vgem_test
  /\ Script("stripe") = stripe
  /\ Script("vk_glow") = vk_glow
<1>1. Script("null_platform_test") = null_platform_test
  BY DEF Script, Clients
<1>2. Script("mapped_texture_test") = mapped_texture_test
  BY DEF Script, Clients
<1>3. Script("linear_bo_test") = linear_bo_test
  BY DEF Script, Clients
<1>4. Script("gamma_test") = gamma_test
  BY DEF Script, Clients
<1>5. Script("mmap_test") = mmap_test
  BY DEF Script, Clients
<1>6. Script("drm_cursor_test") = drm_cursor_test
  BY DEF Script, Clients
<1>7. Script("swrast_test") = swrast_test
  BY DEF Script, Clients
<1>8. Script("vgem_test") = vgem_test
  BY DEF Script, Clients
<1>9. Script("stripe") = stripe
  BY DEF Script, Clients
<1>10. Script("vk_glow") = vk_glow
  BY DEF Script, Clients
<1> QED
  BY <1>1, <1>2, <1>3, <1>4, <1>5, <1>6, <1>7, <1>8, <1>9, <1>10

LEMMA ScriptsFine ==
  ASSUME NEW p \in Scripted
  PROVE  Fine(p, Script(p), State({}, Uninitialized(p), {}, 1, 0, "none", {}, {}))
<1>0. p # "mapped_texture_test" => Uninitialized(p) = {}
  BY DEF Uninitialized
<1>1. CASE p = "null_platform_test"
  <2>1. Uninitialized(p) = {}
    BY <1>0, <1>1
  <2>2. Fine("null_platform_test", Script("null_platform_test"), State({}, {}, {}, 1, 0, "none", {}, {}))
    BY NullPlatformFine, ScriptsAre
  <2> QED
    BY <2>1, <2>2, <1>1
<1>2. CASE p = "mapped_texture_test"
  BY <1>2, MappedTextureFine, ScriptsAre
<1>3. CASE p = "linear_bo_test"
  <2>1. Uninitialized(p) = {}
    BY <1>0, <1>3
  <2>2. Fine("linear_bo_test", Script("linear_bo_test"), State({}, {}, {}, 1, 0, "none", {}, {}))
    BY LinearBoFine, ScriptsAre
  <2> QED
    BY <2>1, <2>2, <1>3
<1>4. CASE p = "gamma_test"
  <2>1. Uninitialized(p) = {}
    BY <1>0, <1>4
  <2>2. Fine("gamma_test", Script("gamma_test"), State({}, {}, {}, 1, 0, "none", {}, {}))
    BY GammaFine, ScriptsAre DEF GT
  <2> QED
    BY <2>1, <2>2, <1>4
<1>5. CASE p = "mmap_test"
  <2>1. Uninitialized(p) = {}
    BY <1>0, <1>5
  <2>2. Fine("mmap_test", Script("mmap_test"), State({}, {}, {}, 1, 0, "none", {}, {}))
    BY MmapFine, ScriptsAre
  <2> QED
    BY <2>1, <2>2, <1>5
<1>6. CASE p = "drm_cursor_test"
  <2>1. Uninitialized(p) = {}
    BY <1>0, <1>6
  <2>2. Fine("drm_cursor_test", Script("drm_cursor_test"), State({}, {}, {}, 1, 0, "none", {}, {}))
    BY CursorFine, ScriptsAre
  <2> QED
    BY <2>1, <2>2, <1>6
<1>7. CASE p = "swrast_test"
  <2>1. Uninitialized(p) = {}
    BY <1>0, <1>7
  <2>2. Fine("swrast_test", Script("swrast_test"), State({}, {}, {}, 1, 0, "none", {}, {}))
    BY SwrastFine, ScriptsAre
  <2> QED
    BY <2>1, <2>2, <1>7
<1>8. CASE p = "vgem_test"
  <2>1. Uninitialized(p) = {}
    BY <1>0, <1>8
  <2>2. Fine("vgem_test", Script("vgem_test"), State({}, {}, {}, 1, 0, "none", {}, {}))
    BY VgemFine, ScriptsAre
  <2> QED
    BY <2>1, <2>2, <1>8
<1>9. CASE p = "stripe"
  <2>1. Uninitialized(p) = {}
    BY <1>0, <1>9
  <2>2. Fine("stripe", Script("stripe"), State({}, {}, {}, 1, 0, "none", {}, {}))
    BY StripeFine, ScriptsAre
  <2> QED
    BY <2>1, <2>2, <1>9
<1>10. CASE p = "vk_glow"
  <2>1. Uninitialized(p) = {}
    BY <1>0, <1>10
  <2>2. Fine("vk_glow", Script("vk_glow"), State({}, {}, {}, 1, 0, "none", {}, {}))
    BY VkGlowFine, ScriptsAre
  <2> QED
    BY <2>1, <2>2, <1>10
<1> QED
  BY <1>1, <1>2, <1>3, <1>4, <1>5, <1>6, <1>7, <1>8, <1>9, <1>10 DEF Scripted

\* The inductive invariant: a program keeps the discipline, or it is a client.
ProgramsInv ==
  /\ ScriptInv \/ EglClientInv \/ FbClientInv
  /\ SpilledInv
  /\ BuilderInv

\* Every program and every client begins in it.
THEOREM ProgramsInitHolds == Init => ProgramsInv
<1> SUFFICES ASSUME Init PROVE ProgramsInv
  OBVIOUS
<1>1. /\ program \in Programs /\ todo = Script(program) /\ names = {}
      /\ junk = Uninitialized(program) /\ failed = {} /\ ret = 1 /\ passed = 0
      /\ egl = NoEgl /\ live = {} /\ spilled = 0 /\ faults = {} /\ aborted = FALSE
  BY DEF Init, EglInit
<1>2. BuilderInv
  BY BuilderInitHolds DEF Init
<1>3. SpilledInv
  BY <1>1, EglAssumption DEF SpilledInv
<1>4. CASE program \in Scripted
  <2>1. Fine(program, todo, State({}, junk, {}, 1, 0, "none", {}, {}))
    BY <1>1, <1>4, ScriptsFine
  <2>2. Env = State({}, junk, {}, 1, 0, "none", {}, {})
    BY <1>1, ShapeIs DEF Env
  <2>3. IsSteps(todo)
    BY <2>1, FineSteps
  <2>4. ScriptType
    BY <1>1 DEF ScriptType
  <2>5. program \notin Clients
    BY <1>4 DEF Scripted, Clients
  <2>6. ScriptInv
    BY <1>1, <2>1, <2>2, <2>3, <2>4, <2>5 DEF ScriptInv
  <2> QED
    BY <1>2, <1>3, <2>6 DEF ProgramsInv
<1>5. CASE program \in Clients
  <2>1. Script(program) = << >> /\ Uninitialized(program) = {}
    BY <1>5 DEF Script, Uninitialized, Clients
  <2>2. EglClientInv \/ FbClientInv
    BY <1>1, <1>5, <2>1 DEF EglClientInv, FbClientInv, Clients
  <2> QED
    BY <1>2, <1>3, <2>2 DEF ProgramsInv
<1> QED
  BY <1>1, <1>4, <1>5, ProgramsAssumption

\* No call of a program or of a client, successful or failed, leaves it.
THEOREM ProgramsStep == ProgramsInv /\ [Next]_vars => ProgramsInv'
<1> SUFFICES ASSUME ProgramsInv, [Next]_vars PROVE ProgramsInv'
  OBVIOUS
<1>1. (ScriptInv \/ EglClientInv \/ FbClientInv)'
  BY ScriptStep, EglClientStep, FbClientStep DEF ProgramsInv
<1>2. SpilledInv' /\ BuilderInv'
  BY SpilledStep, ProgramBuilds DEF ProgramsInv
<1> QED
  BY <1>1, <1>2 DEF ProgramsInv

\* A client is never at the end of a program, and keeps its types.
LEMMA ClientsSafe ==
  ASSUME EglClientInv \/ FbClientInv
  PROVE  /\ program \in Clients /\ ~Ended /\ program \in Programs
         /\ todo = << >> /\ names \cap junk = {}
         /\ egl = NoEgl \/ egl \in EglRecords
         /\ program # "egl_client" => live = {}
         /\ faults \subseteq Faults /\ aborted \in BOOLEAN
         /\ ret \in 0 .. 2 /\ passed \in 0 .. 4
<1>1. CASE EglClientInv
  <2>1. faults \subseteq Faults
    BY <1>1 DEF EglClientInv, Faults
  <2>2. program \in Clients /\ program = "egl_client"
    BY <1>1 DEF EglClientInv, Clients
  <2>3. ~Ended
    BY <2>2 DEF Ended
  <2>4. ret \in 0 .. 2 /\ passed \in 0 .. 4
    BY <1>1 DEF EglClientInv
  <2>5. program \in Programs /\ todo = << >> /\ names = {} /\ junk = {}
        /\ (egl = NoEgl \/ egl \in EglRecords) /\ aborted \in BOOLEAN
    BY <1>1 DEF EglClientInv
  <2>6. names \cap junk = {}
    BY <2>5
  <2> QED
    BY <2>1, <2>2, <2>3, <2>4, <2>5, <2>6
<1>2. CASE FbClientInv
  <2>1. faults \subseteq Faults
    BY <1>2 DEF FbClientInv
  <2>2. program \in Clients
    BY <1>2 DEF FbClientInv, Clients
  <2>3. ~Ended
    BY <2>2 DEF Ended
  <2>4. ret \in 0 .. 2 /\ passed \in 0 .. 4
    BY <1>2 DEF FbClientInv
  <2>5. program \in Programs /\ todo = << >> /\ names = {} /\ junk = {}
        /\ egl = NoEgl /\ aborted = FALSE /\ live = {}
    BY <1>2 DEF FbClientInv
  <2>6. names \cap junk = {}
    BY <2>5
  <2> QED
    BY <2>1, <2>2, <2>3, <2>4, <2>5, <2>6
<1> QED
  BY <1>1, <1>2

\* The types of the programs' variables, and: but for the context and the
\* display of the EGL helper no program ever holds an object that no variable
\* has named.
THEOREM ProgramsTyped == Spec => []TypeOK
<1>1. ProgramsInv => TypeOK
  <2> SUFFICES ASSUME ProgramsInv PROVE TypeOK
    OBVIOUS
  <2>1. \A j \in DOMAIN todo : todo[j].do \in StepKinds
    <3>1. CASE ScriptInv
      BY <3>1, ScriptSafe
    <3>2. CASE EglClientInv \/ FbClientInv
      BY <3>2, ClientsSafe
    <3> QED
      BY <3>1, <3>2 DEF ProgramsInv
  <2>2. /\ program \in Programs /\ names \cap junk = {}
        /\ egl = NoEgl \/ egl \in EglRecords
        /\ program # "egl_client" => live \subseteq names \cup {Display, Context}
        /\ faults \subseteq Faults /\ aborted \in BOOLEAN
        /\ ret \in 0 .. 2 /\ passed \in 0 .. 4
    <3>1. CASE ScriptInv
      BY <3>1 DEF ScriptInv, ScriptType
    <3>2. CASE EglClientInv \/ FbClientInv
      BY <3>2, ClientsSafe
    <3> QED
      BY <3>1, <3>2 DEF ProgramsInv
  <2>3. egl \in EglRecords => DOMAIN egl = {"setup", "display", "ctx", "flush", "mods"}
    BY DEF EglRecords
  <2>4. spilled \in 0 .. MaxSpilled
    BY DEF ProgramsInv, SpilledInv
  <2> QED
    BY <2>1, <2>2, <2>3, <2>4 DEF TypeOK, StepKinds
<1> QED
  BY <1>1, ProgramsInitHolds, ProgramsStep, PTL DEF Spec

\* No program uses, or gives back, what is not there or is in use, reads what it
\* freed, or ends in an assertion, unless one of the failures of Fatal came
\* first; and one that ends after such a failure did.  The client of the EGL
\* helper needs buffer objects of at most three planes: the attributes of a
\* fourth do not fit the array of bs_egl_image_create_gbm.
THEOREM FaultsAreAlwaysKnown ==
  ASSUME "egl_client" \in Programs => MaxPlanes <= 3
  PROVE  Spec => []FaultsAreKnown
<1>1. ProgramsInv => FaultsAreKnown
  <2> SUFFICES ASSUME ProgramsInv PROVE FaultsAreKnown
    OBVIOUS
  <2>1. CASE ScriptInv
    BY <2>1, ScriptSafe
  <2>2. CASE EglClientInv
    <3>1. ~Ended /\ program = "egl_client" /\ MaxPlanes <= 3
      BY <2>2, ClientsSafe DEF EglClientInv
    <3>2. "overflow" \notin faults
      <4>1. ~(MaxPlanes > 3)
        BY <3>1, EglAssumption
      <4> QED
        BY <4>1, <2>2 DEF EglClientInv
    <3>3. faults # {} => "dead" \in faults
      BY <3>2, <2>2 DEF EglClientInv
    <3>4. aborted \/ faults # {} => Spoiled
      BY <3>3, <2>2 DEF EglClientInv
    <3>5. aborted \/ faults # {} => failed \cap Fatal(program) # {}
      BY <3>1, <3>4 DEF Spoiled
    <3> QED
      BY <3>1, <3>5 DEF FaultsAreKnown
  <2>3. CASE FbClientInv
    BY <2>3, ClientsSafe DEF FbClientInv, FaultsAreKnown
  <2> QED
    BY <2>1, <2>2, <2>3 DEF ProgramsInv
<1> QED
  BY <1>1, ProgramsInitHolds, ProgramsStep, PTL DEF Spec

\* What a program leaves to the end of its process without a failure, exactly,
\* and what the two programs with labels leave at most after a failure they
\* handle; a plane's descriptor stays open only when an image could not be made.
THEOREM LeavesOnlyThat == Spec => []LeavesOnly
<1>1. ProgramsInv => LeavesOnly
  <2> SUFFICES ASSUME ProgramsInv PROVE LeavesOnly
    OBVIOUS
  <2>1. spilled > 0 => \E call \in failed : call[1] = "image"
    BY DEF ProgramsInv, SpilledInv
  <2>2. CASE ScriptInv
    BY <2>1, <2>2, ScriptSafe DEF LeavesOnly
  <2>3. CASE EglClientInv \/ FbClientInv
    BY <2>1, <2>3, ClientsSafe DEF LeavesOnly
  <2> QED
    BY <2>2, <2>3 DEF ProgramsInv
<1> QED
  BY <1>1, ProgramsInitHolds, ProgramsStep, PTL DEF Spec

\* A program's status is 0 only if none but the failures of Hidden occurred, and
\* it is 0 if nothing failed.
THEOREM StatusIsHonest == Spec => []StatusHonest
<1>1. ProgramsInv => StatusHonest
  <2> SUFFICES ASSUME ProgramsInv PROVE StatusHonest
    OBVIOUS
  <2>1. CASE ScriptInv
    BY <2>1, ScriptSafe
  <2>2. CASE EglClientInv \/ FbClientInv
    BY <2>2, ClientsSafe DEF StatusHonest
  <2> QED
    BY <2>1, <2>2 DEF ProgramsInv
<1> QED
  BY <1>1, ProgramsInitHolds, ProgramsStep, PTL DEF Spec

\* Also the programs that use the builder ask for their own buffer objects only.
THEOREM ProgramsAskForTheirOwn == Spec => []RequestIsOwn
<1>1. ProgramsInv => RequestIsOwn
  BY DEF ProgramsInv, BuilderInv
<1> QED
  BY <1>1, ProgramsInitHolds, ProgramsStep, PTL DEF Spec
=============================================================================
