------------------------- MODULE QuizSessionsProofs --------------------------
(***************************************************************************)
(* What the quiz routes and services/quiz_sessions.py guarantee for any    *)
(* number of requests, sessions, keys, questions and stages, and any       *)
(* lease, time to live and limit of the table.                             *)
(***************************************************************************)
EXTENDS QuizSessions, FiniteSetTheorems, TLAPS

-----------------------------------------------------------------------------
(***************************************************************************)
(* Aggregates                                                              *)
(***************************************************************************)

\* The answers of a quiz are a sequence no longer than the quiz.
LEMMA AnswersAreSequences ==
    ASSUME NEW p \in Payload
    PROVE  p.answers \in Seq(Choices) /\ Len(p.answers) \in Nat /\ Len(p.answers) <= Total
<1>1. PICK n \in 0..Total : p.answers \in [1..n -> Choices]
  BY DEF Payload
<1>2. n \in Nat /\ n <= Total
  BY <1>1, TotalAssumption
<1> QED
  BY <1>1, <1>2

\* A shorter sequence of answers is one a quiz may store.
LEMMA ShortSequencesAreAnswers ==
    ASSUME NEW z \in Seq(Choices), Len(z) <= Total
    PROVE  z \in UNION {[1..n -> Choices] : n \in 0..Total}
<1>1. Len(z) \in 0..Total /\ z \in [1..Len(z) -> Choices]
  BY TotalAssumption
<1> QED
  BY <1>1

\* One aggregate goes on from another, answer by answer.
LEMMA ExtendsByAnswer ==
    ASSUME NEW p \in Payload, NEW q \in Payload
    PROVE  /\ Len(q.answers) >= Len(p.answers)
           /\ SubSeq(q.answers, 1, Len(p.answers)) = p.answers
           <=> /\ Len(q.answers) >= Len(p.answers)
               /\ \A i \in 1..Len(p.answers) : q.answers[i] = p.answers[i]
<1>1. /\ p.answers \in Seq(Choices) /\ q.answers \in Seq(Choices)
      /\ Len(p.answers) \in Nat /\ Len(q.answers) \in Nat
  BY AnswersAreSequences
<1> QED
  BY <1>1

\* What is stored goes on from itself.
LEMMA ExtendsItself ==
    ASSUME NEW p \in Payload
    PROVE  Extends(p, p)
<1>1. Len(p.answers) \in Nat
  BY AnswersAreSequences
<1> QED
  BY <1>1, ExtendsByAnswer DEF Extends

\* Growth adds up.
LEMMA ExtendsAddsUp ==
    ASSUME NEW p \in Payload, NEW q \in Payload, NEW z \in Payload, Extends(p, q), Extends(q, z)
    PROVE  Extends(p, z)
<1>1. /\ Len(p.answers) \in Nat /\ Len(q.answers) \in Nat /\ Len(z.answers) \in Nat
      /\ Len(q.answers) >= Len(p.answers) /\ Len(z.answers) >= Len(q.answers)
      /\ \A i \in 1..Len(p.answers) : q.answers[i] = p.answers[i]
      /\ \A i \in 1..Len(q.answers) : z.answers[i] = q.answers[i]
  BY AnswersAreSequences, ExtendsByAnswer DEF Extends
<1>2. /\ Len(z.answers) >= Len(p.answers)
      /\ \A i \in 1..Len(p.answers) : z.answers[i] = p.answers[i]
  BY <1>1
<1>3. /\ Len(z.answers) >= Len(p.answers)
      /\ SubSeq(z.answers, 1, Len(p.answers)) = p.answers
  BY <1>2, ExtendsByAnswer
<1>4. \A k \in Keys : p.bound[k] # None => z.bound[k] = p.bound[k]
  BY DEF Extends
<1>5. \A q0 \in Questions : p.grades[q0] # None => z.grades[q0] = p.grades[q0]
  BY DEF Extends
<1>6. /\ p.learned # None => z.learned = p.learned
      /\ p.reported => z.reported
      /\ p.profile => z.profile
      /\ p.progress => z.progress
  BY DEF Extends
<1> QED
  BY <1>3, <1>4, <1>5, <1>6 DEF Extends

\* A report that was made is final.
LEMMA ReportsAreFinal ==
    ASSUME NEW p \in Payload, NEW q \in Payload, Extends(p, q), Valid(p), p.reported
    PROVE  q.reported /\ q.grades = p.grades
<1>1. \A n \in Questions : p.grades[n] # None
  BY DEF Valid, Missing
<1>2. p.grades \in [Questions -> Grades] /\ q.grades \in [Questions -> Grades]
  BY DEF Payload
<1>3. \A n \in Questions : q.grades[n] = p.grades[n]
  BY <1>1 DEF Extends
<1> QED
  BY <1>2, <1>3 DEF Extends

\* A report is never what a plain comparison puts into memory.
LEMMA ReportsAreNotPlain ==
    ASSUME NEW grades \in [Questions -> Grades]
    PROVE  grades # Plain
<1>1. 1 \in Questions /\ grades[1] # "plain"
  BY TotalAssumption, NoneAssumption DEF Questions, Grades
<1> QED
  BY <1>1 DEF Plain

\* A quiz that begins, of a stage that is open or of none.
LEMMA FreshAggregates ==
    ASSUME NEW s, NEW request \in StartRequests, request.stage <= Len(path) + 1
    PROVE  Sound(s, FreshPayload(request)) /\ ~ FreshPayload(request).reported
<1> DEFINE p == FreshPayload(request)
<1>1. /\ p.stage = request.stage /\ p.answers = <<>> /\ p.bound = [k \in Keys |-> None]
      /\ p.grades = [q \in Questions |-> None] /\ p.learned = None
      /\ p.reported = FALSE /\ p.profile = FALSE /\ p.progress = FALSE
  BY DEF FreshPayload
<1>2. p \in Payload
  <2>1. <<>> \in UNION {[1..n -> Choices] : n \in 0..Total}
    BY ShortSequencesAreAnswers, TotalAssumption
  <2> QED
    BY <2>1 DEF FreshPayload, Payload, StartRequests, Grades
<1> HIDE DEF p
<1>3. {k \in Keys : p.bound[k] # None} = {}
  BY <1>1
<1>4. IsFiniteSet({}) /\ Cardinality({}) = 0 /\ Len(<<>>) = 0
  BY FS_EmptySet
<1>5. Valid(p)
  <2> DEFINE B == {k \in Keys : p.bound[k] # None}
  <2>0. B = {}
    BY <1>3
  <2> HIDE DEF B
  <2>1. Cardinality(B) <= Len(p.answers)
    BY <1>1, <1>4, <2>0
  <2>2. \A k \in Keys : p.bound[k] = None
    BY <1>3
  <2>3. \A q \in Questions : p.grades[q] = None
    BY <1>1
  <2> QED
    BY <1>1, <2>1, <2>2, <2>3 DEF Valid, B
<1> QED
  BY <1>1, <1>2, <1>3, <1>4, <1>5 DEF Sound, p

\* The next answer, under a key that has no answer yet or under none.
LEMMA NextAnswers ==
    ASSUME NEW s, NEW p, Sound(s, p), NEW r,
           r.ask \in [index : Questions, choice : Choices], r.key \in Keys \cup {None},
           Applicable(r, p), BoundTo(r, p) = None
    PROVE  /\ Sound(s, WithAnswer(r, p)) /\ Extends(p, WithAnswer(r, p))
           /\ Request(WithAnswer(r, p)) = Request(p)
<1> DEFINE w == WithAnswer(r, p)
           n == Len(p.answers)
<1>1. /\ p \in Payload /\ p.answers \in Seq(Choices) /\ n \in Nat /\ n <= Total /\ n # Total
      /\ r.ask.index = n + 1 /\ r.ask.choice \in Choices
  BY AnswersAreSequences DEF Sound, Applicable, Completed
<1>2. /\ w.answers = Append(p.answers, r.ask.choice)
      /\ w.bound = [k \in Keys |-> IF k = r.key THEN r.ask ELSE p.bound[k]]
      /\ w.grades = p.grades /\ w.learned = p.learned /\ w.reported = p.reported
      /\ w.profile = p.profile /\ w.progress = p.progress
      /\ w.short = p.short /\ w.stage = p.stage
  BY <1>1 DEF WithAnswer, Payload
<1>3. /\ Append(p.answers, r.ask.choice) \in Seq(Choices)
      /\ Len(Append(p.answers, r.ask.choice)) = n + 1
      /\ \A i \in 1..n : Append(p.answers, r.ask.choice)[i] = p.answers[i]
      /\ Append(p.answers, r.ask.choice)[n + 1] = r.ask.choice
  BY <1>1
<1>4. w \in Payload
  <2>1. Append(p.answers, r.ask.choice) \in UNION {[1..m -> Choices] : m \in 0..Total}
    <3>1. Len(Append(p.answers, r.ask.choice)) <= Total
      BY <1>1, <1>3, TotalAssumption
    <3> QED
      BY <1>3, <3>1, ShortSequencesAreAnswers
  <2>2. [k \in Keys |-> IF k = r.key THEN r.ask ELSE p.bound[k]]
            \in [Keys -> [index : Questions, choice : Choices] \cup {None}]
    BY <1>1 DEF Payload
  <2>3. w = [[p EXCEPT !.answers = Append(p.answers, r.ask.choice)] EXCEPT
                !.bound = [k \in Keys |-> IF k = r.key THEN r.ask ELSE p.bound[k]]]
    BY <1>1 DEF WithAnswer, Payload
  <2> HIDE DEF w
  <2> QED
    BY <1>1, <2>1, <2>2, <2>3 DEF Payload
<1> HIDE DEF w
<1>5. Extends(p, w)
  <2>1. /\ Len(w.answers) >= Len(p.answers)
        /\ SubSeq(w.answers, 1, Len(p.answers)) = p.answers
    BY <1>1, <1>2, <1>3, <1>4, ExtendsByAnswer
  <2>2. \A k \in Keys : p.bound[k] # None => w.bound[k] = p.bound[k]
    BY <1>2, NoneAssumption DEF BoundTo
  <2> QED
    BY <1>2, <2>1, <2>2 DEF Extends
<1> DEFINE B == {k \in Keys : p.bound[k] # None}
           C == {k \in Keys : w.bound[k] # None}
<1>6. IsFiniteSet(C) /\ Cardinality(C) <= n + 1
  <2>1. IsFiniteSet(B) /\ Cardinality(B) <= n /\ Cardinality(B) \in Nat
    BY FS_CardinalityType DEF Sound, Valid
  <2>2. C \subseteq B \cup {r.key}
    BY <1>2
  <2> HIDE DEF B, C
  <2>3. /\ IsFiniteSet(B \cup {r.key}) /\ Cardinality(B \cup {r.key}) \in Nat
        /\ Cardinality(B \cup {r.key}) \in {Cardinality(B), Cardinality(B) + 1}
    BY <2>1, FS_AddElement
  <2> QED
    BY <1>1, <2>1, <2>2, <2>3, FS_Subset, FS_CardinalityType
<1>7. Valid(w)
  <2>1. \A k \in Keys : w.bound[k] # None =>
            w.bound[k].index <= n + 1 /\ w.answers[w.bound[k].index] = w.bound[k].choice
    <3> SUFFICES ASSUME NEW k \in Keys, w.bound[k] # None
                 PROVE  w.bound[k].index <= n + 1 /\ w.answers[w.bound[k].index] = w.bound[k].choice
      OBVIOUS
    <3>1. CASE k = r.key
      BY <1>1, <1>2, <1>3, <3>1
    <3>2. CASE k # r.key
      <4>1. w.bound[k] = p.bound[k]
        BY <1>2, <3>2
      <4>2. p.bound[k].index <= n /\ p.answers[p.bound[k].index] = p.bound[k].choice
        BY <4>1 DEF Sound, Valid
      <4>3. p.bound[k].index \in 1..n
        BY <1>1, <4>1, <4>2 DEF Payload, Questions
      <4> QED
        BY <1>1, <1>2, <1>3, <4>1, <4>2, <4>3
    <3> QED
      BY <3>1, <3>2
  <2>2. Len(w.answers) = n + 1
    BY <1>2, <1>3
  <2>3. \A q \in Questions : w.grades[q] # None => q <= n + 1
    BY <1>1, <1>2 DEF Sound, Valid, Questions
  <2>4. ~ p.reported /\ (p.learned # None => p.reported) /\ (p.progress => p.reported)
    BY <1>1 DEF Sound, Valid, Completed
  <2> QED
    BY <1>2, <1>6, <2>1, <2>2, <2>3, <2>4 DEF Valid
<1> QED
  BY <1>2, <1>4, <1>5, <1>6, <1>7 DEF Sound, Request, w

\* An aggregate that a request takes a step further after the last answer.
LEMMA LaterAggregates ==
    ASSUME NEW s, NEW p, Sound(s, p), NEW w \in Payload,
           w.answers = p.answers, w.bound = p.bound, w.short = p.short, w.stage = p.stage,
           w.grades = p.grades \/ Completed(p),
           \A q \in Questions : p.grades[q] # None => w.grades[q] = p.grades[q],
           w.learned = p.learned \/ (p.learned = None /\ w.reported),
           p.reported => w.reported, p.profile => w.profile, p.progress => w.progress,
           w.reported => Completed(p) /\ Missing(w) = {},
           w.profile => memory[s] # {},
           w.progress => w.stage # 0 /\ w.reported /\ w.profile /\ w.stage <= Len(path)
    PROVE  Sound(s, w) /\ Extends(p, w) /\ Request(w) = Request(p)
<1>1. p \in Payload /\ Valid(p) /\ Len(p.answers) \in Nat /\ Len(p.answers) <= Total
  BY AnswersAreSequences DEF Sound
<1>2. Extends(p, w)
  <2>1. Extends(p, p)
    BY <1>1, ExtendsItself
  <2> QED
    BY <2>1 DEF Extends
<1>3. \A q \in Questions : w.grades[q] # None => q <= Len(w.answers)
  <2>1. CASE w.grades = p.grades
    BY <1>1, <2>1 DEF Valid
  <2>2. CASE Completed(p)
    BY <2>2 DEF Completed, Questions
  <2> QED
    BY <2>1, <2>2
<1>4. w.learned # None => w.reported
  BY <1>1 DEF Valid
<1>5. w.reported => Completed(w) /\ Missing(w) = {}
  BY DEF Completed
<1>6. Valid(w)
  <2>1. /\ Cardinality({k \in Keys : w.bound[k] # None}) <= Len(w.answers)
        /\ \A k \in Keys : w.bound[k] # None =>
               /\ w.bound[k].index <= Len(w.answers)
               /\ w.answers[w.bound[k].index] = w.bound[k].choice
    BY <1>1 DEF Valid
  <2> QED
    BY <1>3, <1>4, <1>5, <2>1 DEF Valid
<1>7. IsFiniteSet({k \in Keys : w.bound[k] # None}) /\ w.stage <= Len(path) + 1
  BY DEF Sound
<1>8. w.progress => w.stage <= Len(path)
  OBVIOUS
<1> QED
  BY <1>2, <1>6, <1>7, <1>8 DEF Sound, Request

\* Grading by comparison, or by the provider, keeps the grades there are.
LEMMA GradedAggregates ==
    ASSUME NEW s, NEW p, Sound(s, p), Completed(p), ~ p.reported,
           NEW grades \in [Questions -> Grades],
           \A q \in Questions : p.grades[q] # None => grades[q] = p.grades[q]
    PROVE  LET w == [p EXCEPT !.grades = grades]
           IN  /\ Sound(s, w) /\ Extends(p, w) /\ Request(w) = Request(p)
               /\ Completed(w) /\ ~ w.reported
<1> DEFINE w == [p EXCEPT !.grades = grades]
<1>1. p \in Payload
  BY DEF Sound
<1>2. w \in Payload
  BY <1>1 DEF Payload
<1>3. /\ w.answers = p.answers /\ w.bound = p.bound /\ w.short = p.short /\ w.stage = p.stage
      /\ w.grades = grades /\ w.learned = p.learned
      /\ w.reported = p.reported /\ w.profile = p.profile /\ w.progress = p.progress
  BY <1>1 DEF Payload
<1> HIDE DEF w
<1>4. /\ p.profile => memory[s] # {}
      /\ p.progress => p.stage # 0 /\ p.reported /\ p.profile /\ p.stage <= Len(path)
  BY DEF Sound, Valid
<1>5. Sound(s, w) /\ Extends(p, w) /\ Request(w) = Request(p)
  BY <1>2, <1>3, <1>4, LaterAggregates
<1> QED
  BY <1>3, <1>5 DEF Completed, w

\* The grades that comparison settles.
LEMMA ExactGradesAreGrades ==
    ASSUME NEW p \in Payload
    PROVE  /\ ExactGrades(p) \in [Questions -> Grades]
           /\ \A q \in Questions : p.grades[q] # None => ExactGrades(p)[q] = p.grades[q]
BY DEF ExactGrades, Payload, Grades

\* The report, once nothing is missing.
LEMMA ReportedAggregates ==
    ASSUME NEW s, NEW p, Sound(s, p), Completed(p), Missing(p) = {}
    PROVE  LET w == [p EXCEPT !.reported = TRUE]
           IN  /\ Sound(s, w) /\ Extends(p, w) /\ Request(w) = Request(p) /\ w.reported
<1> DEFINE w == [p EXCEPT !.reported = TRUE]
<1>1. p \in Payload
  BY DEF Sound
<1>2. w \in Payload
  BY <1>1 DEF Payload
<1>3. /\ w.answers = p.answers /\ w.bound = p.bound /\ w.short = p.short /\ w.stage = p.stage
      /\ w.grades = p.grades /\ w.learned = p.learned
      /\ w.reported = TRUE /\ w.profile = p.profile /\ w.progress = p.progress
  BY <1>1 DEF Payload
<1> HIDE DEF w
<1>4. /\ p.profile => memory[s] # {}
      /\ p.progress => p.stage # 0 /\ p.reported /\ p.profile /\ p.stage <= Len(path)
  BY DEF Sound, Valid
<1>5. Missing(w) = {}
  BY <1>3 DEF Missing
<1>6. Sound(s, w) /\ Extends(p, w) /\ Request(w) = Request(p)
  BY <1>2, <1>3, <1>4, <1>5, LaterAggregates
<1> QED
  BY <1>3, <1>6 DEF w

\* The marker of the learner's memory, once the memory has a report.
LEMMA MarkedAggregates ==
    \A s, p : Sound(s, p) /\ memory[s] # {} =>
        LET w == [p EXCEPT !.profile = TRUE]
        IN  /\ Sound(s, w) /\ Extends(p, w) /\ Request(w) = Request(p)
            /\ w.profile /\ w.reported = p.reported
<1> SUFFICES ASSUME NEW s, NEW p, Sound(s, p), memory[s] # {}
             PROVE  LET w == [p EXCEPT !.profile = TRUE]
                    IN  /\ Sound(s, w) /\ Extends(p, w) /\ Request(w) = Request(p)
                        /\ w.profile /\ w.reported = p.reported
  OBVIOUS
<1> DEFINE w == [p EXCEPT !.profile = TRUE]
<1>1. p \in Payload
  BY DEF Sound
<1>2. w \in Payload
  BY <1>1 DEF Payload
<1>3. /\ w.answers = p.answers /\ w.bound = p.bound /\ w.short = p.short /\ w.stage = p.stage
      /\ w.grades = p.grades /\ w.learned = p.learned
      /\ w.reported = p.reported /\ w.profile = TRUE /\ w.progress = p.progress
  BY <1>1 DEF Payload
<1> HIDE DEF w
<1>4. /\ p.progress => p.stage # 0 /\ p.reported /\ p.stage <= Len(path)
      /\ p.reported => Completed(p) /\ Missing(p) = {}
  BY DEF Sound, Valid
<1>5. p.reported => Missing(w) = {}
  BY <1>3, <1>4 DEF Missing
<1>6. Sound(s, w) /\ Extends(p, w) /\ Request(w) = Request(p)
  BY <1>2, <1>3, <1>4, <1>5, LaterAggregates
<1> QED
  BY <1>3, <1>6 DEF w

\* The marker of the learning path, once the stage is completed.
LEMMA StagedAggregates ==
    \A s, p : Sound(s, p) /\ p.stage # 0 /\ p.reported /\ p.profile /\ p.stage <= Len(path) =>
        LET w == [p EXCEPT !.progress = TRUE]
        IN  /\ Sound(s, w) /\ Extends(p, w) /\ Request(w) = Request(p) /\ w.reported = p.reported
<1> SUFFICES ASSUME NEW s, NEW p, Sound(s, p), p.stage # 0, p.reported, p.profile,
                    p.stage <= Len(path)
             PROVE  LET w == [p EXCEPT !.progress = TRUE]
                    IN  /\ Sound(s, w) /\ Extends(p, w) /\ Request(w) = Request(p)
                        /\ w.reported = p.reported
  OBVIOUS
<1> DEFINE w == [p EXCEPT !.progress = TRUE]
<1>1. p \in Payload
  BY DEF Sound
<1>2. w \in Payload
  BY <1>1 DEF Payload
<1>3. /\ w.answers = p.answers /\ w.bound = p.bound /\ w.short = p.short /\ w.stage = p.stage
      /\ w.grades = p.grades /\ w.learned = p.learned
      /\ w.reported = p.reported /\ w.profile = p.profile /\ w.progress = TRUE
  BY <1>1 DEF Payload
<1> HIDE DEF w
<1>4. /\ p.profile => memory[s] # {}
      /\ p.reported => Completed(p) /\ Missing(p) = {}
  BY DEF Sound, Valid
<1>5. p.reported => Missing(w) = {}
  BY <1>3, <1>4 DEF Missing
<1>6. Sound(s, w) /\ Extends(p, w) /\ Request(w) = Request(p)
  BY <1>2, <1>3, <1>4, <1>5, LaterAggregates
<1> QED
  BY <1>3, <1>6 DEF w

\* The report the learner gets to keep, once there is a grade.
LEMMA LearnedAggregates ==
    ASSUME NEW s, NEW p, Sound(s, p), p.reported, NEW a \in Attempts
    PROVE  LET w == [p EXCEPT !.learned = IF @ = None THEN a ELSE @]
           IN  /\ Sound(s, w) /\ Extends(p, w) /\ Request(w) = Request(p) /\ w.reported
<1> DEFINE w == [p EXCEPT !.learned = IF @ = None THEN a ELSE @]
<1>1. p \in Payload
  BY DEF Sound
<1>2. w \in Payload
  BY <1>1 DEF Payload
<1>3. /\ w.answers = p.answers /\ w.bound = p.bound /\ w.short = p.short /\ w.stage = p.stage
      /\ w.grades = p.grades /\ w.learned = (IF p.learned = None THEN a ELSE p.learned)
      /\ w.reported = p.reported /\ w.profile = p.profile /\ w.progress = p.progress
  BY <1>1 DEF Payload
<1> HIDE DEF w
<1>4. /\ p.profile => memory[s] # {}
      /\ p.progress => p.stage # 0 /\ p.reported /\ p.profile /\ p.stage <= Len(path)
      /\ Completed(p) /\ Missing(p) = {}
  BY DEF Sound, Valid
<1>5. Missing(w) = {}
  BY <1>3, <1>4 DEF Missing
<1>6. Sound(s, w) /\ Extends(p, w) /\ Request(w) = Request(p)
  BY <1>2, <1>3, <1>4, <1>5, LaterAggregates
<1> QED
  BY <1>3, <1>6 DEF w

-----------------------------------------------------------------------------
(***************************************************************************)
(* What a request may rely on while others work                            *)
(***************************************************************************)
\* A session is created once, and what is stored of it only grows.
Grows(old, new) ==
    /\ Stored(new) => new.payload \in Payload
    /\ old.there # "never" =>
           /\ new.there # "never"
           /\ Stored(new) => /\ Stored(old) /\ new.key = old.key
                             /\ Request(new.payload) = Request(old.payload)
                             /\ Extends(old.payload, new.payload)

\* Nobody but b writes, or claims, under a token of b.
Fenced(b) ==
    \A s \in Sessions, phase \in Phases :
        Stored(rows'[s]) /\ rows'[s].token = <<b, phase>> =>
            /\ Stored(rows[s]) /\ rows[s].token = <<b, phase>>
            /\ rows'[s].payload = rows[s].payload

\* Time passes, and the stores only grow.
Onward ==
    /\ now <= now' /\ Len(path) <= Len(path')
    /\ \A s \in Sessions : Grows(rows[s], rows'[s]) /\ memory[s] \subseteq memory'[s]

\* What every proof about a step may use of the types.
Typed ==
    /\ now \in Nat /\ now >= 1 /\ Len(path) \in Nat
    /\ rows \in [Sessions -> Row]
    /\ \A s \in Sessions : Stored(rows[s]) => rows[s].payload \in Payload
    /\ req \in [Attempts -> Requests] /\ late \in [Attempts -> Requests \cup {None}]

\* The types follow from the invariant.
LEMMA InvTyped == TypeOK /\ RowsAreSound => Typed
<1> SUFFICES ASSUME TypeOK, RowsAreSound PROVE Typed
  OBVIOUS
<1>1. now \in Nat /\ now >= 1
  BY BoundAssumption DEF TypeOK
<1>2. Len(path) \in Nat
  BY DEF TypeOK
<1> QED
  BY <1>1, <1>2 DEF TypeOK, RowsAreSound, Sound, Typed

\* A sound aggregate stays sound.
LEMMA SoundStays ==
    ASSUME Typed, Typed', Onward, NEW s \in Sessions, NEW p, Sound(s, p)
    PROVE  Sound(s, p)'
<1>1. p.profile => memory'[s] # {}
  BY DEF Onward, Sound
<1>2. p \in Payload /\ p.stage \in Nat
  BY StagesAssumption DEF Sound, Payload
<1>3. p.stage <= Len(path') + 1 /\ (p.progress => p.stage <= Len(path'))
  BY <1>2 DEF Onward, Sound, Typed
<1> QED
  BY <1>1, <1>3 DEF Sound

\* What a request carries at its place outlasts what the others do.
LEMMA ShapedStays ==
    ASSUME Typed, Typed', Onward, NEW r \in Requests, Shaped(r)
    PROVE  Shaped(r)'
<1>1. r.since \in Nat /\ r.since <= now'
  BY DEF Shaped, Requests, Typed, Onward
<1>2. r.session \in Sessions /\ rows[r.session].there # "never" => rows'[r.session].there # "never"
  BY DEF Onward, Grows
<1>3. r.pc = "create" => r.ask.stage <= Len(path') + 1
  <2>1. r.pc = "create" => r.ask.stage \in Nat
    BY StagesAssumption DEF Shaped, StartRequests
  <2> QED
    BY <2>1 DEF Shaped, Typed, Onward
<1> QED
  BY <1>1, <1>2, <1>3 DEF Shaped

\* A session that was created keeps what its requests may rely on.
LEMMA RequestStays ==
    ASSUME Typed, Typed', Onward, NEW s \in Sessions, rows[s].there # "never", Stored(rows'[s])
    PROVE  /\ Stored(rows[s]) /\ rows[s].payload \in Payload /\ rows'[s].payload \in Payload
           /\ rows'[s].key = rows[s].key
           /\ Request(rows'[s].payload) = Request(rows[s].payload)
           /\ Extends(rows[s].payload, rows'[s].payload)
BY DEF Onward, Grows, Typed

\* What a request is, and has in hand, outlasts what the others do: under a
\* claim that they respect, or when it needs none.
LEMMA FineStays ==
    ASSUME Typed, Typed', Onward, NEW b \in Attempts, NEW r \in Requests, Fine(b, r),
           Fenced(b) \/ r.pc \notin Working
    PROVE  Fine(b, r)'
<1>1. Graded(r)'
  BY DEF Fine, Graded, Confirmed
<1>2. Shaped(r)'
  BY ShapedStays DEF Fine
<1>3. InHand(b, r)'
  <2> SUFFICES ASSUME r.draft # None PROVE InHand(b, r)'
    BY DEF InHand
  <2> DEFINE s == r.session
  <2>1. s \in Sessions /\ rows[s].there # "never" /\ Sound(s, r.draft)
    BY DEF Fine, InHand
  <2>2. Sound(s, r.draft)' /\ rows'[s].there # "never"
    BY <2>1, SoundStays DEF Onward, Grows
  <2>3. ASSUME Stored(rows'[s])
        PROVE  /\ Request(r.draft) = Request(rows'[s].payload)
               /\ Confirmed(r) => Extends(r.draft, rows'[s].payload)
    <3>1. /\ Stored(rows[s]) /\ rows[s].payload \in Payload /\ rows'[s].payload \in Payload
          /\ Request(rows'[s].payload) = Request(rows[s].payload)
          /\ Extends(rows[s].payload, rows'[s].payload)
      BY <2>1, <2>3, RequestStays
    <3>2. r.draft \in Payload
      BY <2>1 DEF Sound
    <3> QED
      BY <3>1, <3>2, ExtendsAddsUp DEF Fine, InHand
  <2>4. ASSUME Stored(rows'[s]), r.pc \in Working, rows'[s].token = Token(b, r)
        PROVE  Extends(rows'[s].payload, r.draft)
    <3>1. r.phase \in Phases
      BY DEF Requests
    <3>2. Stored(rows[s]) /\ rows[s].token = Token(b, r) /\ rows'[s].payload = rows[s].payload
      BY <2>1, <2>4, <3>1 DEF Fenced, Token
    <3> QED
      BY <2>4, <3>2 DEF Fine, InHand
  <2> QED
    BY <2>1, <2>2, <2>3, <2>4 DEF InHand, Confirmed, Token
<1> QED
  BY <1>1, <1>2, <1>3 DEF Fine

-----------------------------------------------------------------------------
(***************************************************************************)
(* Where a request goes                                                    *)
(***************************************************************************)
\* The fields that a place is not about.
SameRequest(r, n) ==
    n.kind = r.kind /\ n.session = r.session /\ n.key = r.key /\ n.ask = r.ask

\* A request that goes to a place.
LEMMA AtFields ==
    ASSUME Typed, NEW r \in Requests, NEW where \in Places
    PROVE  /\ At(r, where) \in Requests /\ At(r, where).pc = where
           /\ SameRequest(r, At(r, where)) /\ At(r, where).phase = r.phase
           /\ At(r, where).after = r.after /\ At(r, where).draft = r.draft
           /\ At(r, where).since <= now
<1> DEFINE since == IF where \in Calls THEN now ELSE 1
<1>1. since \in Nat /\ since <= now
  BY DEF Typed
<1> HIDE DEF since
<1>2. At(r, where) = [r EXCEPT !.pc = where, !.since = since]
  BY DEF At, since
<1> QED
  BY <1>1, <1>2 DEF Requests, SameRequest

\* A request that takes another phase, target or aggregate.
Carry(r, phase, draft, after) == [r EXCEPT !.phase = phase, !.draft = draft, !.after = after]

\* A request that carries on changes only phase, draft and what it does next.
LEMMA CarryFields ==
    ASSUME NEW r \in Requests, NEW phase \in Phases, NEW draft \in Payload \cup {None},
           NEW after \in Afters
    PROVE  /\ Carry(r, phase, draft, after) \in Requests
           /\ Carry(r, phase, draft, after).pc = r.pc
           /\ SameRequest(r, Carry(r, phase, draft, after))
           /\ Carry(r, phase, draft, after).phase = phase
           /\ Carry(r, phase, draft, after).draft = draft
           /\ Carry(r, phase, draft, after).after = after
BY DEF Requests, SameRequest, Carry

\* The forms that the handlers use.
LEMMA CarryForms ==
    ASSUME NEW r \in Requests, NEW draft, NEW after
    PROVE  /\ [r EXCEPT !.draft = draft] = Carry(r, r.phase, draft, r.after)
           /\ [r EXCEPT !.after = after] = Carry(r, r.phase, r.draft, after)
           /\ [r EXCEPT !.draft = draft, !.after = after] = Carry(r, r.phase, draft, after)
BY DEF Requests, Carry

\* A request that goes to a place with another phase, target or aggregate.
LEMMA GoesWith ==
    ASSUME Typed, NEW r \in Requests, NEW phase \in Phases, NEW draft \in Payload \cup {None},
           NEW after \in Afters, NEW where \in Places, NEW n,
           n = At(Carry(r, phase, draft, after), where)
    PROVE  /\ n \in Requests /\ n.pc = where /\ SameRequest(r, n) /\ n.since <= now
           /\ n.phase = phase /\ n.draft = draft /\ n.after = after
<1> DEFINE m == Carry(r, phase, draft, after)
<1>1. /\ m \in Requests /\ SameRequest(r, m)
      /\ m.phase = phase /\ m.draft = draft /\ m.after = after
  BY CarryFields
<1> HIDE DEF m
<1>2. /\ At(m, where) \in Requests /\ At(m, where).pc = where
      /\ SameRequest(m, At(m, where)) /\ At(m, where).phase = m.phase
      /\ At(m, where).after = m.after /\ At(m, where).draft = m.draft
      /\ At(m, where).since <= now
  BY <1>1, AtFields
<1> QED
  BY <1>1, <1>2 DEF SameRequest, m

\* A request that has not begun, and one that is over.
LEMMA GoneFields ==
    /\ Gone \in Requests /\ Gone.pc = "over" /\ Gone.kind = None /\ Gone.draft = None
    /\ Gone.since = 1 /\ Idle \in Requests /\ Idle.pc = "idle" /\ Idle.draft = None
<1>1. /\ Idle.pc = "idle" /\ Idle.kind = None /\ Idle.draft = None /\ Idle.since = 1
      /\ Idle \in Requests
  BY DEF Idle, Requests, Places, Phases, Calls, Afters
<1>2. "over" \in Places
  BY DEF Places
<1> QED
  BY <1>1, <1>2 DEF Gone, Requests

\* A request that has its answer.
LEMMA AnsweredFields ==
    ASSUME Typed, NEW r \in Requests, NEW n, n = Answered(r)
    PROVE  /\ n \in Requests /\ n.pc = "over" /\ n.since <= now
           /\ IF r.kind \in {"start", "grade", "report"}
              THEN n.kind = r.kind /\ n.session = r.session /\ n.key = r.key /\ n.draft = r.draft
              ELSE n = Gone
<1>1. Gone \in Requests /\ Gone.pc = "over" /\ Gone.since <= now
  BY GoneFields DEF Typed
<1>2. CASE r.kind \in {"start", "grade", "report"}
  <2>1. n = [Gone EXCEPT !.kind = r.kind, !.session = r.session, !.key = r.key, !.draft = r.draft]
    BY <1>2 DEF Answered
  <2>2. n \in Requests
    BY <1>1, <2>1 DEF Requests
  <2>3. /\ n.pc = Gone.pc /\ n.since = Gone.since /\ n.kind = r.kind /\ n.session = r.session
        /\ n.key = r.key /\ n.draft = r.draft
    BY <1>1, <2>1 DEF Requests
  <2> QED
    BY <1>1, <1>2, <2>2, <2>3
<1>3. CASE r.kind \notin {"start", "grade", "report"}
  BY <1>1, <1>3 DEF Answered
<1> QED
  BY <1>2, <1>3

\* A request that lets go of what it claimed.
LEMMA EndingFields ==
    ASSUME Typed, NEW r \in Requests, NEW how \in Afters, NEW n, n = Ending(r, how)
    PROVE  /\ n \in Requests /\ n.pc = "release" /\ SameRequest(r, n) /\ n.since <= now
           /\ n.phase = r.phase /\ n.draft = r.draft /\ n.after = how
<1>1. r.phase \in Phases /\ r.draft \in Payload \cup {None} /\ "release" \in Places
  BY DEF Requests, Places
<1>2. n = At(Carry(r, r.phase, r.draft, how), "release")
  BY CarryForms DEF Ending
<1> QED
  BY <1>1, <1>2, GoesWith

\* A request with a record in hand.
LEMMA RepairedFields ==
    ASSUME Typed, NEW r \in Requests, NEW p \in Payload, NEW n, n = Repaired(r, p)
    PROVE  /\ n \in Requests /\ n.since <= now
           /\ \/ /\ n.pc = "claim" /\ SameRequest(r, n) /\ n.phase # "main"
                 /\ n.draft = p /\ n.after = None
              \/ /\ n.pc = "over" /\ r.kind \in {"start", "grade", "report"}
                 /\ n.kind = r.kind /\ n.session = r.session /\ n.key = r.key /\ n.draft = p
              \/ r.kind \notin {"start", "grade", "report"} /\ n = Gone
<1>1. /\ "claim" \in Places /\ None \in Afters /\ "memory" \in Phases /\ "path" \in Phases
      /\ p \in Payload \cup {None} /\ r.phase \in Phases /\ r.after \in Afters
  BY DEF Places, Calls, Afters, Phases, Requests
<1>2. CASE r.phase = "main" /\ MemoryPending(p)
  <2>1. n = At(Carry(r, "memory", p, None), "claim")
    BY <1>2 DEF Repaired, Carry, MemoryPending, StagePending
  <2> QED
    BY <1>1, <2>1, GoesWith
<1>3. CASE ~ (r.phase = "main" /\ MemoryPending(p)) /\ r.phase # "path" /\ StagePending(p)
  <2>1. n = At(Carry(r, "path", p, None), "claim")
    BY <1>3 DEF Repaired, Carry
  <2> QED
    BY <1>1, <2>1, GoesWith
<1>4. CASE /\ ~ (r.phase = "main" /\ MemoryPending(p))
           /\ ~ (r.phase # "path" /\ StagePending(p))
  <2> DEFINE m == Carry(r, r.phase, p, r.after)
  <2>1. n = Answered(m)
    BY <1>4, CarryForms DEF Repaired
  <2>2. m \in Requests /\ SameRequest(r, m) /\ m.draft = p
    BY <1>1, CarryFields
  <2> HIDE DEF m
  <2> QED
    BY <2>1, <2>2, AnsweredFields DEF SameRequest
<1> QED
  BY <1>2, <1>3, <1>4

-----------------------------------------------------------------------------
(***************************************************************************)
(* What a request has at each place                                        *)
(***************************************************************************)
\* A request for what one session has stored.
Asks(r) ==
    /\ r.kind \in {"answer", "view"} \cup Grading /\ r.session \in Sessions
    /\ rows[r.session].there # "never"
    /\ r.kind = "answer" => r.ask \in [index : Questions, choice : Choices]

\* An aggregate of the session that a request is about.
Carries(r, p) ==
    /\ Sound(r.session, p)
    /\ Stored(rows[r.session]) => Request(p) = Request(rows[r.session].payload)

\* One that was stored.
Shows(r, p) ==
    /\ Carries(r, p)
    /\ Stored(rows[r.session]) => Extends(p, rows[r.session].payload)

\* A request that is over and was told nothing.
LEMMA GoneIsFine == \A a : Typed => Fine(a, Gone)
<1> SUFFICES ASSUME NEW a, Typed PROVE Fine(a, Gone)
  OBVIOUS
<1>1. Gone.pc = "over" /\ Gone.kind = None /\ Gone.draft = None /\ Gone.since <= now
  BY GoneFields DEF Typed
<1>2. Shaped(Gone)
  BY <1>1, NoneAssumption DEF Shaped, Working, Grading
<1>3. Graded(Gone) /\ InHand(a, Gone)
  BY <1>1 DEF Graded, InHand
<1> QED
  BY <1>2, <1>3 DEF Fine

\* With a stored record in hand the request may answer, or repair an outbox.
LEMMA RepairedIsFine ==
    \A a \in Attempts, r \in Requests, p \in Payload :
        Typed /\ Asks(r) /\ Shows(r, p) /\ (r.kind \in Grading => p.reported)
        => Repaired(r, p) \in Requests /\ Fine(a, Repaired(r, p))
<1> SUFFICES ASSUME NEW a \in Attempts, NEW r \in Requests, NEW p \in Payload, Typed, Asks(r),
                    Shows(r, p), r.kind \in Grading => p.reported
             PROVE  Repaired(r, p) \in Requests /\ Fine(a, Repaired(r, p))
  OBVIOUS
<1> DEFINE n == Repaired(r, p)
<1>1. /\ n \in Requests /\ n.since <= now
      /\ \/ /\ n.pc = "claim" /\ SameRequest(r, n) /\ n.phase # "main"
            /\ n.draft = p /\ n.after = None
         \/ /\ n.pc = "over" /\ r.kind \in {"start", "grade", "report"}
            /\ n.kind = r.kind /\ n.session = r.session /\ n.key = r.key /\ n.draft = p
         \/ r.kind \notin {"start", "grade", "report"} /\ n = Gone
  BY RepairedFields
<1> SUFFICES Fine(a, n)
  BY <1>1
<1> HIDE DEF n
<1>2. p # None
  BY NoneAssumption
<1>3. CASE /\ n.pc = "claim" /\ SameRequest(r, n) /\ n.phase # "main" /\ n.draft = p
           /\ n.after = None
  <2>1. Shaped(n)
    BY <1>1, <1>2, <1>3 DEF Shaped, Asks, SameRequest, Working, Grading
  <2>2. Graded(n)
    BY <1>3 DEF Graded, SameRequest
  <2>3. InHand(a, n)
    BY <1>3 DEF InHand, Shows, Carries, Asks, SameRequest, Working
  <2> QED
    BY <2>1, <2>2, <2>3 DEF Fine
<1>4. CASE /\ n.pc = "over" /\ r.kind \in {"start", "grade", "report"}
           /\ n.kind = r.kind /\ n.session = r.session /\ n.key = r.key /\ n.draft = p
  <2>1. n.kind \in Grading
    BY <1>4 DEF Asks, Grading
  <2>2. Shaped(n)
    BY <1>1, <1>2, <1>4, <2>1 DEF Shaped, Working
  <2>3. Graded(n)
    BY <1>4 DEF Graded
  <2>4. InHand(a, n)
    BY <1>4 DEF InHand, Shows, Carries, Asks, Working
  <2> QED
    BY <2>2, <2>3, <2>4 DEF Fine
<1>5. CASE n = Gone
  BY <1>5, GoneIsFine
<1> QED
  BY <1>1, <1>3, <1>4, <1>5

\* A request that is starting a quiz.
LEMMA StartIsFine ==
    ASSUME NEW a, NEW n \in Requests, n.since <= now, n.draft = None,
           n.pc \in {"find", "refind", "bind", "rebind", "create"},
           n.kind = "start", n.ask \in StartRequests,
           n.pc = "create" => n.ask.stage <= Len(path) + 1
    PROVE  Fine(a, n)
<1>1. Shaped(n)
  BY DEF Shaped, Working
<1>2. Graded(n) /\ InHand(a, n)
  BY DEF Graded, InHand
<1> QED
  BY <1>1, <1>2 DEF Fine

\* A request for a session, before it has read or claimed it.
LEMMA AskingIsFine ==
    ASSUME NEW a, NEW n \in Requests, n.since <= now, n.draft = None, n.phase = "main", Asks(n),
           n.after = None,
           \/ n.pc = "inspect" /\ n.kind \in {"answer", "view"}
           \/ n.pc = "claim" /\ n.kind # "view"
    PROVE  Fine(a, n)
<1>1. Shaped(n)
  BY DEF Shaped, Asks, Working
<1>2. Graded(n) /\ InHand(a, n)
  BY DEF Graded, InHand
<1> QED
  BY <1>1, <1>2 DEF Fine

\* A request that failed lets go.
LEMMA EndingIsFine ==
    \A a \in Attempts, r \in Requests, how \in {"failed", "stale"} :
        Typed /\ Asks(r) /\ (r.draft # None => Carries(r, r.draft))
        => Ending(r, how) \in Requests /\ Fine(a, Ending(r, how))
<1> SUFFICES ASSUME NEW a \in Attempts, NEW r \in Requests, NEW how \in {"failed", "stale"}, Typed,
                    Asks(r), r.draft # None => Carries(r, r.draft)
             PROVE  Ending(r, how) \in Requests /\ Fine(a, Ending(r, how))
  OBVIOUS
<1> DEFINE n == Ending(r, how)
<1>1. /\ n \in Requests /\ n.pc = "release" /\ SameRequest(r, n) /\ n.since <= now
      /\ n.phase = r.phase /\ n.draft = r.draft /\ n.after = how
  BY EndingFields DEF Afters
<1> SUFFICES Fine(a, n)
  BY <1>1
<1> HIDE DEF n
<1>2. Shaped(n)
  BY <1>1 DEF Shaped, Asks, SameRequest, Working
<1>3. Graded(n)
  BY <1>1 DEF Graded, Confirmed
<1>4. InHand(a, n)
  BY <1>1 DEF InHand, Carries, Asks, SameRequest, Confirmed, Working
<1> QED
  BY <1>2, <1>3, <1>4 DEF Fine

\* A request that lets go of a record it goes on with.
LEMMA EndingShown ==
    \A a \in Attempts, r \in Requests, how \in {"repair", "reread"} :
        /\ Typed /\ Asks(r) /\ r.draft # None /\ Shows(r, r.draft)
        /\ r.kind \in Grading => r.draft.reported
        /\ how = "reread" => r.phase # "main"
        /\ how = "repair" => r.phase = "main" /\ r.kind = "answer"
        => Ending(r, how) \in Requests /\ Fine(a, Ending(r, how))
<1> SUFFICES ASSUME NEW a \in Attempts, NEW r \in Requests, NEW how \in {"repair", "reread"}, Typed,
                    Asks(r), r.draft # None, Shows(r, r.draft),
                    r.kind \in Grading => r.draft.reported,
                    how = "reread" => r.phase # "main",
                    how = "repair" => r.phase = "main" /\ r.kind = "answer"
             PROVE  Ending(r, how) \in Requests /\ Fine(a, Ending(r, how))
  OBVIOUS
<1> DEFINE n == Ending(r, how)
<1>1. /\ n \in Requests /\ n.pc = "release" /\ SameRequest(r, n) /\ n.since <= now
      /\ n.phase = r.phase /\ n.draft = r.draft /\ n.after = how
  BY EndingFields DEF Afters
<1> SUFFICES Fine(a, n)
  BY <1>1
<1> HIDE DEF n
<1>2. Shaped(n)
  BY <1>1 DEF Shaped, Asks, SameRequest, Working
<1>3. Graded(n)
  BY <1>1 DEF Graded, SameRequest
<1>4. InHand(a, n)
  BY <1>1 DEF InHand, Shows, Carries, Asks, SameRequest, Working
<1> QED
  BY <1>2, <1>3, <1>4 DEF Fine

\* An aggregate that goes on from what is stored under the request's claim.
Owns(a, r, p) ==
    Stored(rows[r.session]) /\ rows[r.session].token = Token(a, r) =>
        Extends(rows[r.session].payload, p)

\* A request at work under its claim.
AtWork(a, n) ==
    /\ n.pc \in Working /\ n.since <= now /\ Asks(n)
    /\ n.draft # None /\ Carries(n, n.draft) /\ Owns(a, n, n.draft)
    /\ n.pc \notin {"checkpoint", "complete"} => Shows(n, n.draft)
    /\ n.pc \in {"exact", "provider", "learn"} => n.phase = "main" /\ n.kind \in Grading
    /\ Graded(n)

\* Work under a claim is among what a request may have in hand.
LEMMA WorkIsFine == \A a \in Attempts, n \in Requests : AtWork(a, n) => Fine(a, n)
<1> SUFFICES ASSUME NEW a \in Attempts, NEW n \in Requests, AtWork(a, n) PROVE Fine(a, n)
  OBVIOUS
<1>1. Shaped(n)
  BY DEF AtWork, Shaped, Asks, Working
<1>2. InHand(a, n)
  BY DEF AtWork, InHand, Shows, Carries, Owns, Asks, Confirmed, Working
<1> QED
  BY <1>1, <1>2 DEF AtWork, Fine

\* The same after a step.
LEMMA WorkIsFineThen == (\A a \in Attempts, n \in Requests : AtWork(a, n) => Fine(a, n))'
BY WorkIsFine, PTL

\* The same, read the other way round.
LEMMA FineIsAtWork ==
    ASSUME NEW a \in Attempts, NEW r \in Requests, Fine(a, r), r.pc \in Working
    PROVE  AtWork(a, r) /\ r.draft \in Payload /\ Sound(r.session, r.draft)
<1>1. r.since <= now /\ Asks(r) /\ r.draft # None
      /\ (r.pc \in {"exact", "provider", "learn"} => r.phase = "main" /\ r.kind \in Grading)
  BY DEF Fine, Shaped, Asks, Working
<1>2. Sound(r.session, r.draft) /\ Carries(r, r.draft) /\ Owns(a, r, r.draft)
  BY <1>1 DEF Fine, InHand, Carries, Owns
<1>3. r.pc \notin {"checkpoint", "complete"} => Shows(r, r.draft)
  BY <1>1, <1>2 DEF Fine, InHand, Shows, Confirmed, Working
<1> QED
  BY <1>1, <1>2, <1>3 DEF Fine, AtWork, Sound

\* What a request for a session relies on before, between and after its claims.
LEMMA FineAsks ==
    ASSUME NEW a \in Attempts, NEW r \in Requests, Fine(a, r),
           r.pc \in Working \cup {"inspect", "claim", "release", "reread"}
    PROVE  /\ Asks(r)
           /\ r.draft # None => Carries(r, r.draft) /\ r.draft \in Payload
           /\ r.draft # None /\ Confirmed(r) =>
                 Shows(r, r.draft)
BY DEF Fine, Shaped, InHand, Asks, Carries, Shows, Sound

-----------------------------------------------------------------------------
(***************************************************************************)
(* Steps of one request that leave the stores as they are                  *)
(***************************************************************************)
\* A token stored for phase of session s belongs to r, or r is gone.
Claims(r, s, phase) ==
    \/ r.pc = "over"
    \/ r.pc \in Working \cup {"release"} /\ r.session = s /\ r.phase = phase

TokensOf(a) ==
    \A s \in Sessions, phase \in Phases :
        Stored(rows[s]) /\ rows[s].token = <<a, phase>> => Claims(req[a], s, phase)

\* A start that was answered under a key was answered with the session of it.
Found(r) ==
    r.pc = "over" /\ r.kind = "start" /\ r.key # None =>
        /\ r.session \in Sessions /\ rows[r.session].there # "never"
        /\ Stored(rows[r.session]) => rows[r.session].key = r.key

\* What the invariant says of one request.
Proper(a) ==
    /\ req[a] \in Requests /\ late[a] \in Requests \cup {None}
    /\ Fine(a, req[a]) /\ (late[a] # None => Fine(a, late[a]) /\ Left(a))
    /\ TokensOf(a) /\ Found(req[a])

\* The parts of the invariant, request by request.
LEMMA InvProper == TypeOK /\ RequestsAreFine /\ TokensAreOfClaims /\ KeysAreOfOne
                   => \A a \in Attempts : Proper(a)
<1> SUFFICES ASSUME TypeOK, RequestsAreFine, TokensAreOfClaims, KeysAreOfOne, NEW a \in Attempts
             PROVE  Proper(a)
  OBVIOUS
<1>1. req[a] \in Requests /\ late[a] \in Requests \cup {None}
  BY DEF TypeOK
<1>2. Fine(a, req[a]) /\ (late[a] # None => Fine(a, late[a]) /\ Left(a))
  BY DEF RequestsAreFine
<1>3. TokensOf(a)
  BY DEF TokensAreOfClaims, TokensOf, Claims
<1>4. Found(req[a])
  BY DEF KeysAreOfOne, Found
<1> QED
  BY <1>1, <1>2, <1>3, <1>4 DEF Proper

\* A request keeps its claim until it lets go, or is over.
StaysAt(r, n) ==
    \/ n.pc = "over"
    \/ r.pc \notin Working \cup {"release", "over"}
    \/ /\ r.pc # "over"
       /\ n.pc \in Working \cup {"release"} /\ n.session = r.session /\ n.phase = r.phase

\* The aggregate n has in hand says no more than that of r, or than what is stored.
SaysFor(r, n) ==
    n.draft # None =>
        /\ n.session = r.session
        /\ \/ /\ r.draft # None /\ n.draft.stage = r.draft.stage
              /\ Confirmed(n) /\ n.draft.reported =>
                    Confirmed(r) /\ r.draft.reported /\ n.draft.grades = r.draft.grades
           \/ /\ r.session \in Sessions /\ Stored(rows[r.session])
              /\ n.draft.stage = rows[r.session].payload.stage
              /\ Confirmed(n) /\ n.draft.reported =>
                    /\ rows[r.session].payload.reported
                    /\ n.draft.grades = rows[r.session].payload.grades

\* A request that is told no more agrees with the verdict as before.
LEMMA SaysNoMore ==
    ASSUME NEW verdicts, AllSay(verdicts), NEW r, Says(verdicts, r), NEW n, SaysFor(r, n)
    PROVE  Says(verdicts, n)
<1> SUFFICES ASSUME n.draft # None PROVE Says(verdicts, n)
  BY DEF Says
<1>1. CASE /\ r.draft # None /\ n.draft.stage = r.draft.stage
           /\ Confirmed(n) /\ n.draft.reported =>
                 Confirmed(r) /\ r.draft.reported /\ n.draft.grades = r.draft.grades
  BY <1>1 DEF Says, SaysFor
<1>2. CASE /\ r.session \in Sessions /\ Stored(rows[r.session])
           /\ n.draft.stage = rows[r.session].payload.stage
           /\ Confirmed(n) /\ n.draft.reported =>
                 /\ rows[r.session].payload.reported
                 /\ n.draft.grades = rows[r.session].payload.grades
  BY <1>2 DEF Says, SaysFor, AllSay
<1> QED
  BY <1>1, <1>2 DEF SaysFor

\* A request that may go on as n.
Goes(a, n) ==
    /\ n \in Requests /\ Fine(a, n) /\ StaysAt(req[a], n) /\ Found(n) /\ SaysFor(req[a], n)

Moves(a) == \E n \in Requests : Go(a, n) /\ Goes(a, n)

\* A request may always end with nothing in hand.
LEMMA GoneGoes ==
    ASSUME Typed, NEW a \in Attempts
    PROVE  Goes(a, Gone)
BY GoneFields, GoneIsFine, NoneAssumption DEF Goes, StaysAt, Found, SaysFor

\* With a record in hand a request answers or repairs.
LEMMA RepairedGoes ==
    ASSUME Typed, NEW a \in Attempts, Proper(a), NEW p \in Payload,
           req[a].pc \in {"inspect", "claim", "reread"}, Shows(req[a], p),
           req[a].kind \in Grading => p.reported,
           \/ p = req[a].draft /\ Confirmed(req[a])
           \/ Stored(rows[req[a].session]) /\ p = rows[req[a].session].payload
    PROVE  Goes(a, Repaired(req[a], p))
<1> DEFINE r == req[a]
           n == Repaired(r, p)
<1>1. r \in Requests /\ Fine(a, r) /\ Asks(r)
  BY FineAsks DEF Proper
<1>2. /\ n \in Requests
      /\ \/ /\ n.pc = "claim" /\ SameRequest(r, n) /\ n.phase # "main"
            /\ n.draft = p /\ n.after = None
         \/ /\ n.pc = "over" /\ r.kind \in {"start", "grade", "report"}
            /\ n.kind = r.kind /\ n.session = r.session /\ n.key = r.key /\ n.draft = p
         \/ r.kind \notin {"start", "grade", "report"} /\ n = Gone
  BY <1>1, RepairedFields
<1>3. Fine(a, n)
  BY <1>1, RepairedIsFine
<1> HIDE DEF n
<1>4. StaysAt(r, n)
  BY DEF StaysAt, Working
<1>5. Found(n)
  BY <1>1, <1>2, GoneFields, NoneAssumption DEF Found, Asks, Grading
<1>6. SaysFor(r, n)
  <2>1. n.draft # None => n.draft = p /\ n.session = r.session
    BY <1>2, GoneFields DEF SameRequest
  <2>2. r.session \in Sessions /\ p # None
    BY <1>1, NoneAssumption DEF Asks
  <2> QED
    BY <2>1, <2>2 DEF SaysFor
<1> QED
  BY <1>2, <1>3, <1>4, <1>5, <1>6 DEF Goes, n

\* A request that failed lets go.
LEMMA EndingGoes ==
    ASSUME Typed, NEW a \in Attempts, Proper(a), req[a].pc \in Working \cup {"claim"},
           NEW how \in {"failed", "stale"}
    PROVE  Goes(a, Ending(req[a], how))
<1> DEFINE r == req[a]
           n == Ending(r, how)
<1>1. r \in Requests /\ Fine(a, r) /\ Asks(r) /\ (r.draft # None => Carries(r, r.draft))
  BY FineAsks DEF Proper
<1>2. /\ n \in Requests /\ n.pc = "release" /\ SameRequest(r, n) /\ n.since <= now
      /\ n.phase = r.phase /\ n.draft = r.draft /\ n.after = how
  BY <1>1, EndingFields DEF Afters
<1>3. Fine(a, n)
  BY <1>1, EndingIsFine
<1> HIDE DEF n
<1>4. StaysAt(r, n) /\ Found(n)
  BY <1>2 DEF StaysAt, SameRequest, Found, Working
<1>5. SaysFor(r, n)
  BY <1>2 DEF SaysFor, SameRequest, Confirmed
<1> QED
  BY <1>2, <1>3, <1>4, <1>5 DEF Goes, n

\* A request goes on with its work.
LEMMA WorkGoes ==
    ASSUME NEW a \in Attempts, Proper(a), req[a].pc \in Working, NEW n \in Requests, AtWork(a, n),
           SameRequest(req[a], n), n.phase = req[a].phase, SaysFor(req[a], n)
    PROVE  Goes(a, n)
<1>1. Fine(a, n)
  BY WorkIsFine
<1>2. StaysAt(req[a], n) /\ Found(n)
  BY DEF StaysAt, SameRequest, AtWork, Found, Working
<1> QED
  BY <1>1, <1>2 DEF Goes

\* What the client asked.
Asked(kind, s, k, ask, where) ==
    [Idle EXCEPT !.pc = where, !.kind = kind, !.session = s, !.key = k, !.ask = ask]

Kinds == {"start", "answer", "grade", "report", "view", None}

\* A request that has just asked has nothing in hand.
LEMMA AskedFields ==
    ASSUME NEW kind \in Kinds, NEW s \in Sessions \cup {None}, NEW k \in Keys \cup {None},
           NEW ask \in StartRequests \cup [index : Questions, choice : Choices] \cup {None},
           NEW where \in Places, NEW n, n = Asked(kind, s, k, ask, where)
    PROVE  /\ n \in Requests /\ n.pc = where /\ n.kind = kind /\ n.session = s /\ n.key = k
           /\ n.ask = ask /\ n.draft = None /\ n.phase = "main" /\ n.since = 1 /\ n.after = None
<1>1. /\ Idle \in Requests /\ Idle.draft = None /\ Idle.phase = "main" /\ Idle.since = 1
      /\ Idle.after = None
  BY GoneFields DEF Idle
<1> DEFINE m == [Idle EXCEPT !.pc = where, !.kind = kind]
<1>2. /\ m \in Requests /\ m.pc = where /\ m.kind = kind
      /\ m.draft = None /\ m.phase = "main" /\ m.since = 1 /\ m.after = None
  BY <1>1 DEF Requests, Kinds
<1> DEFINE l == [m EXCEPT !.session = s, !.key = k]
<1>3. n = [l EXCEPT !.ask = ask]
  BY DEF Asked
<1> HIDE DEF m
<1>4. /\ l \in Requests /\ l.session = s /\ l.key = k /\ l.pc = m.pc /\ l.kind = m.kind
      /\ l.draft = m.draft /\ l.phase = m.phase /\ l.since = m.since /\ l.after = m.after
  BY <1>2 DEF Requests
<1> HIDE DEF l
<1>5. /\ n \in Requests /\ n.ask = ask /\ n.session = l.session /\ n.key = l.key
      /\ n.pc = l.pc /\ n.kind = l.kind
      /\ n.draft = l.draft /\ n.phase = l.phase /\ n.since = l.since /\ n.after = l.after
  BY <1>3, <1>4 DEF Requests
<1> QED
  BY <1>2, <1>4, <1>5

\* A request that arrives is one that was idle.
LEMMA ReceiveIsAsked ==
    ASSUME NEW a, NEW kind, NEW s, NEW k, NEW ask, NEW where, Receive(a, kind, s, k, ask, where)
    PROVE  Go(a, Asked(kind, s, k, ask, where)) /\ req[a].pc = "idle"
BY GoneFields DEF Receive, Asked

\* A start that is received has nothing in hand yet.
LEMMA ReceiveStartMoves ==
    ASSUME Typed, NEW a \in Attempts, Proper(a), ReceiveStart(a)
    PROVE  Moves(a)
<1>1. PICK k \in Keys \cup {None}, ask \in StartRequests :
          Receive(a, "start", None, k, ask, IF k = None THEN "bind" ELSE "find")
  BY DEF ReceiveStart
<1> DEFINE where == IF k = None THEN "bind" ELSE "find"
           n == Asked("start", None, k, ask, where)
<1>2. Go(a, n) /\ req[a].pc = "idle"
  BY <1>1, ReceiveIsAsked
<1>3. where \in Places /\ where \in {"bind", "find"} /\ "start" \in Kinds
  BY DEF Places, Calls, Kinds
<1> HIDE DEF where
<1>4. /\ n \in Requests /\ n.pc = where /\ n.kind = "start" /\ n.session = None /\ n.key = k
      /\ n.ask = ask /\ n.draft = None /\ n.phase = "main" /\ n.since = 1 /\ n.after = None
  BY <1>3, AskedFields
<1> HIDE DEF n
<1>5. Fine(a, n)
  BY <1>3, <1>4, StartIsFine DEF Typed
<1>6. StaysAt(req[a], n) /\ Found(n) /\ SaysFor(req[a], n)
  BY <1>2, <1>3, <1>4 DEF StaysAt, Found, SaysFor, Working
<1> QED
  BY <1>2, <1>4, <1>5, <1>6 DEF Moves, Goes

\* Any other request is for a session that is stored.
LEMMA ReceiveMoves ==
    ASSUME Typed, NEW a \in Attempts, Proper(a), NEW s \in Sessions, Stored(rows[s]),
           NEW k \in Keys \cup {None}, NEW kind \in {"answer", "view"} \cup Grading,
           NEW ask \in [index : Questions, choice : Choices] \cup {None},
           kind = "answer" => ask \in [index : Questions, choice : Choices],
           NEW where, where = IF kind \in Grading THEN "claim" ELSE "inspect",
           Receive(a, kind, s, k, ask, where)
    PROVE  Moves(a)
<1> DEFINE n == Asked(kind, s, k, ask, where)
<1>2. Go(a, n) /\ req[a].pc = "idle"
  BY ReceiveIsAsked
<1>3. where \in Places /\ kind \in Kinds
  BY DEF Places, Calls, Kinds, Grading
<1>4. /\ n \in Requests /\ n.pc = where /\ n.kind = kind /\ n.session = s /\ n.key = k
      /\ n.ask = ask /\ n.draft = None /\ n.phase = "main" /\ n.since = 1 /\ n.after = None
  BY <1>3, AskedFields
<1> HIDE DEF n
<1>5. Asks(n) /\ n.since <= now
  BY <1>4 DEF Asks, Stored, Typed
<1>6. Fine(a, n)
  BY <1>3, <1>4, <1>5, AskingIsFine DEF Grading
<1>7. StaysAt(req[a], n) /\ Found(n) /\ SaysFor(req[a], n)
  BY <1>2, <1>3, <1>4 DEF StaysAt, Found, SaysFor, Working
<1> QED
  BY <1>2, <1>4, <1>6, <1>7 DEF Moves, Goes

\* An answer that is received has nothing in hand yet.
LEMMA ReceiveAnswerMoves ==
    ASSUME Typed, NEW a \in Attempts, Proper(a), ReceiveAnswer(a)
    PROVE  Moves(a)
<1>1. PICK s \in Sessions, k \in Keys \cup {None}, i \in Questions, c \in Choices :
          Stored(rows[s]) /\ Receive(a, "answer", s, k, [index |-> i, choice |-> c], "inspect")
  BY DEF ReceiveAnswer
<1>2. [index |-> i, choice |-> c] \in [index : Questions, choice : Choices]
  OBVIOUS
<1>3. "inspect" = (IF "answer" \in Grading THEN "claim" ELSE "inspect")
  BY DEF Grading
<1> QED
  BY <1>1, <1>2, <1>3, ReceiveMoves

\* A view, a grading or a report that is received has nothing in hand yet.
LEMMA ReceiveOtherMoves ==
    ASSUME Typed, NEW a \in Attempts, Proper(a), ReceiveOther(a)
    PROVE  Moves(a)
<1>1. PICK s \in Sessions, kind \in {"grade", "report", "view"} :
          Stored(rows[s])
          /\ Receive(a, kind, s, None, None, IF kind = "view" THEN "inspect" ELSE "claim")
  BY DEF ReceiveOther
<1>2. /\ (IF kind = "view" THEN "inspect" ELSE "claim")
             = (IF kind \in Grading THEN "claim" ELSE "inspect")
      /\ kind \in {"answer", "view"} \cup Grading /\ kind # "answer"
  BY DEF Grading
<1> QED
  BY <1>1, <1>2, ReceiveMoves

\* A start looks for its key, for its stage, or finds no room.
LEMMA StartMoves ==
    ASSUME Typed, NEW a \in Attempts, Proper(a), req[a].kind = "start", req[a].draft = None,
           req[a].pc \in {"find", "refind", "bind", "rebind", "create"},
           NEW where \in {"bind", "rebind", "create", "refind"}, Go(a, At(req[a], where)),
           where = "create" => req[a].ask.stage <= Len(path) + 1
    PROVE  Moves(a)
<1> DEFINE r == req[a]
           n == At(r, where)
<1>1. r \in Requests /\ Fine(a, r) /\ where \in Places
  BY DEF Proper, Places, Calls
<1>2. r.ask \in StartRequests
  BY <1>1 DEF Fine, Shaped
<1>3. /\ n \in Requests /\ n.pc = where /\ SameRequest(r, n) /\ n.phase = r.phase
      /\ n.draft = r.draft /\ n.since <= now
  BY <1>1, AtFields
<1> HIDE DEF n
<1>4. Fine(a, n)
  BY <1>2, <1>3, StartIsFine DEF SameRequest
<1>5. StaysAt(r, n) /\ Found(n) /\ SaysFor(r, n)
  BY <1>3 DEF StaysAt, Found, SaysFor, Working
<1>6. Goes(a, n)
  BY <1>3, <1>4, <1>5 DEF Goes
<1> QED
  BY <1>3, <1>6 DEF Moves, n

\* Until it has a session, a start has nothing but what it asks.
LEMMA StartPlaces ==
    ASSUME NEW a \in Attempts, Proper(a), req[a].pc \in {"find", "refind", "bind", "rebind", "create"}
    PROVE  /\ req[a].kind = "start" /\ req[a].draft = None /\ req[a].ask \in StartRequests
           /\ req[a].ask.stage \in Nat
BY StagesAssumption DEF Proper, Fine, Shaped, StartRequests

\* A start that looks for its key finds its own session or none.
LEMMA FindStartMoves ==
    ASSUME Typed, NEW a \in Attempts, Proper(a), FindStart(a)
    PROVE  Moves(a)
<1> DEFINE r == req[a]
<1>1. r.pc \in {"find", "refind"} /\ r \in Requests
  BY DEF FindStart, Proper
<1>2. r.kind = "start" /\ r.draft = None
  BY <1>1, StartPlaces
<1>3. CASE Go(a, Gone)
  BY <1>3, GoneGoes, GoneFields DEF Moves
<1>4. CASE Go(a, At(r, "bind"))
  BY <1>1, <1>2, <1>4, StartMoves
<1>5. ASSUME NEW s \in StartedUnder(rows, r.key), Go(a, Answered([r EXCEPT !.session = s]))
      PROVE  Moves(a)
  <2> DEFINE m == [r EXCEPT !.session = s]
             n == Answered(m)
  <2>1. s \in Sessions /\ Stored(rows[s]) /\ rows[s].key = r.key
    BY <1>5 DEF StartedUnder, Typed
  <2>2. m \in Requests /\ m.kind = "start" /\ m.session = s /\ m.key = r.key /\ m.draft = None
    BY <1>1, <1>2, <2>1 DEF Requests
  <2> HIDE DEF m
  <2>3. /\ n \in Requests /\ n.pc = "over" /\ n.since <= now /\ n.kind = "start"
        /\ n.session = s /\ n.key = r.key /\ n.draft = None
    BY <2>2, AnsweredFields
  <2> HIDE DEF n
  <2>4. Shaped(n)
    BY <2>3, NoneAssumption DEF Shaped, Working, Grading
  <2>5. Graded(n) /\ InHand(a, n)
    BY <2>3 DEF Graded, InHand
  <2>6. StaysAt(r, n) /\ SaysFor(r, n)
    BY <2>3 DEF StaysAt, SaysFor
  <2>7. Found(n)
    BY <2>1, <2>3 DEF Found, Stored
  <2> QED
    BY <1>5, <2>3, <2>4, <2>5, <2>6, <2>7 DEF Moves, Goes, Fine, n, m
<1> QED
  BY <1>1, <1>3, <1>4, <1>5 DEF FindStart

\* A start is bound to a stage of the path as it stands.
LEMMA BindStageMoves ==
    ASSUME Typed, NEW a \in Attempts, Proper(a), BindStage(a)
    PROVE  Moves(a)
<1> DEFINE r == req[a]
<1>1. r.pc \in {"bind", "rebind"}
  BY DEF BindStage
<1>2. r.kind = "start" /\ r.draft = None /\ r.ask.stage \in Nat
  BY <1>1, StartPlaces
<1>3. CASE Go(a, At(r, "refind"))
  BY <1>1, <1>2, <1>3, StartMoves
<1>4. CASE /\ r.ask.stage = 0 \/ P!StageOpen(path, r.ask.stage)
           /\ Go(a, At(r, IF r.pc = "bind" THEN "rebind" ELSE "create"))
  <2>1. r.ask.stage <= Len(path) + 1
    BY <1>2, <1>4 DEF Typed, P!StageOpen, P!CompletedThrough
  <2>2. CASE r.pc = "bind"
    BY <1>2, <1>4, <2>2, StartMoves
  <2>3. CASE r.pc = "rebind"
    BY <1>2, <1>4, <2>1, <2>3, StartMoves
  <2> QED
    BY <1>1, <2>2, <2>3
<1> QED
  BY <1>3, <1>4 DEF BindStage

\* A start that is refused a session ends, or looks for its key again.
LEMMA CreateRefusedMoves ==
    ASSUME Typed, NEW a \in Attempts, Proper(a), CreateRefused(a)
    PROVE  Moves(a)
<1> DEFINE r == req[a]
<1>1. r.pc = "create" /\ Go(a, At(r, "refind"))
  BY DEF CreateRefused
<1>2. r.kind = "start" /\ r.draft = None
  BY <1>1, StartPlaces
<1> QED
  BY <1>1, <1>2, StartMoves

\* What is stored is sound, and may be shown.
LEMMA StoredShows ==
    ASSUME Typed, RowsAreSound, NEW r, r.session \in Sessions, Stored(rows[r.session])
    PROVE  /\ rows[r.session].payload \in Payload /\ Shows(r, rows[r.session].payload)
BY ExtendsItself DEF Typed, RowsAreSound, Shows, Carries

\* A request that reads its session has in hand what is stored.
LEMMA InspectMoves ==
    ASSUME Typed, RowsAreSound, NEW a \in Attempts, Proper(a), Inspect(a)
    PROVE  Moves(a)
<1> DEFINE r == req[a]
           p == rows[r.session].payload
<1>1. r.pc = "inspect" /\ r \in Requests /\ Fine(a, r) /\ Asks(r)
  BY FineAsks DEF Inspect, Proper
<1>2. r.kind \in {"answer", "view"} /\ r.phase = "main" /\ r.draft = None /\ r.after = None
  BY <1>1 DEF Fine, Shaped
<1>3. CASE Go(a, Gone)
  BY <1>3, GoneGoes, GoneFields DEF Moves
<1>4. CASE Stored(rows[r.session]) /\ Go(a, Repaired(r, p))
  <2>1. p \in Payload /\ Shows(r, p)
    BY <1>1, <1>4, StoredShows DEF Asks
  <2>2. Goes(a, Repaired(r, p))
    BY <1>1, <1>2, <1>4, <2>1, RepairedGoes DEF Grading
  <2> QED
    BY <1>4, <2>2 DEF Moves, Goes
<1>5. CASE r.kind # "view" /\ Go(a, At(r, "claim"))
  <2> DEFINE n == At(r, "claim")
  <2>1. "claim" \in Places
    BY DEF Places, Calls
  <2>2. /\ n \in Requests /\ n.pc = "claim" /\ SameRequest(r, n) /\ n.phase = r.phase
        /\ n.draft = r.draft /\ n.since <= now /\ n.after = r.after
    BY <1>1, <2>1, AtFields
  <2> HIDE DEF n
  <2>3. Asks(n)
    BY <1>1, <2>2 DEF Asks, SameRequest
  <2>4. Fine(a, n)
    BY <1>2, <1>5, <2>2, <2>3, AskingIsFine DEF SameRequest
  <2>5. StaysAt(r, n) /\ Found(n) /\ SaysFor(r, n)
    BY <1>1, <1>2, <2>2 DEF StaysAt, Found, SaysFor, Working
  <2>6. Goes(a, n)
    BY <2>2, <2>4, <2>5 DEF Goes
  <2> QED
    BY <1>5, <2>2, <2>6 DEF Moves, n
<1> QED
  BY <1>3, <1>4, <1>5 DEF Inspect

\* A refused claim ends the request, or lets it answer with its draft.
LEMMA ClaimRefusedMoves ==
    ASSUME Typed, NEW a \in Attempts, Proper(a), ClaimRefused(a)
    PROVE  Moves(a)
<1> DEFINE r == req[a]
<1>1. r.pc = "claim" /\ r \in Requests /\ Fine(a, r) /\ Go(a, IF r.phase = "main" THEN Gone ELSE Repaired(r, r.draft))
  BY DEF ClaimRefused, Proper
<1>2. CASE r.phase = "main"
  BY <1>1, <1>2, GoneGoes, GoneFields DEF Moves
<1>3. CASE r.phase # "main"
  <2>1. r.draft # None
    BY <1>1, <1>3 DEF Fine, Shaped
  <2>2. Confirmed(r)
    BY <1>1, <2>1 DEF Confirmed
  <2>3. r.draft \in Payload /\ Shows(r, r.draft)
    BY <1>1, <2>1, <2>2, FineAsks
  <2>4. r.kind \in Grading => r.draft.reported
    BY <1>1, <2>1, <2>2 DEF Fine, Graded
  <2>5. Goes(a, Repaired(r, r.draft))
    BY <1>1, <2>2, <2>3, <2>4, RepairedGoes
  <2> QED
    BY <1>1, <1>3, <2>5 DEF Moves, Goes
<1> QED
  BY <1>2, <1>3

\* A request that reads again has in hand what is stored now.
LEMMA RereadMoves ==
    ASSUME Typed, RowsAreSound, NEW a \in Attempts, Proper(a), Reread(a)
    PROVE  Moves(a)
<1> DEFINE r == req[a]
           p == IF Stored(rows[r.session]) THEN rows[r.session].payload ELSE r.draft
<1>1. r.pc = "reread" /\ r \in Requests /\ Fine(a, r) /\ Go(a, Repaired(r, p))
  BY DEF Reread, Proper
<1>2. r.draft # None /\ Confirmed(r)
  BY <1>1 DEF Fine, Shaped, Confirmed
<1>3. r.draft \in Payload /\ Shows(r, r.draft) /\ Asks(r)
  BY <1>1, <1>2, FineAsks
<1>4. r.kind \in Grading => r.draft.reported
  BY <1>1, <1>2 DEF Fine, Graded
<1>5. CASE Stored(rows[r.session])
  <2>1. p = rows[r.session].payload /\ r.session \in Sessions
    BY <1>3, <1>5 DEF Asks
  <2>2. p \in Payload /\ Shows(r, p)
    BY <1>5, <2>1, StoredShows
  <2>3. r.kind \in Grading => p.reported
    BY <1>3, <1>4, <1>5, <2>1 DEF Shows, Extends
  <2>4. Goes(a, Repaired(r, p))
    BY <1>1, <1>5, <2>1, <2>2, <2>3, RepairedGoes
  <2> QED
    BY <1>1, <2>4 DEF Moves, Goes
<1>6. CASE ~ Stored(rows[r.session])
  <2>1. p = r.draft
    BY <1>6
  <2>2. Goes(a, Repaired(r, p))
    BY <1>1, <1>2, <1>3, <1>4, <2>1, RepairedGoes
  <2> QED
    BY <1>1, <2>2 DEF Moves, Goes
<1> QED
  BY <1>5, <1>6

\* A request at work takes its aggregate a step further, for its next write.
LEMMA FurtherGoes ==
    ASSUME Typed, NEW a \in Attempts, Proper(a), req[a].pc \in Working, NEW n \in Requests,
           SameRequest(req[a], n), n.phase = req[a].phase, n.since <= now,
           n.pc \in {"checkpoint", "complete"}, Graded(n),
           Sound(req[a].session, n.draft), Extends(req[a].draft, n.draft),
           Request(n.draft) = Request(req[a].draft)
    PROVE  Goes(a, n)
<1> DEFINE r == req[a]
           p == rows[r.session].payload
<1>1. r \in Requests /\ AtWork(a, r) /\ r.draft \in Payload
  BY FineIsAtWork DEF Proper
<1>2. n.draft \in Payload /\ n.draft # None
  BY NoneAssumption DEF Sound
<1>3. r.session \in Sessions /\ n.session = r.session /\ Asks(n) /\ Token(a, n) = Token(a, r)
  BY <1>1 DEF AtWork, Asks, SameRequest, Token
<1>4. Carries(n, n.draft)
  BY <1>1, <1>3 DEF AtWork, Carries
<1>5. Owns(a, n, n.draft)
  <2> SUFFICES ASSUME Stored(rows[r.session]), rows[r.session].token = Token(a, r)
               PROVE  Extends(p, n.draft)
    BY <1>3 DEF Owns
  <2>1. Extends(p, r.draft) /\ p \in Payload
    BY <1>1, <1>3 DEF AtWork, Owns, Typed
  <2> QED
    BY <1>1, <1>2, <2>1, ExtendsAddsUp
<1>6. AtWork(a, n)
  BY <1>2, <1>3, <1>4, <1>5 DEF AtWork, Working
<1>7. SaysFor(r, n)
  BY <1>1, <1>3 DEF SaysFor, Confirmed, Request, AtWork
<1> QED
  BY <1>6, <1>7, WorkGoes

\* A request at work goes on with what it has read or written.
LEMMA SameGoes ==
    ASSUME Typed, NEW a \in Attempts, Proper(a), req[a].pc \in Working \ {"checkpoint", "complete"},
           NEW n \in Requests, SameRequest(req[a], n), n.phase = req[a].phase, n.since <= now,
           n.pc \in Working, Graded(n), n.draft = req[a].draft,
           n.pc \in {"exact", "provider", "learn"} => n.phase = "main" /\ n.kind \in Grading
    PROVE  Goes(a, n)
<1> DEFINE r == req[a]
<1>1. r \in Requests /\ AtWork(a, r) /\ r.draft \in Payload
  BY FineIsAtWork DEF Proper
<1>2. n.session = r.session /\ Asks(n) /\ Token(a, n) = Token(a, r)
  BY <1>1 DEF AtWork, Asks, SameRequest, Token
<1>3. Carries(n, n.draft) /\ Owns(a, n, n.draft) /\ Shows(n, n.draft)
  BY <1>1, <1>2 DEF AtWork, Carries, Owns, Shows
<1>4. AtWork(a, n)
  BY <1>1, <1>2, <1>3 DEF AtWork
<1>5. Confirmed(r) /\ r.draft # None
  BY <1>1 DEF AtWork, Confirmed, Working
<1>6. SaysFor(r, n)
  BY <1>2, <1>5 DEF SaysFor
<1> QED
  BY <1>4, <1>6, WorkGoes

\* Once there is a grade, the rest is in order: memory, stage, report, write.
LEMMA GradedWork ==
    ASSUME NEW r \in Requests, r.phase \in {"main", "path"}, r.phase = "main" => r.kind \in Grading,
           NEW p, p.reported, Completed(p),
           NEW n, n.draft = p, SameRequest(r, n), n.phase = r.phase, n.pc = AfterGrading(r, p)
    PROVE  /\ n.pc \in {"memory", "stage", "learn", "complete"} /\ Graded(n)
           /\ n.pc = "learn" => n.phase = "main" /\ n.kind \in Grading
<1>1. CASE r.phase = "path"
  <2>1. n.pc = "complete"
    BY <1>1 DEF AfterGrading
  <2> QED
    BY <1>1, <2>1 DEF Graded
<1>2. CASE r.phase = "main" /\ ~ p.profile
  <2>1. n.pc = "memory"
    BY <1>2 DEF AfterGrading
  <2> QED
    BY <1>2, <2>1 DEF Graded, SameRequest
<1>3. CASE r.phase = "main" /\ p.profile /\ p.stage # 0 /\ ~ p.progress
  <2>1. n.pc = "stage"
    BY <1>3 DEF AfterGrading
  <2> QED
    BY <1>3, <2>1 DEF Graded, SameRequest
<1>4. CASE r.phase = "main" /\ p.profile /\ ~ (p.stage # 0 /\ ~ p.progress)
  <2>1. n.pc \in {"learn", "complete"}
    BY <1>4 DEF AfterGrading
  <2> QED
    BY <1>4, <2>1 DEF Graded, SameRequest
<1> QED
  BY <1>1, <1>2, <1>3, <1>4

\* Grading without the provider adds to the draft of the claim.
LEMMA GradeExactMoves ==
    ASSUME Typed, NEW a \in Attempts, Proper(a), GradeExact(a)
    PROVE  Moves(a)
<1> DEFINE r == req[a]
           p == r.draft
           graded == [p EXCEPT !.grades = ExactGrades(p)]
<1>1. r.pc = "exact" /\ r \in Requests /\ Fine(a, r)
  BY DEF GradeExact, Proper
<1>2. r.pc \in Working
  BY <1>1 DEF Working
<1>3. AtWork(a, r) /\ p \in Payload /\ Sound(r.session, p)
  BY <1>1, <1>2, FineIsAtWork
<1>4. r.phase = "main" /\ r.kind \in Grading /\ Completed(p)
  BY <1>1, <1>3 DEF AtWork, Graded
<1>5. CASE p.reported /\ Go(a, At(r, AfterGrading(r, p)))
  <2> DEFINE where == AfterGrading(r, p)
             n == At(r, where)
  <2>1. where \in Places
    BY DEF AfterGrading, Places, Calls
  <2>2. /\ n \in Requests /\ n.pc = where /\ SameRequest(r, n) /\ n.phase = r.phase
        /\ n.draft = r.draft /\ n.since <= now
    BY <1>1, <2>1, AtFields
  <2> HIDE DEF n
  <2>3. /\ n.pc \in {"memory", "stage", "learn", "complete"} /\ Graded(n)
        /\ n.pc = "learn" => n.phase = "main" /\ n.kind \in Grading
    BY <1>1, <1>4, <1>5, <2>2, GradedWork
  <2>4. Goes(a, n)
    BY <1>1, <1>2, <2>2, <2>3, SameGoes DEF Working
  <2> QED
    BY <1>5, <2>2, <2>4 DEF Moves, n
<1>6. CASE ~ p.reported /\ Go(a, At([r EXCEPT !.draft = graded, !.after = "provider"], "checkpoint"))
  <2> DEFINE n == At([r EXCEPT !.draft = graded, !.after = "provider"], "checkpoint")
  <2>1. /\ ExactGrades(p) \in [Questions -> Grades]
        /\ \A q \in Questions : p.grades[q] # None => ExactGrades(p)[q] = p.grades[q]
    BY <1>3, ExactGradesAreGrades
  <2>2. /\ Sound(r.session, graded) /\ Extends(p, graded) /\ Request(graded) = Request(p)
        /\ Completed(graded)
    BY <1>3, <1>4, <1>6, <2>1, GradedAggregates
  <2> HIDE DEF graded
  <2>3. graded \in Payload /\ "provider" \in Afters /\ "checkpoint" \in Places /\ r.phase \in Phases
    BY <1>1, <2>2 DEF Sound, Afters, Places, Calls, Requests
  <2>4. n = At(Carry(r, r.phase, graded, "provider"), "checkpoint")
    <3>1. [r EXCEPT !.draft = graded, !.after = "provider"] = Carry(r, r.phase, graded, "provider")
      BY <1>1 DEF Requests, Carry
    <3> QED
      BY <3>1
  <2>5. /\ n \in Requests /\ n.pc = "checkpoint" /\ SameRequest(r, n) /\ n.since <= now
        /\ n.phase = r.phase /\ n.draft = graded /\ n.after = "provider"
    BY <1>1, <2>3, <2>4, GoesWith
  <2> HIDE DEF n
  <2>6. Graded(n)
    BY <1>4, <2>2, <2>5 DEF Graded, SameRequest, Confirmed
  <2>7. Goes(a, n)
    BY <1>2, <2>2, <2>5, <2>6, FurtherGoes
  <2> QED
    BY <1>6, <2>5, <2>7 DEF Moves, n
<1>7. CASE Go(a, At(r, "provider"))
  <2> DEFINE n == At(r, "provider")
  <2>1. "provider" \in Places
    BY DEF Places
  <2>2. /\ n \in Requests /\ n.pc = "provider" /\ SameRequest(r, n) /\ n.phase = r.phase
        /\ n.draft = r.draft /\ n.since <= now
    BY <1>1, <2>1, AtFields
  <2> HIDE DEF n
  <2>3. Graded(n)
    BY <1>4, <2>2 DEF Graded
  <2>4. Goes(a, n)
    BY <1>1, <1>2, <1>4, <2>2, <2>3, SameGoes DEF Working, SameRequest
  <2> QED
    BY <1>7, <2>2, <2>4 DEF Moves, n
<1> QED
  BY <1>5, <1>6, <1>7 DEF GradeExact

\* Grading by the provider adds to the draft of the claim.
LEMMA GradeByProviderMoves ==
    ASSUME Typed, NEW a \in Attempts, Proper(a), GradeByProvider(a)
    PROVE  Moves(a)
<1> DEFINE r == req[a]
           p == r.draft
<1>1. r.pc = "provider" /\ r \in Requests /\ Fine(a, r)
  BY DEF GradeByProvider, Proper
<1>2. r.pc \in Working
  BY <1>1 DEF Working
<1>3. AtWork(a, r) /\ p \in Payload /\ Sound(r.session, p)
  BY <1>1, <1>2, FineIsAtWork
<1>4. r.phase = "main" /\ r.kind \in Grading /\ Completed(p)
  BY <1>1, <1>3 DEF AtWork, Graded
<1>5. "checkpoint" \in Places /\ r.phase \in Phases
  BY <1>1 DEF Places, Calls, Requests
<1>6. ASSUME NEW w, NEW after \in {"provider", "failed", "graded"},
             Go(a, At([r EXCEPT !.draft = w, !.after = after], "checkpoint")),
             Sound(r.session, w), Extends(p, w), Request(w) = Request(p), Completed(w),
             after = "graded" => w.reported
      PROVE  Moves(a)
  <2> DEFINE n == At([r EXCEPT !.draft = w, !.after = after], "checkpoint")
  <2>1. w \in Payload /\ after \in Afters
    BY <1>6 DEF Sound, Afters
  <2>2. n = At(Carry(r, r.phase, w, after), "checkpoint")
    <3>1. [r EXCEPT !.draft = w, !.after = after] = Carry(r, r.phase, w, after)
      BY <1>1 DEF Requests, Carry
    <3> QED
      BY <3>1
  <2>3. /\ n \in Requests /\ n.pc = "checkpoint" /\ SameRequest(r, n) /\ n.since <= now
        /\ n.phase = r.phase /\ n.draft = w /\ n.after = after
    BY <1>1, <1>5, <2>1, <2>2, GoesWith
  <2> HIDE DEF n
  <2>4. Graded(n)
    BY <1>4, <1>6, <2>3 DEF Graded, SameRequest, Confirmed
  <2>5. Goes(a, n)
    BY <1>2, <1>6, <2>3, <2>4, FurtherGoes
  <2> QED
    BY <1>6, <2>3, <2>5 DEF Moves, n
<1>7. CASE /\ Missing(p) = {}
           /\ Go(a, At([r EXCEPT !.draft.reported = TRUE, !.after = "graded"], "checkpoint"))
  <2> DEFINE w == [p EXCEPT !.reported = TRUE]
  <2>1. /\ Sound(r.session, w) /\ Extends(p, w) /\ Request(w) = Request(p) /\ w.reported
    BY <1>3, <1>4, <1>7, ReportedAggregates
  <2>2. [r EXCEPT !.draft.reported = TRUE, !.after = "graded"] = [r EXCEPT !.draft = w, !.after = "graded"]
    OBVIOUS
  <2> HIDE DEF w
  <2>3. Completed(w)
    BY <2>1 DEF Sound, Valid
  <2> QED
    BY <1>6, <1>7, <2>1, <2>2, <2>3
<1>8. ASSUME NEW graded \in SUBSET Missing(p),
             NEW after \in {"provider", "failed"},
             Go(a, At([r EXCEPT !.draft.grades =
                             [q \in Questions |-> IF q \in graded THEN a ELSE @[q]],
                                !.after = after], "checkpoint"))
      PROVE  Moves(a)
  <2>1. CASE p.reported
    <3> DEFINE grades == [q \in Questions |-> IF q \in graded THEN a ELSE p.grades[q]]
               w == [p EXCEPT !.grades = grades]
    <3>1. graded = {} /\ p.grades \in [Questions -> Grades]
      BY <1>3, <1>8, <2>1 DEF Sound, Valid, Payload
    <3>2. grades = p.grades
      BY <3>1
    <3>3. w = p
      BY <1>3, <3>2 DEF Payload
    <3>4. [r EXCEPT !.draft.grades = [q \in Questions |-> IF q \in graded THEN a ELSE @[q]],
                    !.after = after]
             = [r EXCEPT !.draft = w, !.after = after]
      OBVIOUS
    <3> HIDE DEF w
    <3>5. Extends(p, p)
      BY <1>3, ExtendsItself
    <3> QED
      BY <1>3, <1>4, <1>6, <1>8, <3>3, <3>4, <3>5
  <2>2. CASE ~ p.reported
    <3> DEFINE grades == [q \in Questions |-> IF q \in graded THEN a ELSE p.grades[q]]
               w == [p EXCEPT !.grades = grades]
    <3>1. grades \in [Questions -> Grades]
      BY <1>3 DEF Payload, Grades
    <3>2. \A q \in Questions : p.grades[q] # None => grades[q] = p.grades[q]
      BY <1>8 DEF Missing
    <3> HIDE DEF grades
    <3>3. Sound(r.session, w) /\ Extends(p, w) /\ Request(w) = Request(p) /\ Completed(w)
      BY <1>3, <1>4, <2>2, <3>1, <3>2, GradedAggregates
    <3>4. [r EXCEPT !.draft.grades = [q \in Questions |-> IF q \in graded THEN a ELSE @[q]],
                    !.after = after]
             = [r EXCEPT !.draft = w, !.after = after]
      BY DEF grades
    <3> HIDE DEF w
    <3> QED
      BY <1>6, <1>8, <3>3, <3>4
  <2> QED
    BY <2>1, <2>2
<1>9. CASE \E graded \in SUBSET Missing(p) \ {{}} :
               Go(a, At([r EXCEPT !.draft.grades =
                             [q \in Questions |-> IF q \in graded THEN a ELSE @[q]],
                                  !.after = IF graded = Missing(p) THEN "provider" ELSE "failed"],
                        "checkpoint"))
  BY <1>8, <1>9
<1> QED
  BY <1>7, <1>9 DEF GradeByProvider

\* The report completes the draft of the claim.
LEMMA WriteReportMoves ==
    ASSUME Typed, NEW a \in Attempts, Proper(a), WriteReport(a)
    PROVE  Moves(a)
<1> DEFINE r == req[a]
           p == r.draft
           w == [p EXCEPT !.learned = IF @ = None THEN a ELSE @]
<1>1. /\ r.pc = "learn" /\ r \in Requests /\ Fine(a, r)
      /\ Go(a, At([r EXCEPT !.draft.learned = IF @ = None THEN a ELSE @], "complete"))
  BY DEF WriteReport, Proper
<1>2. r.pc \in Working
  BY <1>1 DEF Working
<1>3. AtWork(a, r) /\ p \in Payload /\ Sound(r.session, p)
  BY <1>1, <1>2, FineIsAtWork
<1>4. r.phase = "main" /\ r.kind \in Grading /\ p.reported
  BY <1>1, <1>3 DEF AtWork, Graded, Confirmed
<1>5. Sound(r.session, w) /\ Extends(p, w) /\ Request(w) = Request(p) /\ w.reported
  BY <1>3, <1>4, LearnedAggregates
<1>6. [r EXCEPT !.draft.learned = IF @ = None THEN a ELSE @] = [r EXCEPT !.draft = w]
  OBVIOUS
<1> HIDE DEF w
<1> DEFINE n == At([r EXCEPT !.draft = w], "complete")
<1>7. w \in Payload /\ r.after \in Afters /\ "complete" \in Places /\ r.phase \in Phases
  BY <1>1, <1>5 DEF Sound, Places, Calls, Requests
<1>8. n = At(Carry(r, r.phase, w, r.after), "complete")
  BY <1>1, CarryForms
<1>9. /\ n \in Requests /\ n.pc = "complete" /\ SameRequest(r, n) /\ n.since <= now
      /\ n.phase = r.phase /\ n.draft = w
  BY <1>1, <1>7, <1>8, GoesWith
<1>10. Go(a, n)
  BY <1>1, <1>6
<1> HIDE DEF n
<1>11. Graded(n)
  BY <1>5, <1>9 DEF Graded
<1>12. Goes(a, n)
  BY <1>2, <1>5, <1>9, <1>11, FurtherGoes
<1> QED
  BY <1>9, <1>10, <1>12 DEF Moves

\* A provider that fails leaves the draft of the claim as it was.
LEMMA ProviderFailsMoves ==
    ASSUME Typed, NEW a \in Attempts, Proper(a), ProviderFails(a)
    PROVE  Moves(a)
<1>1. req[a].pc \in Working /\ Go(a, Ending(req[a], "failed"))
  BY DEF ProviderFails, Working
<1>2. Goes(a, Ending(req[a], "failed"))
  BY <1>1, EndingGoes
<1> QED
  BY <1>1, <1>2 DEF Moves, Goes

\* What a thread left behind knows, once its request has gone on as n.
LeftBy(l, n) ==
    CASE l.pc \in {"claim", "release"} -> n.pc = "over"
      [] l.pc = "create" -> n.pc \in {"over", "refind"}
      [] OTHER -> /\ l.pc \in {"checkpoint", "complete", "memory", "stage"}
                  /\ \/ n.pc = "over"
                     \/ /\ n.pc = "release" /\ n.after = "failed"
                        /\ n.session = l.session /\ n.phase = l.phase

Behind(a, n, l) ==
    /\ l \in Requests \cup {None}
    /\ l # None => Fine(a, l) /\ LeftBy(l, n) /\ (l = late[a] \/ SaysFor(req[a], l))

\* A request goes on, with what it leaves behind.
Leaves(a) ==
    \E n \in Requests, l \in Requests \cup {None} :
        Go(a, n) /\ late' = [late EXCEPT ![a] = l] /\ Goes(a, n) /\ Behind(a, n, l)

\* A request that has something left to do has left no thread behind.
LEMMA MovesLeaves ==
    ASSUME Typed, NEW a \in Attempts, Proper(a), Moves(a), UNCHANGED late,
           req[a].pc \in {"over", "release", "refind"} => req'[a].pc = "over"
    PROVE  Leaves(a)
<1>1. PICK n \in Requests : Go(a, n) /\ Goes(a, n)
  BY DEF Moves
<1> DEFINE l == late[a]
<1>2. late' = [late EXCEPT ![a] = l] /\ l \in Requests \cup {None} /\ req'[a] = n
  BY <1>1 DEF Typed, Go
<1>3. l # None => Fine(a, l) /\ LeftBy(l, n)
  BY <1>2 DEF Proper, Left, LeftBy
<1> QED
  BY <1>1, <1>2, <1>3 DEF Leaves, Behind

\* The thread keeps the request as it was, at an instant of its own.
LEMMA SinceIsFine ==
    ASSUME Typed, NEW a \in Attempts, Proper(a), req[a].pc # "idle", NEW t \in Instants(req[a]), NEW l,
           l = [req[a] EXCEPT !.since = t]
    PROVE  /\ l \in Requests /\ l # None /\ l.pc = req[a].pc /\ SameRequest(req[a], l)
           /\ l.phase = req[a].phase /\ Fine(a, l) /\ SaysFor(req[a], l)
<1> DEFINE r == req[a]
<1>1. r \in Requests /\ Fine(a, r)
  BY DEF Proper
<1>2. t \in Nat /\ t <= now
  BY <1>1 DEF Instants, Requests, Typed
<1>3. /\ l \in Requests /\ l.pc = r.pc /\ SameRequest(r, l) /\ l.phase = r.phase
      /\ l.after = r.after /\ l.draft = r.draft /\ l.since = t
  BY <1>1, <1>2 DEF Requests, SameRequest
<1>4. Shaped(l)
  BY <1>1, <1>2, <1>3 DEF Fine, Shaped, SameRequest
<1>5. Graded(l)
  BY <1>1, <1>3 DEF Fine, Graded, Confirmed, SameRequest
<1>6. InHand(a, l)
  BY <1>1, <1>3 DEF Fine, InHand, Confirmed, SameRequest, Token
<1>7. SaysFor(r, l)
  BY <1>3 DEF SaysFor, Confirmed, SameRequest
<1> QED
  BY <1>3, <1>4, <1>5, <1>6, <1>7, RequestsAssumption DEF Fine

\* A request that is cancelled lets go of its claim or has none.
LEMMA InterruptedLeaves ==
    ASSUME Typed, NEW a \in Attempts, Proper(a), Interrupted(a)
    PROVE  Leaves(a)
<1> DEFINE r == req[a]
           n == Ending(r, "failed")
<1>1. /\ r.pc \in {"checkpoint", "complete", "memory", "stage"} /\ r.pc \in Working
      /\ MayOutlive(a, r) /\ Go(a, n) /\ r \in Requests
  BY DEF Interrupted, Working, Proper
<1>2. Goes(a, n)
  BY <1>1, EndingGoes
<1>3. /\ n \in Requests /\ n.pc = "release" /\ SameRequest(r, n) /\ n.since <= now
      /\ n.phase = r.phase /\ n.draft = r.draft /\ n.after = "failed"
  BY <1>1, EndingFields DEF Afters
<1> HIDE DEF n
<1>4. CASE UNCHANGED late
  <2>1. late[a] = None
    BY <1>1 DEF Proper, Left
  <2>2. late' = [late EXCEPT ![a] = None]
    BY <1>4, <2>1 DEF Typed
  <2> QED
    BY <1>1, <1>2, <1>3, <2>2 DEF Leaves, Behind
<1>5. ASSUME NEW t \in Instants(r), late' = [late EXCEPT ![a] = [r EXCEPT !.since = t]]
      PROVE  Leaves(a)
  <2> DEFINE l == [r EXCEPT !.since = t]
  <2>1. /\ l \in Requests /\ l # None /\ l.pc = r.pc /\ SameRequest(r, l)
        /\ l.phase = r.phase /\ Fine(a, l) /\ SaysFor(r, l)
    BY <1>1, SinceIsFine
  <2>2. late' = [late EXCEPT ![a] = l]
    BY <1>5
  <2> HIDE DEF l
  <2>3. LeftBy(l, n)
    BY <1>1, <1>3, <2>1 DEF LeftBy, SameRequest
  <2> QED
    BY <1>1, <1>2, <1>3, <2>1, <2>2, <2>3 DEF Leaves, Behind
<1> QED
  BY <1>1, <1>4, <1>5 DEF MayOutlive

\* A call that is cancelled may leave its thread behind, as it was.
LEMMA CallInterruptedLeaves ==
    ASSUME Typed, NEW a \in Attempts, Proper(a), CallInterrupted(a)
    PROVE  Leaves(a)
<1> DEFINE r == req[a]
<1>1. r.pc \in {"claim", "create"} /\ MayOutlive(a, r) /\ r \in Requests
  BY DEF CallInterrupted, Proper
<1>2. PICK n \in Requests : /\ Go(a, n) /\ Goes(a, n)
                            /\ n.pc = "over" \/ (r.pc = "create" /\ n.pc = "refind")
  <2>1. CASE Go(a, Gone)
    BY <2>1, GoneGoes, GoneFields
  <2>2. CASE r.pc = "create" /\ Go(a, At(r, "refind"))
    <3>1. r.kind = "start" /\ r.draft = None
      BY <2>2, StartPlaces
    <3>2. Moves(a)
      BY <2>2, <3>1, StartMoves
    <3>3. "refind" \in Places
      BY DEF Places, Calls
    <3>4. At(r, "refind").pc = "refind"
      BY <1>1, <3>3, AtFields
    <3>5. PICK n \in Requests : Go(a, n) /\ Goes(a, n)
      BY <3>2 DEF Moves
    <3>6. n = At(r, "refind")
      BY <2>2, <3>5 DEF Go, Typed
    <3> QED
      BY <2>2, <3>4, <3>5, <3>6
  <2> QED
    BY <2>1, <2>2 DEF CallInterrupted
<1>3. CASE UNCHANGED late
  <2>1. late[a] = None
    BY <1>1 DEF Proper, Left
  <2>2. late' = [late EXCEPT ![a] = None]
    BY <1>3, <2>1 DEF Typed
  <2> QED
    BY <1>2, <2>2 DEF Leaves, Behind
<1>4. ASSUME NEW t \in Instants(r), late' = [late EXCEPT ![a] = [r EXCEPT !.since = t]]
      PROVE  Leaves(a)
  <2> DEFINE l == [r EXCEPT !.since = t]
  <2>1. /\ l \in Requests /\ l # None /\ l.pc = r.pc /\ SameRequest(r, l)
        /\ l.phase = r.phase /\ Fine(a, l) /\ SaysFor(r, l)
    BY <1>1, SinceIsFine
  <2>2. late' = [late EXCEPT ![a] = l]
    BY <1>4
  <2> HIDE DEF l
  <2>3. LeftBy(l, n)
    BY <1>1, <1>2, <2>1 DEF LeftBy
  <2> QED
    BY <1>2, <2>1, <2>2, <2>3 DEF Leaves, Behind
<1> QED
  BY <1>1, <1>3, <1>4 DEF MayOutlive

\* A process that dies leaves nothing in hand.
LEMMA DieLeaves ==
    ASSUME Typed, NEW a \in Attempts, Proper(a), Die(a)
    PROVE  Leaves(a)
<1> DEFINE r == req[a]
<1>1. late' = [late EXCEPT ![a] = None] /\ r \in Requests /\ Fine(a, r) /\ Found(r)
  BY DEF Die, Proper
<1>2. CASE Go(a, Gone)
  BY <1>1, <1>2, GoneGoes, GoneFields DEF Leaves, Behind
<1>3. CASE r.pc \in {"idle", "over"} /\ Go(a, r)
  <2>1. StaysAt(r, r) /\ SaysFor(r, r)
    BY <1>3 DEF StaysAt, SaysFor, Working
  <2>2. Goes(a, r)
    BY <1>1, <2>1 DEF Goes
  <2> QED
    BY <1>1, <1>3, <2>2 DEF Leaves, Behind
<1> QED
  BY <1>2, <1>3 DEF Die

-----------------------------------------------------------------------------
(***************************************************************************)
(* What every step does to the requests                                    *)
(***************************************************************************)
\* What the next state has at b is r.
LEMMA FineNow ==
    \A b, r : /\ req[b] = r /\ Fine(b, r) => Fine(b, req[b])
              /\ late[b] = r /\ Fine(b, r) => Fine(b, late[b])
OBVIOUS

\* Who has the same in hand is as fine after a step.
LEMMA FineThen ==
    (\A b, r : /\ req[b] = r /\ Fine(b, r) => Fine(b, req[b])
               /\ late[b] = r /\ Fine(b, r) => Fine(b, late[b]))'
BY FineNow, PTL

\* A request that does not move, and whose claim is respected, stays proper.
LEMMA OthersStayProper ==
    ASSUME Typed, Typed', Onward, NEW b \in Attempts, Proper(b), Fenced(b),
           req'[b] = req[b], late'[b] = late[b]
    PROVE  Proper(b)'
<1>1. req[b] \in Requests /\ Fine(b, req[b])
  BY DEF Proper
<1>2. Fine(b, req[b])'
  <2> DEFINE r == req[b]
  <2>1. r \in Requests /\ Fine(b, r) /\ req'[b] = r
    BY <1>1
  <2> HIDE DEF r
  <2> QED
    BY <2>1, FineStays, FineThen
<1>3. late[b] # None => Fine(b, late[b])'
  <2> SUFFICES ASSUME NEW r, r = late[b], r # None PROVE Fine(b, late[b])'
    OBVIOUS
  <2>1. r \in Requests /\ Fine(b, r) /\ late'[b] = r
    BY DEF Proper
  <2> QED
    BY <2>1, FineStays, FineThen
<1>4. Left(b) => Left(b)'
  BY DEF Left
<1>5. TokensOf(b)'
  BY <1>1 DEF Proper, TokensOf, Fenced, Claims
<1>6. Found(req[b])'
  <2>1. Found(req[b])
    BY DEF Proper
  <2> QED
    BY <2>1, RequestStays DEF Found, Onward, Grows
<1> QED
  BY <1>1, <1>2, <1>3, <1>4, <1>5, <1>6 DEF Proper

-----------------------------------------------------------------------------
(***************************************************************************)
(* Steps that change no stored aggregate                                   *)
(***************************************************************************)
\* The types of what is stored.
StoresTyped ==
    /\ now \in 1..MaxTime /\ maxCount \in Nat
    /\ rows \in [Sessions -> Row]
    /\ path \in Seq([quiz : Sessions, report : [Questions -> Grades]])
    /\ memory \in [Sessions -> SUBSET ([Questions -> Grades] \cup {Plain})]

RequestsTyped == req \in [Attempts -> Requests] /\ late \in [Attempts -> Requests \cup {None}]

\* No two sessions were started under one key.
KeysApart ==
    \A s, t \in Sessions :
        /\ Stored(rows[s]) /\ Stored(rows[t])
        /\ rows[s].key # None /\ rows[s].key = rows[t].key
        => s = t

\* What the invariant says of the stores.
StoresAreSound ==
    /\ StoresTyped /\ RowsAreSound /\ KeysApart /\ StagesAreRemembered
    /\ Cardinality(StoredSessions) <= maxCount

\* The invariant, by what it says of the stores, of each request, and of both.
LEMMA InvParts ==
    IInv <=> /\ StoresAreSound /\ RequestsTyped /\ OneVerdict
             /\ \A a \in Attempts : Proper(a)
<1>1. ASSUME IInv
      PROVE  /\ StoresAreSound /\ RequestsTyped /\ OneVerdict
             /\ \A a \in Attempts : Proper(a)
  <2>1. \A a \in Attempts : Proper(a)
    BY <1>1, InvProper DEF IInv
  <2>2. StoresAreSound
    BY <1>1 DEF IInv, TypeOK, StoresAreSound, StoresTyped, KeysAreOfOne, KeysApart
  <2> QED
    BY <1>1, <2>1, <2>2 DEF IInv, TypeOK, RequestsTyped
<1>2. ASSUME StoresAreSound, RequestsTyped, OneVerdict, \A a \in Attempts : Proper(a)
      PROVE  IInv
  <2>1. TypeOK
    <3>1. \A s \in Sessions : Stored(rows[s]) => Valid(rows[s].payload)
      BY <1>2 DEF StoresAreSound, RowsAreSound, Sound
    <3> QED
      BY <1>2, <3>1 DEF TypeOK, StoresAreSound, StoresTyped, RequestsTyped
  <2>2. RequestsAreFine
    BY <1>2 DEF RequestsAreFine, Proper
  <2>3. TokensAreOfClaims
    BY <1>2 DEF TokensAreOfClaims, Proper, TokensOf, Claims
  <2>4. KeysAreOfOne
    BY <1>2 DEF KeysAreOfOne, KeysApart, StoresAreSound, Proper, Found
  <2> QED
    BY <1>2, <2>1, <2>2, <2>3, <2>4 DEF IInv, StoresAreSound
<1> QED
  BY <1>1, <1>2

\* The parts of the invariant, after a step.
LEMMA InvPartsThen ==
    (IInv <=> /\ StoresAreSound /\ RequestsTyped /\ OneVerdict
              /\ \A a \in Attempts : Proper(a))'
BY InvParts, PTL

\* The types that every step relies on.
LEMMA TypedParts == StoresTyped /\ RequestsTyped /\ RowsAreSound => Typed
<1> SUFFICES ASSUME StoresTyped, RequestsTyped, RowsAreSound PROVE Typed
  OBVIOUS
<1>1. now \in Nat /\ now >= 1
  BY BoundAssumption DEF StoresTyped
<1>2. Len(path) \in Nat
  BY DEF StoresTyped
<1>3. \A s \in Sessions : Stored(rows[s]) => rows[s].payload \in Payload
  BY DEF RowsAreSound, Sound
<1> QED
  BY <1>1, <1>2, <1>3 DEF StoresTyped, RequestsTyped, Typed

\* The parts of the types, after a step.
LEMMA TypedPartsThen == (StoresTyped /\ RequestsTyped /\ RowsAreSound => Typed)'
BY TypedParts, PTL

\* The completed stages, one entry after the other.
LEMMA PathEntries ==
    ASSUME StoresTyped
    PROVE  /\ DOMAIN path = 1..Len(path) /\ Len(path) \in Nat
           /\ \A n \in DOMAIN path :
                 path[n].quiz \in Sessions /\ path[n].report \in [Questions -> Grades]
<1> DEFINE E == [quiz : Sessions, report : [Questions -> Grades]]
<1>1. path \in Seq(E)
  BY DEF StoresTyped
<1> HIDE DEF E
<1>2. DOMAIN path = 1..Len(path) /\ Len(path) \in Nat /\ \A n \in DOMAIN path : path[n] \in E
  BY <1>1
<1> QED
  BY <1>2 DEF E

\* Claims come and go, and time passes; what is stored stays as it is.
SamePayloads ==
    /\ rows' \in [Sessions -> Row]
    /\ \A s \in Sessions : /\ rows'[s].there = rows[s].there /\ rows'[s].key = rows[s].key
                           /\ rows'[s].payload = rows[s].payload
    /\ now <= now' /\ now' \in 1..MaxTime
    /\ UNCHANGED <<maxCount, path, memory>>

\* Steps that leave every aggregate alone leave the stores sound.
LEMMA SameStores ==
    ASSUME StoresAreSound, SamePayloads
    PROVE  StoresAreSound'
<1>1. StoresTyped'
  BY DEF StoresAreSound, StoresTyped, SamePayloads
<1>2. \A s \in Sessions : Stored(rows'[s]) <=> Stored(rows[s])
  BY DEF SamePayloads, Stored
<1>3. RowsAreSound'
  <2>1. \A s, p : Sound(s, p)' <=> Sound(s, p)
    BY DEF Sound, SamePayloads
  <2> QED
    BY <1>2, <2>1 DEF StoresAreSound, RowsAreSound, SamePayloads
<1>4. KeysApart'
  BY <1>2 DEF StoresAreSound, KeysApart, SamePayloads
<1>5. StagesAreRemembered'
  <2>1. \A n \in DOMAIN path : path[n].quiz \in Sessions
    BY PathEntries DEF StoresAreSound
  <2> QED
    BY <1>2, <2>1 DEF StoresAreSound, StagesAreRemembered, SamePayloads
<1>6. StoredSessions' = StoredSessions
  BY <1>2 DEF StoredSessions
<1> QED
  BY <1>1, <1>3, <1>4, <1>5, <1>6 DEF StoresAreSound, SamePayloads

\* Such a step takes nothing back.
LEMMA SameIsOnward ==
    ASSUME Typed, SamePayloads
    PROVE  Onward
<1>1. \A s \in Sessions : Grows(rows[s], rows'[s])
  BY ExtendsItself DEF Typed, SamePayloads, Grows, Stored
<1> QED
  BY <1>1 DEF SamePayloads, Onward

\* The verdicts stay what they are, if requests agree with them.
LEMMA SameSays ==
    ASSUME StoresTyped, SamePayloads, NEW verdicts, AllSay(verdicts),
           \A b \in Attempts :
               Says(verdicts, req'[b]) /\ (late'[b] # None => Says(verdicts, late'[b]))
    PROVE  AllSay(verdicts)'
<1>1. \A s \in Sessions : Stored(rows'[s]) <=> Stored(rows[s])
  BY DEF SamePayloads, Stored
<1>2. \A s \in Sessions :
          /\ Stored(rows'[s]) =>
                /\ rows'[s].payload.stage = verdicts[s].stage
                /\ rows'[s].payload.reported => rows'[s].payload.grades = verdicts[s].grades
          /\ memory'[s] \subseteq {verdicts[s].grades, Plain}
          /\ Plain \in memory'[s] => verdicts[s].stage = 0
  BY <1>1 DEF AllSay, SamePayloads
<1>3. \A n \in DOMAIN path' : verdicts[path'[n].quiz] = [stage |-> n, grades |-> path'[n].report]
  BY DEF AllSay, SamePayloads
<1> QED
  BY <1>2, <1>3 DEF AllSay

\* Only request a moves, and nobody's claim is taken.
OthersSame(a) ==
    \A b \in Attempts : b # a =>
        req'[b] = req[b] /\ late'[b] = late[b] /\ Fenced(b)

\* Request a says no more than is known already.
SaysNothingNew(a) ==
    \A verdicts \in Verdicts : AllSay(verdicts) =>
        Says(verdicts, req'[a]) /\ (late'[a] # None => Says(verdicts, late'[a]))

\* What such a step keeps of the types.
LEMMA SameTyped ==
    ASSUME IInv, SamePayloads, RequestsTyped'
    PROVE  Typed /\ Typed' /\ Onward /\ StoresAreSound' /\ \A b \in Attempts : Proper(b)
<1>1. /\ StoresAreSound /\ RequestsTyped /\ OneVerdict
      /\ \A a \in Attempts : Proper(a)
  BY InvParts
<1>2. StoresAreSound'
  BY <1>1, SameStores
<1>3. Typed
  BY <1>1, TypedParts DEF StoresAreSound
<1>4. StoresTyped' /\ RowsAreSound'
  BY <1>2 DEF StoresAreSound
<1>5. Typed'
  BY <1>4, TypedPartsThen
<1>6. Onward
  BY <1>3, SameIsOnward
<1> QED
  BY <1>1, <1>2, <1>3, <1>5, <1>6

\* A step of one request that leaves every aggregate alone keeps the invariant.
LEMMA SameStep ==
    ASSUME IInv, SamePayloads, RequestsTyped', NEW a \in Attempts, OthersSame(a), Proper(a)',
           SaysNothingNew(a)
    PROVE  IInv' /\ Onward
<1>1. Typed /\ Typed' /\ Onward /\ StoresAreSound' /\ \A b \in Attempts : Proper(b)
  BY SameTyped
<1>2. \A b \in Attempts : Proper(b)'
  BY <1>1, OthersStayProper DEF OthersSame
<1>3. StoresTyped /\ OneVerdict
  BY InvParts DEF StoresAreSound
<1>4. PICK verdicts \in Verdicts : AllSay(verdicts)
  BY <1>3 DEF OneVerdict
<1>5. \A b \in Attempts :
          Says(verdicts, req'[b]) /\ (late'[b] # None => Says(verdicts, late'[b]))
  BY <1>4 DEF OthersSame, SaysNothingNew, AllSay
<1>6. AllSay(verdicts)'
  BY <1>3, <1>4, <1>5, SameSays
<1>7. OneVerdict'
  BY <1>4, <1>6 DEF OneVerdict, Verdicts
<1> QED
  BY <1>1, <1>2, <1>7, InvPartsThen

\* Nothing but the requests changes.
Still == UNCHANGED <<now, maxCount, rows, path, memory>>

\* Stores that stand still keep every aggregate and every claim.
LEMMA StillIsSame ==
    ASSUME StoresTyped, Still
    PROVE  SamePayloads /\ \A b \in Attempts : Fenced(b)
BY BoundAssumption DEF Still, StoresTyped, SamePayloads, Fenced

\* Request a goes on as n, in the next state.
LEMMA NowProper ==
    ASSUME NEW a \in Attempts, RequestsTyped', NEW n, NEW l, req'[a] = n, late'[a] = l,
           Fine(a, n)', Found(n)',
           l # None => Fine(a, l)' /\ LeftBy(l, n),
           \A s \in Sessions, phase \in Phases :
               Stored(rows'[s]) /\ rows'[s].token = <<a, phase>> => Claims(n, s, phase)
    PROVE  Proper(a)'
<1>1. Fine(a, req[a])' /\ (l # None => Fine(a, late[a])')
  BY FineThen
<1>2. req'[a] \in Requests /\ late'[a] \in Requests \cup {None}
  BY DEF RequestsTyped
<1>3. Found(req[a])'
  BY DEF Found
<1>4. l # None => Left(a)'
  BY DEF Left, LeftBy
<1>5. TokensOf(a)'
  BY DEF TokensOf, Claims
<1> QED
  BY <1>1, <1>2, <1>3, <1>4, <1>5 DEF Proper

\* A request that leaves changes no store and breaks nothing.
LEMMA QuietStep ==
    ASSUME IInv, Still, NEW a \in Attempts, Leaves(a)
    PROVE  IInv' /\ Onward
<1>1. PICK n \in Requests, l \in Requests \cup {None} :
          Go(a, n) /\ late' = [late EXCEPT ![a] = l] /\ Goes(a, n) /\ Behind(a, n, l)
  BY DEF Leaves
<1>2. StoresTyped /\ RequestsTyped /\ Proper(a)
  BY InvParts DEF StoresAreSound
<1>3. /\ RequestsTyped' /\ req'[a] = n /\ late'[a] = l
      /\ \A b \in Attempts : b # a => req'[b] = req[b] /\ late'[b] = late[b]
  BY <1>1, <1>2 DEF Go, RequestsTyped
<1>4. SamePayloads /\ \A b \in Attempts : Fenced(b)
  BY <1>2, StillIsSame
<1>5. Typed /\ Typed' /\ Onward
  BY <1>3, <1>4, SameTyped
<1>6. OthersSame(a)
  BY <1>3, <1>4 DEF OthersSame
<1>7. Proper(a)'
  <2>1. Fine(a, n)' /\ (l # None => Fine(a, l)')
    BY <1>1, <1>4, <1>5, FineStays DEF Goes, Behind
  <2>2. Found(n)'
    BY <1>1 DEF Goes, Found, Still
  <2>3. l # None => LeftBy(l, n)
    BY <1>1 DEF Behind
  <2>4. ASSUME NEW s \in Sessions, NEW phase \in Phases,
               Stored(rows'[s]), rows'[s].token = <<a, phase>>
        PROVE  Claims(n, s, phase)
    <3>1. Claims(req[a], s, phase)
      BY <1>2, <2>4 DEF Proper, TokensOf, Still
    <3>2. StaysAt(req[a], n) /\ Fine(a, n)
      BY <1>1 DEF Goes
    <3> QED
      BY <3>1, <3>2 DEF Claims, StaysAt
  <2> QED
    BY <1>3, <2>1, <2>2, <2>3, <2>4, NowProper
<1>8. SaysNothingNew(a)
  <2> SUFFICES ASSUME NEW verdicts, AllSay(verdicts)
               PROVE  Says(verdicts, n) /\ (l # None => Says(verdicts, l))
    BY <1>3 DEF SaysNothingNew
  <2>1. Says(verdicts, req[a]) /\ (late[a] # None => Says(verdicts, late[a]))
    BY DEF AllSay
  <2>2. SaysFor(req[a], n) /\ (l # None => l = late[a] \/ SaysFor(req[a], l))
    BY <1>1 DEF Goes, Behind
  <2> QED
    BY <2>1, <2>2, SaysNoMore
<1> QED
  BY <1>3, <1>4, <1>6, <1>7, <1>8, SameStep

-----------------------------------------------------------------------------
(***************************************************************************)
(* Claims                                                                  *)
(***************************************************************************)
\* What a claim, and letting go of it, do to a row.
LEMMA ClaimedRows ==
    ASSUME NEW row \in Row, NEW token \in Tokens, NEW t \in Nat
    PROVE  /\ ClaimRow(row, token, t) \in Row
           /\ ClaimRow(row, token, t).there = row.there /\ ClaimRow(row, token, t).key = row.key
           /\ ClaimRow(row, token, t).payload = row.payload
           /\ ClaimRow(row, token, t).token \in {row.token, token}
           /\ ClaimAnswer(row, t) = "claimed" => Stored(row) /\ ClaimRow(row, token, t).token = token
<1>1. t + LeaseSeconds \in Nat
  BY LeaseAssumption
<1>2. ClaimRow(row, token, t) \in Row
  BY <1>1 DEF ClaimRow, Row
<1>3. /\ ClaimRow(row, token, t).there = row.there /\ ClaimRow(row, token, t).key = row.key
      /\ ClaimRow(row, token, t).payload = row.payload
      /\ ClaimRow(row, token, t).token \in {row.token, token}
      /\ ClaimAnswer(row, t) = "claimed" => ClaimRow(row, token, t).token = token
  BY DEF ClaimRow, Row
<1>4. ClaimAnswer(row, t) = "claimed" => Stored(row)
  BY DEF ClaimAnswer
<1> QED
  BY <1>2, <1>3, <1>4

\* A release leaves what is stored, and at most takes the token away.
LEMMA ReleasedRows ==
    ASSUME NEW row \in Row, NEW token
    PROVE  /\ ReleaseRow(row, token) \in Row
           /\ ReleaseRow(row, token).there = row.there /\ ReleaseRow(row, token).key = row.key
           /\ ReleaseRow(row, token).payload = row.payload
           /\ ReleaseRow(row, token).token \in {row.token, None}
           /\ Stored(row) => ReleaseRow(row, token).token # token \/ token = None
BY DEF ReleaseRow, Row

\* No token is None.
LEMMA TokensAreNotNone ==
    ASSUME NEW a \in Attempts, NEW phase \in Phases
    PROVE  <<a, phase>> \in Tokens /\ <<a, phase>> # None
BY NoneAssumption DEF Tokens

\* One row, of which the claim alone changes.
LEMMA LeaseIsSame ==
    ASSUME StoresTyped, NEW s \in Sessions, NEW new \in Row, rows' = [rows EXCEPT ![s] = new],
           new.there = rows[s].there, new.key = rows[s].key, new.payload = rows[s].payload,
           UNCHANGED <<now, maxCount, path, memory>>
    PROVE  SamePayloads
BY BoundAssumption DEF StoresTyped, SamePayloads

\* A token that changes to one's own or to none gives nobody else a claim.
LEMMA LeaseIsFenced ==
    ASSUME StoresTyped, NEW s \in Sessions, NEW new \in Row, rows' = [rows EXCEPT ![s] = new],
           new.there = rows[s].there, new.payload = rows[s].payload,
           NEW a \in Attempts, NEW claimed \in Phases,
           new.token \in {rows[s].token, None, <<a, claimed>>}
    PROVE  \A b \in Attempts : b # a => Fenced(b)
<1> SUFFICES ASSUME NEW b \in Attempts, b # a PROVE Fenced(b)
  OBVIOUS
<1>1. ASSUME NEW x \in Sessions, NEW phase \in Phases,
             Stored(rows'[x]), rows'[x].token = <<b, phase>>
      PROVE  /\ Stored(rows[x]) /\ rows[x].token = <<b, phase>>
             /\ rows'[x].payload = rows[x].payload
  <2>1. CASE x # s
    BY <1>1, <2>1 DEF StoresTyped
  <2>2. CASE x = s
    <3>1. rows'[x] = new
      BY <2>2 DEF StoresTyped
    <3>2. new.token = rows[s].token
      BY <1>1, <3>1, TokensAreNotNone
    <3> QED
      BY <1>1, <2>2, <3>1, <3>2 DEF Stored
  <2> QED
    BY <2>1, <2>2
<1> QED
  BY <1>1 DEF Fenced

\* An aggregate that goes on from what is stored.
ReadyToWork(a, n) ==
    AtWork(a, n) /\ Stored(rows[n.session]) /\ Extends(rows[n.session].payload, n.draft)

\* Whoever is ready to work has what a claim may have in hand.
LEMMA ReadyIsFine ==
    ASSUME Typed, NEW a \in Attempts, NEW n \in Requests, ReadyToWork(a, n), SamePayloads
    PROVE  Fine(a, n)'
<1>1. n.session \in Sessions
  BY DEF ReadyToWork, AtWork, Asks
<1>2. Asks(n)' /\ (Stored(rows'[n.session]) <=> Stored(rows[n.session]))
      /\ rows'[n.session].payload = rows[n.session].payload
  BY <1>1 DEF ReadyToWork, AtWork, Asks, SamePayloads, Stored
<1>3. Sound(n.session, n.draft) => Sound(n.session, n.draft)'
  BY DEF Sound, SamePayloads
<1>4. Carries(n, n.draft)'
  BY <1>2, <1>3 DEF ReadyToWork, AtWork, Carries
<1>5. n.pc \notin {"checkpoint", "complete"} => Shows(n, n.draft)'
  BY <1>2, <1>4 DEF ReadyToWork, AtWork, Shows
<1>6. Owns(a, n, n.draft)'
  BY <1>2 DEF ReadyToWork, Owns
<1>7. n.since <= now'
  <2>1. n.since \in Nat /\ now' \in Nat /\ now \in Nat /\ now <= now' /\ n.since <= now
    BY BoundAssumption DEF Requests, SamePayloads, ReadyToWork, AtWork, Typed
  <2> QED
    BY <2>1
<1>8. AtWork(a, n)'
  BY <1>2, <1>4, <1>5, <1>6, <1>7 DEF ReadyToWork, AtWork, Graded, Confirmed
<1> QED
  BY <1>8, WorkIsFineThen

\* Where a request may go once its claim is granted.
Claimed(a, n) ==
    /\ n \in Requests /\ SaysFor(req[a], n)
    /\ n.pc \in Working \cup {"release"} /\ n.session = req[a].session /\ n.phase = req[a].phase
    /\ (n.pc = "release" /\ Fine(a, n)) \/ ReadyToWork(a, n)

\* A request at claim.
ClaimsNow(a) ==
    /\ Typed /\ RowsAreSound /\ a \in Attempts /\ Proper(a) /\ req[a].pc = "claim"
    /\ Stored(rows[req[a].session])

\* What a request has in hand when it claims.
LEMMA ClaimingRequests ==
    ASSUME NEW a, ClaimsNow(a)
    PROVE  LET r == req[a]
               p == rows[r.session].payload
           IN  /\ r \in Requests /\ Fine(a, r) /\ Asks(r) /\ r.session \in Sessions
               /\ p \in Payload /\ Sound(r.session, p) /\ Shows(r, p) /\ Extends(p, p) /\ p # None
               /\ r.phase \in Phases /\ r.after \in Afters
               /\ r.phase = "main" <=> r.draft = None
               /\ r.phase = "main" => r.kind # "view"
               /\ r.draft # None => /\ r.draft \in Payload /\ Confirmed(r) /\ Shows(r, r.draft)
                                    /\ Extends(r.draft, p)
                                    /\ r.kind \in Grading => r.draft.reported
<1> DEFINE r == req[a]
           p == rows[r.session].payload
<1>1. /\ r \in Requests /\ Fine(a, r) /\ r.pc = "claim" /\ Stored(rows[r.session])
      /\ a \in Attempts /\ Typed /\ RowsAreSound
  BY DEF ClaimsNow, Proper
<1>2. Asks(r) /\ r.session \in Sessions
  BY <1>1, FineAsks DEF Asks
<1>3. p \in Payload /\ Sound(r.session, p) /\ Shows(r, p)
  BY <1>1, <1>2, StoredShows DEF Shows, Carries
<1>4. Extends(p, p) /\ p # None
  BY <1>3, ExtendsItself, NoneAssumption
<1>5. /\ r.phase \in Phases /\ r.after \in Afters
      /\ r.phase = "main" <=> r.draft = None
      /\ r.phase = "main" => r.kind # "view"
  BY <1>1 DEF Requests, Fine, Shaped
<1>6. ASSUME r.draft # None
      PROVE  /\ r.draft \in Payload /\ Confirmed(r) /\ Shows(r, r.draft) /\ Extends(r.draft, p)
             /\ r.kind \in Grading => r.draft.reported
  <2>1. Confirmed(r)
    BY <1>1, <1>6 DEF Confirmed
  <2>2. r.draft \in Payload /\ Shows(r, r.draft)
    BY <1>1, <1>6, <2>1, FineAsks
  <2>3. r.kind \in Grading => r.draft.reported
    BY <1>1, <1>6, <2>1 DEF Fine, Graded
  <2> QED
    BY <1>1, <2>1, <2>2, <2>3 DEF Shows
<1> QED
  BY <1>1, <1>2, <1>3, <1>4, <1>5, <1>6

\* It goes to work on what is stored, or on the answer that follows.
LEMMA ClaimedWork ==
    ASSUME NEW a, ClaimsNow(a), NEW w, NEW where \in {"exact", "memory", "stage", "complete"}, NEW n,
           n = At([req[a] EXCEPT !.draft = w], where),
           LET r == req[a]
               p == rows[r.session].payload
           IN  /\ Sound(r.session, w) /\ Extends(p, w) /\ Request(w) = Request(p)
               /\ w = p \/ (where = "complete" /\ r.kind = "answer")
               /\ where = "exact" => Completed(p) /\ r.phase = "main" /\ r.kind \in Grading
               /\ where = "memory" => r.phase = "memory" /\ MemoryPending(p)
               /\ where = "stage" => r.phase = "path" /\ StagePending(p)
               /\ where = "complete" => r.kind = "answer"
    PROVE  Claimed(a, n)
<1> DEFINE r == req[a]
           p == rows[r.session].payload
<1>0. /\ r \in Requests /\ Asks(r) /\ r.session \in Sessions /\ Shows(r, p)
      /\ r.phase \in Phases /\ r.after \in Afters /\ p \in Payload
      /\ r.phase = "main" <=> r.draft = None
      /\ r.draft # None => r.draft \in Payload /\ Extends(r.draft, p) /\ (r.kind \in Grading => r.draft.reported)
  BY ClaimingRequests
<1>1. Typed /\ RowsAreSound /\ a \in Attempts /\ Stored(rows[r.session])
  BY DEF ClaimsNow
<1>2. where \in Places /\ w \in Payload /\ w # None
  BY NoneAssumption DEF Places, Calls, Sound
<1>3. n = At(Carry(r, r.phase, w, r.after), where)
  BY <1>0, CarryForms
<1>4. /\ n \in Requests /\ n.pc = where /\ SameRequest(r, n) /\ n.since <= now
      /\ n.phase = r.phase /\ n.draft = w
  BY <1>0, <1>1, <1>2, <1>3, GoesWith
<1>5. Asks(n) /\ Carries(n, w) /\ n.session = r.session
  BY <1>0, <1>1, <1>4 DEF Asks, Carries, SameRequest
<1>6. Graded(n)
  <2>1. CASE where = "exact"
    BY <1>4, <2>1 DEF Graded
  <2>2. CASE where = "memory"
    <3>1. r.kind \in Grading => p.reported
      BY <1>0, <2>2 DEF Extends
    <3>2. w = p /\ Completed(p) /\ (p.reported \/ (p.stage = 0 /\ ~ p.short))
      BY <2>2 DEF MemoryPending
    <3> QED
      BY <1>4, <2>2, <3>1, <3>2 DEF Graded, SameRequest
  <2>3. CASE where = "stage"
    <3>1. w = p /\ p.stage # 0 /\ p.reported /\ p.profile
      BY <2>3 DEF StagePending
    <3> QED
      BY <1>4, <2>3, <3>1 DEF Graded
  <2>4. CASE where = "complete"
    BY <1>4, <2>4 DEF Graded, SameRequest, Grading
  <2> QED
    BY <2>1, <2>2, <2>3, <2>4
<1>7. where # "complete" => Shows(n, w)
  BY <1>0, <1>5 DEF Shows
<1>8. AtWork(a, n)
  <2>1. Owns(a, n, w)
    BY <1>5 DEF Owns
  <2>2. n.pc \in Working /\ n.pc # "checkpoint" /\ n.pc \notin {"provider", "learn"}
    BY <1>4 DEF Working
  <2> QED
    BY <1>2, <1>4, <1>5, <1>6, <1>7, <2>1, <2>2 DEF AtWork, SameRequest
<1>9. SaysFor(r, n)
  <2>1. w.stage = p.stage
    BY DEF Request
  <2>2. Confirmed(n) => w = p
    BY <1>4 DEF Confirmed
  <2> QED
    BY <1>0, <1>1, <1>4, <1>5, <2>1, <2>2 DEF SaysFor
<1> QED
  BY <1>1, <1>4, <1>5, <1>8, <1>9 DEF Claimed, ReadyToWork, AtWork

\* It lets go: of nothing it needs, or of a record that it goes on with.
LEMMA ClaimedEnding ==
    ASSUME NEW a, ClaimsNow(a), NEW how \in {"failed", "stale"}
    PROVE  Claimed(a, Ending(req[a], how))
<1> DEFINE r == req[a]
           n == Ending(r, how)
<1>1. r \in Requests /\ Typed /\ a \in Attempts /\ Proper(a) /\ r.pc = "claim"
  BY DEF ClaimsNow, Proper
<1>2. Goes(a, n)
  BY <1>1, EndingGoes
<1>3. n.pc = "release" /\ n.phase = r.phase /\ SameRequest(r, n)
  BY <1>1, EndingFields DEF Afters
<1> QED
  BY <1>2, <1>3 DEF Claimed, Goes, SameRequest

\* A claim that finds the work done ends with what is stored.
LEMMA ClaimedShown ==
    ASSUME NEW a, ClaimsNow(a), NEW p \in Payload, p # None, NEW m,
           m = Carry(req[a], req[a].phase, p, req[a].after), NEW how \in {"repair", "reread"},
           Shows(req[a], p), req[a].kind \in Grading => p.reported,
           how = "reread" => req[a].phase # "main" /\ p = req[a].draft,
           how = "repair" => /\ req[a].phase = "main" /\ req[a].kind = "answer"
                             /\ p = rows[req[a].session].payload
    PROVE  Claimed(a, Ending(m, how))
<1> DEFINE r == req[a]
           n == Ending(m, how)
<1>1. r \in Requests /\ Typed /\ a \in Attempts /\ Asks(r) /\ r.phase \in Phases /\ r.after \in Afters
      /\ r.session \in Sessions /\ Stored(rows[r.session]) /\ (r.draft # None => Confirmed(r))
  BY ClaimingRequests DEF ClaimsNow
<1>3. m \in Requests /\ SameRequest(r, m) /\ m.phase = r.phase /\ m.draft = p
  BY <1>1, CarryFields
<1>4. Asks(m) /\ Shows(m, p)
  BY <1>1, <1>3 DEF Asks, Shows, Carries, SameRequest
<1>5. n \in Requests /\ Fine(a, n)
  BY <1>1, <1>3, <1>4, EndingShown DEF SameRequest
<1>6. n.pc = "release" /\ n.phase = m.phase /\ SameRequest(m, n) /\ n.draft = p
  <2>1. how \in Afters
    BY DEF Afters
  <2>2. n.pc = "release" /\ n.phase = m.phase /\ SameRequest(m, n) /\ n.draft = m.draft
    BY <1>1, <1>3, <2>1, EndingFields
  <2> QED
    BY <1>3, <2>2
<1> HIDE DEF n
<1>7. SaysFor(r, n)
  <2>1. n.session = r.session
    BY <1>3, <1>6 DEF SameRequest
  <2> QED
    BY <1>1, <1>6, <2>1 DEF SaysFor
<1> QED
  BY <1>3, <1>5, <1>6, <1>7 DEF Claimed, SameRequest, n

\* What follows a claim is ready to work, or ends with what is stored.
LEMMA AfterClaimIsClaimed ==
    ASSUME NEW a, ClaimsNow(a)
    PROVE  Claimed(a, AfterClaim(req[a], rows[req[a].session].payload))
<1> DEFINE r == req[a]
           p == rows[r.session].payload
           n == AfterClaim(r, p)
           m == [r EXCEPT !.draft = p]
<1>1. /\ r \in Requests /\ Fine(a, r) /\ Asks(r) /\ r.session \in Sessions
      /\ p \in Payload /\ Sound(r.session, p) /\ Shows(r, p) /\ Extends(p, p) /\ p # None
      /\ r.phase \in Phases /\ r.after \in Afters
      /\ r.phase = "main" <=> r.draft = None
      /\ r.phase = "main" => r.kind # "view"
      /\ r.draft # None => /\ r.draft \in Payload /\ Confirmed(r) /\ Shows(r, r.draft)
                           /\ Extends(r.draft, p)
                           /\ r.kind \in Grading => r.draft.reported
  BY ClaimingRequests
<1>2. m = Carry(r, r.phase, p, r.after)
  BY <1>1, CarryForms
<1> HIDE DEF m
<1>3. CASE r.phase = "main" /\ r.kind = "answer"
  <2>1. n = AfterAnswerClaim(r, p)
    BY <1>3 DEF AfterClaim
  <2>2. CASE Replay(r, p)
    <3>1. n = Ending(m, "repair")
      BY <2>1, <2>2 DEF AfterAnswerClaim, m
    <3>2. r.kind \notin Grading
      BY <1>3 DEF Grading
    <3> QED
      BY <1>1, <1>2, <1>3, <3>1, <3>2, ClaimedShown
  <2>3. CASE ~ Replay(r, p) /\ Conflict(r, p)
    <3>1. n = Ending(r, "failed")
      BY <2>1, <2>3 DEF AfterAnswerClaim
    <3> QED
      BY <3>1, ClaimedEnding
  <2>4. CASE ~ Replay(r, p) /\ ~ Conflict(r, p) /\ Applicable(r, p)
    <3> DEFINE w == WithAnswer(r, p)
    <3>1. n = At([r EXCEPT !.draft = w], "complete")
      BY <2>1, <2>4 DEF AfterAnswerClaim
    <3>2. BoundTo(r, p) = None
      BY <2>4 DEF Replay, Conflict
    <3>3. r.ask \in [index : Questions, choice : Choices] /\ r.key \in Keys \cup {None}
      BY <1>1, <1>3 DEF Asks, Requests
    <3>4. Sound(r.session, w) /\ Extends(p, w) /\ Request(w) = Request(p)
      BY <1>1, <2>4, <3>2, <3>3, NextAnswers
    <3> HIDE DEF w
    <3> QED
      BY <1>3, <3>1, <3>4, ClaimedWork
  <2>5. CASE ~ Replay(r, p) /\ ~ Conflict(r, p) /\ ~ Applicable(r, p)
    <3>1. n = Ending(r, "stale")
      BY <2>1, <2>5 DEF AfterAnswerClaim
    <3> QED
      BY <3>1, ClaimedEnding
  <2> QED
    BY <2>2, <2>3, <2>4, <2>5
<1>4. CASE r.phase = "main" /\ r.kind # "answer"
  <2>1. r.kind \in Grading
    BY <1>1, <1>4 DEF Asks
  <2>2. CASE Completed(p)
    <3>1. n = At([r EXCEPT !.draft = p], "exact")
      BY <1>4, <2>2 DEF AfterClaim
    <3> QED
      BY <1>1, <1>4, <2>1, <2>2, <3>1, ClaimedWork
  <2>3. CASE ~ Completed(p)
    <3>1. n = Ending(r, "failed")
      BY <1>4, <2>3 DEF AfterClaim
    <3> QED
      BY <3>1, ClaimedEnding
  <2> QED
    BY <2>2, <2>3
<1>5. CASE r.phase # "main" /\ StillPending(r, p)
  <2>1. CASE r.phase = "memory"
    <3>1. n = At([r EXCEPT !.draft = p], "memory") /\ MemoryPending(p)
      BY <1>5, <2>1 DEF AfterClaim, StillPending
    <3> QED
      BY <1>1, <2>1, <3>1, ClaimedWork
  <2>2. CASE r.phase = "path"
    <3>1. n = At([r EXCEPT !.draft = p], "stage") /\ StagePending(p)
      BY <1>5, <2>2 DEF AfterClaim, StillPending
    <3> QED
      BY <1>1, <2>2, <3>1, ClaimedWork
  <2> QED
    BY <1>1, <1>5, <2>1, <2>2 DEF Phases
<1>6. CASE r.phase # "main" /\ ~ StillPending(r, p)
  <2>1. n = Ending(r, "reread")
    BY <1>6 DEF AfterClaim
  <2>2. r = Carry(r, r.phase, r.draft, r.after)
    BY <1>1 DEF Carry, Requests
  <2> QED
    BY <1>1, <1>6, <2>1, <2>2, ClaimedShown
<1> QED
  BY <1>3, <1>4, <1>5, <1>6

\* A request, a session of it, and an instant.
LEMMA AskedRows ==
    ASSUME Typed, NEW a \in Attempts, NEW r \in Requests, Asks(r)
    PROVE  /\ r.session \in Sessions /\ rows[r.session] \in Row /\ r.phase \in Phases
           /\ Token(a, r) = <<a, r.phase>> /\ Token(a, r) \in Tokens /\ Token(a, r) # None
           /\ \A t \in Instants(r) : t \in Nat
<1>1. r.session \in Sessions /\ r.phase \in Phases /\ r.since \in Nat
  BY DEF Asks, Requests
<1>2. rows[r.session] \in Row
  BY <1>1 DEF Typed
<1>3. Token(a, r) = <<a, r.phase>> /\ Token(a, r) \in Tokens /\ Token(a, r) # None
  BY <1>1, TokensAreNotNone DEF Token
<1>4. \A t \in Instants(r) : t \in Nat
  BY <1>1 DEF Instants, Typed
<1> QED
  BY <1>1, <1>2, <1>3, <1>4

\* A claim keeps the invariant.
LEMMA ClaimStep ==
    ASSUME IInv, NEW a \in Attempts, Claim(a)
    PROVE  IInv' /\ Onward
<1> DEFINE r == req[a]
           s == r.session
           after == AfterClaim(r, rows[s].payload)
<1>1. PICK t \in Instants(r) :
          ClaimAnswer(rows[s], t) = "claimed" /\ SetRow(r, ClaimRow(rows[s], Token(a, r), t))
  BY DEF Claim
<1> DEFINE new == ClaimRow(rows[s], Token(a, r), t)
<1>2. StoresTyped /\ RequestsTyped /\ Proper(a) /\ RowsAreSound /\ Typed
  BY InvParts, TypedParts DEF StoresAreSound
<1>3. r.pc = "claim" /\ Go(a, after) /\ UNCHANGED <<now, maxCount, path, memory, late>>
  BY DEF Claim
<1>4. r \in Requests /\ Fine(a, r) /\ Asks(r)
  BY <1>2, <1>3, FineAsks DEF Proper
<1>5. /\ s \in Sessions /\ rows[s] \in Row /\ r.phase \in Phases
      /\ Token(a, r) = <<a, r.phase>> /\ Token(a, r) \in Tokens /\ t \in Nat
  BY <1>2, <1>4, AskedRows
<1>6. /\ new \in Row /\ new.there = rows[s].there /\ new.key = rows[s].key
      /\ new.payload = rows[s].payload /\ new.token = Token(a, r) /\ Stored(rows[s])
  BY <1>1, <1>5, ClaimedRows
<1>7. rows' = [rows EXCEPT ![s] = new]
  BY <1>1 DEF SetRow
<1>8. ClaimsNow(a)
  BY <1>2, <1>3, <1>6 DEF ClaimsNow
<1> HIDE DEF new, after
<1>9. PICK n \in Requests : n = after /\ Claimed(a, n)
  BY <1>8, AfterClaimIsClaimed DEF Claimed, after
<1>10. n \in Requests /\ Go(a, n)
  BY <1>3, <1>9
<1>0. late[a] = None
  BY <1>2, <1>3 DEF Proper, Left
<1>11. /\ RequestsTyped' /\ req'[a] = n /\ late'[a] = None
       /\ \A b \in Attempts : b # a => req'[b] = req[b] /\ late'[b] = late[b]
  BY <1>0, <1>2, <1>3, <1>10 DEF Go, RequestsTyped
<1>12. SamePayloads
  BY <1>2, <1>3, <1>5, <1>6, <1>7, LeaseIsSame
<1>13. Typed' /\ Onward
  BY <1>11, <1>12, SameTyped
<1>14. OthersSame(a)
  <2>1. new.token \in {rows[s].token, None, <<a, r.phase>>}
    BY <1>5, <1>6
  <2>2. \A b \in Attempts : b # a => Fenced(b)
    <3>1. StoresTyped /\ s \in Sessions /\ new \in Row /\ rows' = [rows EXCEPT ![s] = new]
      BY <1>2, <1>5, <1>6, <1>7
    <3>2. new.there = rows[s].there /\ new.payload = rows[s].payload /\ r.phase \in Phases
      BY <1>5, <1>6
    <3>3. PICK claimed \in Phases : claimed = r.phase
      BY <3>2
    <3>4. new.token \in {rows[s].token, None, <<a, claimed>>}
      BY <2>1, <3>3
    <3> HIDE DEF s
    <3> QED
      BY <3>1, <3>2, <3>4, LeaseIsFenced
  <2> QED
    BY <1>11, <2>2 DEF OthersSame
<1>15. Proper(a)'
  <2>1. Fine(a, n)'
    <3>1. CASE n.pc = "release" /\ Fine(a, n)
      BY <1>2, <1>10, <1>13, <3>1, FineStays DEF Working
    <3>2. CASE ReadyToWork(a, n)
      BY <1>2, <1>10, <1>12, <3>2, ReadyIsFine
    <3> QED
      BY <1>9, <3>1, <3>2 DEF Claimed
  <2>2. Found(n)'
    BY <1>9 DEF Found, Claimed, Working
  <2>3. ASSUME NEW x \in Sessions, NEW phase \in Phases,
               Stored(rows'[x]), rows'[x].token = <<a, phase>>
        PROVE  Claims(n, x, phase)
    <3>1. CASE x = s
      <4>1. rows'[x] = new
        BY <1>2, <1>5, <1>7, <3>1 DEF StoresTyped
      <4>2. phase = r.phase
        BY <1>5, <1>6, <2>3, <4>1
      <4> QED
        BY <1>9, <3>1, <4>2 DEF Claims, Claimed
    <3>2. CASE x # s
      <4>1. rows'[x] = rows[x]
        BY <1>2, <1>5, <1>7, <3>2 DEF StoresTyped
      <4>2. Claims(r, x, phase)
        BY <1>2, <2>3, <4>1 DEF Proper, TokensOf
      <4> QED
        BY <1>3, <4>2 DEF Claims, Working
    <3> QED
      BY <3>1, <3>2
  <2> QED
    BY <1>11, <2>1, <2>2, <2>3, NowProper
<1>16. SaysNothingNew(a)
  <2> SUFFICES ASSUME NEW verdicts, AllSay(verdicts)
               PROVE  Says(verdicts, n)
    BY <1>11 DEF SaysNothingNew
  <2>1. Says(verdicts, req[a])
    BY DEF AllSay
  <2>2. SaysFor(req[a], n)
    BY <1>9 DEF Claimed
  <2> QED
    BY <2>1, <2>2, SaysNoMore
<1> QED
  BY <1>11, <1>12, <1>14, <1>15, <1>16, SameStep

-----------------------------------------------------------------------------
(***************************************************************************)
(* Letting go, and threads that come too late                              *)
(***************************************************************************)
\* A request that has let go answers, repairs, reads again, or is over.
LEMMA AfterRelease ==
    ASSUME Typed, NEW a \in Attempts, Proper(a), req[a].pc = "release"
    PROVE  LET r == req[a]
               n == CASE r.after = "repair" -> Repaired(r, r.draft)
                      [] r.after = "reread" -> At([r EXCEPT !.after = None], "reread")
                      [] OTHER              -> Gone
           IN  /\ n \in Requests /\ Fine(a, n) /\ n.pc \notin Working /\ Found(n) /\ SaysFor(r, n)
               /\ late[a] # None => n.pc = "over"
<1> DEFINE r == req[a]
           n == CASE r.after = "repair" -> Repaired(r, r.draft)
                  [] r.after = "reread" -> At([r EXCEPT !.after = None], "reread")
                  [] OTHER              -> Gone
<1>1. /\ r \in Requests /\ Fine(a, r) /\ Asks(r)
      /\ r.draft # None => r.draft \in Payload /\ (Confirmed(r) => Shows(r, r.draft))
  BY FineAsks DEF Proper
<1>2. CASE r.after = "repair"
  <2>1. n = Repaired(r, r.draft)
    BY <1>2
  <2>2. r.draft # None /\ r.kind = "answer" /\ Confirmed(r)
    BY <1>1, <1>2 DEF Fine, Shaped, Confirmed
  <2>3. r.draft \in Payload /\ Shows(r, r.draft) /\ r.kind \notin Grading
    BY <1>1, <2>2 DEF Grading
  <2>4. n \in Requests /\ Fine(a, n)
    BY <1>1, <2>1, <2>3, RepairedIsFine
  <2>5. \/ /\ n.pc = "claim" /\ SameRequest(r, n) /\ n.draft = r.draft
        \/ n = Gone
    BY <1>1, <2>1, <2>2, <2>3, RepairedFields
  <2> HIDE DEF n
  <2>6. n.pc \notin Working /\ Found(n)
    BY <2>5, GoneFields, NoneAssumption DEF Working, Found
  <2>7. SaysFor(r, n)
    BY <2>2, <2>5, GoneFields DEF SaysFor, SameRequest
  <2>8. late[a] = None
    BY <1>2 DEF Proper, Left
  <2> QED
    BY <2>4, <2>6, <2>7, <2>8 DEF n
<1>3. CASE r.after = "reread"
  <2> DEFINE m == Carry(r, r.phase, r.draft, None)
  <2>1. n = At(m, "reread")
    <3>1. [r EXCEPT !.after = None] = m
      BY <1>1, CarryForms
    <3> QED
      BY <1>3, <3>1
  <2>2. r.draft # None /\ r.phase # "main" /\ Confirmed(r)
    BY <1>1, <1>3 DEF Fine, Shaped, Confirmed
  <2>3. r.draft \in Payload /\ Shows(r, r.draft)
    BY <1>1, <2>2
  <2>4. r.phase \in Phases /\ None \in Afters /\ "reread" \in Places
    BY <1>1 DEF Requests, Afters, Places
  <2>5. /\ n \in Requests /\ n.pc = "reread" /\ SameRequest(r, n) /\ n.since <= now
        /\ n.phase = r.phase /\ n.draft = r.draft /\ n.after = None
    BY <1>1, <2>1, <2>3, <2>4, GoesWith
  <2> HIDE DEF n, m
  <2>6. Shaped(n)
    BY <1>1, <2>2, <2>5 DEF Shaped, Asks, SameRequest, Working
  <2>7. Graded(n)
    <3>1. r.kind \in Grading => r.draft.reported
      BY <1>1, <1>3, <2>2 DEF Fine, Graded
    <3> QED
      BY <2>5, <3>1 DEF Graded, SameRequest
  <2>8. InHand(a, n)
    BY <1>1, <2>2, <2>3, <2>5 DEF InHand, Shows, Carries, Asks, SameRequest, Working
  <2>9. n.pc \notin Working /\ Found(n)
    BY <2>5 DEF Working, Found
  <2>10. SaysFor(r, n)
    BY <2>2, <2>5 DEF SaysFor, SameRequest
  <2>11. late[a] = None
    BY <1>3 DEF Proper, Left
  <2> QED
    BY <2>5, <2>6, <2>7, <2>8, <2>9, <2>10, <2>11 DEF Fine, n
<1>4. CASE r.after \notin {"repair", "reread"}
  <2>1. n = Gone
    BY <1>4
  <2>2. Goes(a, Gone)
    BY GoneGoes
  <2> QED
    BY <2>1, <2>2, GoneFields DEF Goes, Working
<1> QED
  BY <1>2, <1>3, <1>4

\* A release keeps the invariant.
LEMMA ReleaseStep ==
    ASSUME IInv, NEW a \in Attempts, Release(a)
    PROVE  IInv' /\ Onward
<1> DEFINE r == req[a]
           s == r.session
           new == ReleaseRow(rows[s], Token(a, r))
           after == CASE r.after = "repair" -> Repaired(r, r.draft)
                      [] r.after = "reread" -> At([r EXCEPT !.after = None], "reread")
                      [] OTHER              -> Gone
<1>1. /\ r.pc = "release" /\ rows' = [rows EXCEPT ![s] = new] /\ Go(a, after)
      /\ UNCHANGED <<now, maxCount, path, memory, late>>
  BY DEF Release, SetRow
<1>2. StoresTyped /\ RequestsTyped /\ Proper(a) /\ RowsAreSound /\ Typed
  BY InvParts, TypedParts DEF StoresAreSound
<1>3. /\ after \in Requests /\ Fine(a, after) /\ after.pc \notin Working /\ Found(after)
      /\ SaysFor(r, after) /\ (late[a] # None => after.pc = "over")
  BY <1>1, <1>2, AfterRelease
<1> HIDE DEF after
<1>4. PICK n \in Requests : n = after
  BY <1>3
<1>5. PICK l \in Requests \cup {None} : l = late[a]
  BY <1>2 DEF RequestsTyped
<1>6. r \in Requests /\ Asks(r)
  BY <1>1, <1>2, FineAsks DEF Proper
<1>7. /\ s \in Sessions /\ rows[s] \in Row /\ r.phase \in Phases
      /\ Token(a, r) = <<a, r.phase>> /\ Token(a, r) # None
  BY <1>2, <1>6, AskedRows
<1>8. /\ new \in Row /\ new.there = rows[s].there /\ new.key = rows[s].key
      /\ new.payload = rows[s].payload /\ new.token \in {rows[s].token, None}
      /\ Stored(rows[s]) => new.token # Token(a, r)
  BY <1>7, ReleasedRows
<1> HIDE DEF new
<1>9. /\ RequestsTyped' /\ req'[a] = n /\ late'[a] = l
      /\ \A b \in Attempts : b # a => req'[b] = req[b] /\ late'[b] = late[b]
  BY <1>1, <1>2, <1>4, <1>5 DEF Go, RequestsTyped
<1>10. SamePayloads
  BY <1>1, <1>2, <1>7, <1>8, LeaseIsSame
<1>11. Typed' /\ Onward
  BY <1>9, <1>10, SameTyped
<1>12. \A b \in Attempts : b # a => Fenced(b)
  BY <1>1, <1>2, <1>7, <1>8, LeaseIsFenced
<1>13. OthersSame(a)
  BY <1>9, <1>12 DEF OthersSame
<1>14. ASSUME NEW x \in Sessions, NEW phase \in Phases,
              Stored(rows'[x]), rows'[x].token = <<a, phase>>
       PROVE  /\ Stored(rows[x]) /\ rows[x].token = <<a, phase>> /\ x # s
  <2>1. CASE x = s
    <3>1. rows'[x] = new /\ Stored(rows[s])
      BY <1>1, <1>2, <1>7, <1>8, <1>14, <2>1 DEF StoresTyped, Stored
    <3>2. new.token = <<a, phase>> /\ <<a, phase>> # None
      BY <1>14, <3>1, TokensAreNotNone
    <3>3. Claims(r, s, phase)
      BY <1>2, <1>7, <1>8, <3>1, <3>2 DEF Proper, TokensOf
    <3>4. phase = r.phase
      BY <1>1, <3>3 DEF Claims
    <3> QED
      BY <1>7, <1>8, <3>1, <3>2, <3>4
  <2>2. CASE x # s
    BY <1>1, <1>2, <1>7, <1>14, <2>2 DEF StoresTyped
  <2> QED
    BY <2>1, <2>2
<1>15. Proper(a)'
  <2>1. Fine(a, n)'
    BY <1>2, <1>3, <1>4, <1>11, FineStays
  <2>2. l # None => Fine(a, l)'
    <3> SUFFICES ASSUME l # None PROVE Fine(a, l)'
      OBVIOUS
    <3>1. Fenced(a)
      BY <1>10, <1>14 DEF Fenced, SamePayloads
    <3>2. Fine(a, l) /\ l \in Requests
      BY <1>2, <1>5 DEF Proper
    <3> QED
      BY <1>2, <1>11, <3>1, <3>2, FineStays
  <2>3. l # None => LeftBy(l, n)
    BY <1>1, <1>2, <1>3, <1>4, <1>5 DEF Proper, Left, LeftBy
  <2>4. Found(n)'
    BY <1>3, <1>4, <1>10 DEF Found, SamePayloads, Stored
  <2>5. ASSUME NEW x \in Sessions, NEW phase \in Phases,
               Stored(rows'[x]), rows'[x].token = <<a, phase>>
        PROVE  Claims(n, x, phase)
    <3>1. Stored(rows[x]) /\ rows[x].token = <<a, phase>> /\ x # s
      BY <1>14, <2>5
    <3>2. Claims(r, x, phase)
      BY <1>2, <3>1 DEF Proper, TokensOf
    <3> QED
      BY <1>1, <3>1, <3>2 DEF Claims
  <2> QED
    BY <1>9, <2>1, <2>2, <2>3, <2>4, <2>5, NowProper
<1>16. SaysNothingNew(a)
  <2> SUFFICES ASSUME NEW verdicts, AllSay(verdicts)
               PROVE  Says(verdicts, n) /\ (l # None => Says(verdicts, l))
    BY <1>9 DEF SaysNothingNew
  <2>1. Says(verdicts, req[a]) /\ (late[a] # None => Says(verdicts, late[a]))
    BY DEF AllSay
  <2> QED
    BY <1>3, <1>4, <1>5, <2>1, SaysNoMore
<1> QED
  BY <1>9, <1>10, <1>13, <1>15, <1>16, SameStep

-----------------------------------------------------------------------------
(***************************************************************************)
(* Any step, by its parts                                                  *)
(***************************************************************************)
\* One request may move; the others keep their claims, and the stores grow.
LEMMA AnyStep ==
    ASSUME IInv, StoresAreSound', RequestsTyped', Onward, NEW a \in Attempts, OthersSame(a),
           Typed /\ Typed' => Proper(a)', OneVerdict'
    PROVE  IInv' /\ Onward
<1>1. StoresAreSound /\ RequestsTyped /\ \A b \in Attempts : Proper(b)
  BY InvParts
<1>2. Typed
  BY <1>1, TypedParts DEF StoresAreSound
<1>3. StoresTyped' /\ RowsAreSound'
  BY DEF StoresAreSound
<1>4. Typed'
  BY <1>3, TypedPartsThen
<1>5. \A b \in Attempts : Proper(b)'
  BY <1>1, <1>2, <1>4, OthersStayProper DEF OthersSame
<1> QED
  BY <1>5, InvPartsThen

\* Time passes.
LEMMA TickStep ==
    ASSUME IInv, Tick
    PROVE  IInv' /\ Onward
<1>1. StoresTyped /\ RequestsTyped /\ OneVerdict
  BY InvParts DEF StoresAreSound
<1>2. RequestsTyped' /\ UNCHANGED <<rows, path, memory, req, late, maxCount>>
  BY <1>1 DEF RequestsTyped, Tick
<1>3. SamePayloads
  BY <1>1, BoundAssumption DEF Tick, StoresTyped, SamePayloads
<1>4. Typed /\ Typed' /\ Onward /\ StoresAreSound' /\ \A b \in Attempts : Proper(b)
  BY <1>2, <1>3, SameTyped
<1>5. \A b \in Attempts : Fenced(b)
  BY <1>2 DEF Fenced
<1>6. \A b \in Attempts : Proper(b)'
  BY <1>2, <1>4, <1>5, OthersStayProper
<1>7. PICK verdicts \in Verdicts : AllSay(verdicts)
  BY <1>1 DEF OneVerdict
<1>8. \A b \in Attempts :
          Says(verdicts, req'[b]) /\ (late'[b] # None => Says(verdicts, late'[b]))
  BY <1>2, <1>7 DEF AllSay
<1>9. AllSay(verdicts)'
  BY <1>1, <1>3, <1>7, <1>8, SameSays
<1>10. OneVerdict'
  BY <1>7, <1>9 DEF OneVerdict, Verdicts
<1> QED
  BY <1>2, <1>4, <1>6, <1>10, InvPartsThen

\* A thread that was left behind has run, and its request is where it was.
LEMMA LateIsProper ==
    ASSUME Typed, Typed', RequestsTyped', Onward, NEW a \in Attempts, Proper(a), late[a] # None,
           req'[a] = req[a], late'[a] = None,
           \A s \in Sessions, phase \in Phases :
               Stored(rows'[s]) /\ rows'[s].token = <<a, phase>> =>
                   req[a].pc = "over" \/ (Stored(rows[s]) /\ rows[s].token = <<a, phase>>)
    PROVE  Proper(a)'
<1>1. PICK n \in Requests : n = req[a]
  BY DEF Proper
<1>2. Fine(a, n) /\ n.pc \notin Working
  BY <1>1 DEF Proper, Left, Working
<1>3. Fine(a, n)'
  BY <1>2, FineStays
<1>4. Found(n)'
  <2>1. Found(n)
    BY <1>1 DEF Proper
  <2> QED
    BY <2>1, RequestStays DEF Found, Onward, Grows
<1>5. \A s \in Sessions, phase \in Phases :
          Stored(rows'[s]) /\ rows'[s].token = <<a, phase>> => Claims(n, s, phase)
  BY <1>1 DEF Proper, TokensOf, Claims
<1> QED
  BY <1>1, <1>3, <1>4, <1>5, NowProper

\* It has run too late to change anything.
LEMMA LateQuietStep ==
    ASSUME IInv, Still, NEW a \in Attempts, late[a] # None, late' = [late EXCEPT ![a] = None],
           UNCHANGED req
    PROVE  IInv' /\ Onward
<1>1. StoresTyped /\ RequestsTyped /\ Proper(a)
  BY InvParts DEF StoresAreSound
<1>2. /\ RequestsTyped' /\ req' = req /\ late'[a] = None
      /\ \A b \in Attempts : b # a => late'[b] = late[b]
  BY <1>1 DEF RequestsTyped
<1>3. SamePayloads /\ \A b \in Attempts : Fenced(b)
  BY <1>1, StillIsSame
<1>4. Typed /\ Typed' /\ Onward
  BY <1>2, <1>3, SameTyped
<1>5. OthersSame(a)
  BY <1>2, <1>3 DEF OthersSame
<1>6. Proper(a)'
  BY <1>1, <1>2, <1>4, LateIsProper DEF Still
<1>7. SaysNothingNew(a)
  BY <1>2 DEF SaysNothingNew, AllSay
<1> QED
  BY <1>2, <1>3, <1>5, <1>6, <1>7, SameStep

\* A claim that was granted too late is let go by the thread.
LEMMA LateReleaseIsFine ==
    ASSUME NEW a \in Attempts, NEW l \in Requests, Fine(a, l), l.pc = "claim", NEW m,
           m = [l EXCEPT !.pc = "release"]
    PROVE  /\ m \in Requests /\ m # None /\ Fine(a, m) /\ m.pc = "release" /\ SaysFor(l, m)
           /\ m.session = l.session
<1>1. /\ m \in Requests /\ m.pc = "release" /\ SameRequest(l, m) /\ m.phase = l.phase
      /\ m.after = l.after /\ m.draft = l.draft /\ m.since = l.since
  BY DEF Requests, SameRequest, Places
<1>2. l.after = None
  BY DEF Fine, Shaped
<1>3. ~ Confirmed(m)
  BY <1>1, <1>2, NoneAssumption DEF Confirmed
<1>4. Shaped(m)
  BY <1>1, <1>2, NoneAssumption DEF Fine, Shaped, SameRequest, Working
<1>5. Graded(m)
  BY <1>1, <1>3 DEF Graded
<1>6. InHand(a, m)
  BY <1>1, <1>3 DEF Fine, InHand, SameRequest, Working
<1>7. SaysFor(l, m)
  BY <1>1, <1>3 DEF SaysFor, SameRequest
<1> QED
  BY <1>1, <1>4, <1>5, <1>6, <1>7, RequestsAssumption DEF Fine, SameRequest

\* A change of the token by a thread that was left behind breaks nothing.
LEMMA LateLeaseStep ==
    ASSUME IInv, NEW a \in Attempts, NEW l \in Requests, l = late[a], l.pc \in {"claim", "release"},
           NEW new \in Row, rows' = [rows EXCEPT ![l.session] = new],
           new.there = rows[l.session].there, new.key = rows[l.session].key,
           new.payload = rows[l.session].payload,
           new.token \in {rows[l.session].token, None, Token(a, l)},
           NEW m \in Requests \cup {None}, late' = [late EXCEPT ![a] = m],
           m # None => Fine(a, m) /\ m.pc = "release" /\ SaysFor(l, m),
           UNCHANGED <<now, maxCount, path, memory, req>>
    PROVE  IInv' /\ Onward
<1> DEFINE s == l.session
<1>1. StoresTyped /\ RequestsTyped /\ Proper(a) /\ RowsAreSound /\ Typed
  BY InvParts, TypedParts DEF StoresAreSound
<1>2. l # None /\ Fine(a, l) /\ Left(a)
  BY <1>1, RequestsAssumption DEF Proper
<1>3. Asks(l)
  BY <1>2, FineAsks
<1>4. s \in Sessions /\ rows[s] \in Row /\ l.phase \in Phases /\ Token(a, l) = <<a, l.phase>>
  BY <1>1, <1>3, AskedRows
<1>5. req[a].pc = "over"
  BY <1>2 DEF Left
<1>6. PICK n \in Requests : n = req[a]
  BY <1>1 DEF RequestsTyped
<1>7. /\ RequestsTyped' /\ req'[a] = n /\ late'[a] = m
      /\ \A b \in Attempts : b # a => req'[b] = req[b] /\ late'[b] = late[b]
  BY <1>1, <1>6 DEF RequestsTyped
<1>8. SamePayloads
  BY <1>1, <1>4, LeaseIsSame
<1>9. Typed' /\ Onward
  BY <1>7, <1>8, SameTyped
<1>10. OthersSame(a)
  <2>1. new.token \in {rows[s].token, None, <<a, l.phase>>}
    BY <1>4
  <2>2. \A b \in Attempts : b # a => Fenced(b)
    BY <1>1, <1>4, <2>1, LeaseIsFenced
  <2> QED
    BY <1>7, <2>2 DEF OthersSame
<1>12. Proper(a)'
  <2>1. Fine(a, n)'
    BY <1>1, <1>5, <1>6, <1>9, FineStays DEF Proper, Working
  <2>2. m # None => Fine(a, m)' /\ LeftBy(m, n)
    BY <1>1, <1>5, <1>6, <1>9, FineStays DEF Working, LeftBy
  <2>3. Found(n)'
    <3>1. Found(n)
      BY <1>1, <1>6 DEF Proper
    <3> QED
      BY <1>8, <3>1 DEF Found, SamePayloads, Stored
  <2>4. \A x \in Sessions, phase \in Phases : Claims(n, x, phase)
    BY <1>5, <1>6 DEF Claims
  <2> QED
    BY <1>7, <2>1, <2>2, <2>3, <2>4, NowProper
<1>13. SaysNothingNew(a)
  <2> SUFFICES ASSUME NEW verdicts, AllSay(verdicts)
               PROVE  Says(verdicts, n) /\ (m # None => Says(verdicts, m))
    BY <1>7 DEF SaysNothingNew
  <2>1. Says(verdicts, n) /\ Says(verdicts, l)
    BY <1>2, <1>6 DEF AllSay
  <2> QED
    BY <2>1, SaysNoMore
<1> QED
  BY <1>7, <1>8, <1>10, <1>12, <1>13, SameStep

\* A claim or a release by such a thread keeps the invariant.
LEMMA LateClaimStep ==
    ASSUME IInv, NEW a \in Attempts, LateThread(a), late[a].pc \in {"claim", "release"}
    PROVE  IInv' /\ Onward
<1>1. StoresTyped /\ RequestsTyped /\ Proper(a) /\ RowsAreSound /\ Typed
  BY InvParts, TypedParts DEF StoresAreSound
<1>2. late[a] # None
  BY DEF LateThread
<1>3. PICK l \in Requests : l = late[a]
  BY <1>1, <1>2 DEF RequestsTyped
<1> DEFINE s == l.session
           new == LateRow(a, l)
<1>4. /\ rows' = [rows EXCEPT ![s] = new] /\ UNCHANGED <<now, maxCount, path, memory, req>>
      /\ late' = [late EXCEPT ![a] = IF l.pc = "claim" THEN AfterLateClaim(l) ELSE None]
  BY <1>3 DEF LateThread, SetRow
<1>5. Fine(a, l) /\ Asks(l) /\ l.since \in Nat
  BY <1>1, <1>2, <1>3, FineAsks DEF Proper, Requests
<1>6. s \in Sessions /\ rows[s] \in Row /\ Token(a, l) \in Tokens
  BY <1>1, <1>5, AskedRows
<1>7. CASE l.pc = "claim"
  <2>1. new = ClaimRow(rows[s], Token(a, l), l.since)
    BY <1>7 DEF LateRow
  <2>2. /\ new \in Row /\ new.there = rows[s].there /\ new.key = rows[s].key
        /\ new.payload = rows[s].payload /\ new.token \in {rows[s].token, Token(a, l)}
    BY <1>5, <1>6, <2>1, ClaimedRows
  <2> DEFINE m == AfterLateClaim(l)
  <2>3. m = None \/ m = [l EXCEPT !.pc = "release"]
    BY DEF AfterLateClaim
  <2>4. m # None => m \in Requests /\ Fine(a, m) /\ m.pc = "release" /\ SaysFor(l, m)
    BY <1>5, <1>7, <2>3, LateReleaseIsFine
  <2> HIDE DEF new, m
  <2> QED
    BY <1>3, <1>4, <1>7, <2>2, <2>3, <2>4, LateLeaseStep DEF m
<1>8. CASE l.pc = "release"
  <2>1. new = ReleaseRow(rows[s], Token(a, l))
    BY <1>8 DEF LateRow
  <2>2. /\ new \in Row /\ new.there = rows[s].there /\ new.key = rows[s].key
        /\ new.payload = rows[s].payload /\ new.token \in {rows[s].token, None}
    BY <1>6, <2>1, ReleasedRows
  <2> HIDE DEF new
  <2>3. late' = [late EXCEPT ![a] = None]
    BY <1>4, <1>8
  <2> QED
    BY <1>3, <1>4, <1>8, <2>2, <2>3, LateLeaseStep
<1> QED
  BY <1>3, <1>7, <1>8

\* A write that was not confirmed changes nothing.
LEMMA LostStep ==
    ASSUME IInv, Still, NEW a \in Attempts, req[a].pc \in {"checkpoint", "complete"},
           Go(a, Lost(req[a])), UNCHANGED late
    PROVE  IInv' /\ Onward
<1>1. StoresTyped /\ RequestsTyped /\ Proper(a) /\ RowsAreSound /\ Typed
  BY InvParts, TypedParts DEF StoresAreSound
<1>2. PICK how \in {"failed", "stale"} : Lost(req[a]) = Ending(req[a], how)
  BY DEF Lost
<1>3. Goes(a, Ending(req[a], how))
  BY <1>1, EndingGoes DEF Working
<1>4. Moves(a)
  BY <1>2, <1>3 DEF Moves, Goes
<1>5. Leaves(a)
  BY <1>1, <1>4, MovesLeaves
<1> QED
  BY <1>5, QuietStep

-----------------------------------------------------------------------------
(***************************************************************************)
(* Writes                                                                  *)
(***************************************************************************)
\* The aggregate of a session is replaced by one that goes on from it.
Written(s, d, new) ==
    /\ s \in Sessions /\ Stored(rows[s]) /\ Stored(new) /\ new \in Row
    /\ new.key = rows[s].key /\ new.payload = d
    /\ rows' = [rows EXCEPT ![s] = new]
    /\ Sound(s, d) /\ Extends(rows[s].payload, d) /\ Request(d) = Request(rows[s].payload)
    /\ UNCHANGED <<now, maxCount, path, memory>>

\* A write of one aggregate touches that row alone.
LEMMA WrittenRows ==
    ASSUME StoresTyped, NEW s, NEW d, NEW new, Written(s, d, new)
    PROVE  /\ s \in Sessions /\ Stored(rows[s]) /\ Stored(rows'[s]) /\ rows' \in [Sessions -> Row]
           /\ rows'[s].key = rows[s].key /\ rows'[s].payload = d
           /\ \A x \in Sessions : x # s => rows'[x] = rows[x]
           /\ \A x \in Sessions : (Stored(rows'[x]) <=> Stored(rows[x])) /\ rows'[x].key = rows[x].key
BY DEF StoresTyped, Written

\* A write that goes on from what is stored takes nothing back.
LEMMA WrittenIsOnward ==
    ASSUME Typed, StoresTyped, NEW s, NEW d, NEW new, Written(s, d, new)
    PROVE  Onward
<1>1. /\ s \in Sessions /\ Stored(rows[s]) /\ Stored(rows'[s])
      /\ rows'[s].key = rows[s].key /\ rows'[s].payload = d
      /\ \A x \in Sessions : x # s => rows'[x] = rows[x]
  BY WrittenRows
<1>2. /\ d \in Payload /\ Extends(rows[s].payload, d) /\ Request(d) = Request(rows[s].payload)
      /\ UNCHANGED <<now, path, memory>>
  BY DEF Written, Sound
<1>3. Grows(rows[s], rows'[s])
  BY <1>1, <1>2 DEF Grows, Stored
<1>4. ASSUME NEW x \in Sessions, x # s PROVE Grows(rows[x], rows'[x])
  <2>1. rows'[x] = rows[x] /\ (Stored(rows[x]) => rows[x].payload \in Payload)
    BY <1>1, <1>4 DEF Typed
  <2>2. Stored(rows[x]) => Extends(rows[x].payload, rows[x].payload)
    BY <2>1, ExtendsItself
  <2> QED
    BY <2>1, <2>2 DEF Grows
<1>5. \A x \in Sessions : Grows(rows[x], rows'[x])
  BY <1>3, <1>4
<1> QED
  BY <1>2, <1>5 DEF Onward, Typed

\* A write of a sound aggregate leaves the stores sound.
LEMMA WrittenStores ==
    ASSUME StoresAreSound, NEW s, NEW d, NEW new, Written(s, d, new)
    PROVE  StoresAreSound'
<1>0. StoresTyped /\ RowsAreSound
  BY DEF StoresAreSound
<1>1. /\ s \in Sessions /\ Stored(rows[s]) /\ Stored(rows'[s]) /\ rows' \in [Sessions -> Row]
      /\ rows'[s].key = rows[s].key /\ rows'[s].payload = d
      /\ \A x \in Sessions : x # s => rows'[x] = rows[x]
      /\ \A x \in Sessions : (Stored(rows'[x]) <=> Stored(rows[x])) /\ rows'[x].key = rows[x].key
  BY <1>0, WrittenRows
<1>2. /\ Sound(s, d) /\ Extends(rows[s].payload, d) /\ Request(d) = Request(rows[s].payload)
      /\ UNCHANGED <<now, maxCount, path, memory>>
  BY DEF Written
<1>3. StoresTyped'
  BY <1>0, <1>1, <1>2 DEF StoresTyped
<1>4. RowsAreSound'
  <2> SUFFICES ASSUME NEW x \in Sessions
               PROVE
        /\ rows'[x].there = "never" => memory[x] = {}
        /\ rows'[x].there = "never" \/ (Stored(rows'[x]) /\ ~ rows'[x].payload.reported) =>
               /\ memory[x] \subseteq {Plain}
               /\ \A n \in DOMAIN path : path[n].quiz # x
        /\ Stored(rows'[x]) =>
               /\ Sound(x, rows'[x].payload)
               /\ Plain \in memory[x] => rows'[x].payload.stage = 0 /\ ~ rows'[x].payload.short
    BY <1>2 DEF RowsAreSound, Sound
  <2>1. CASE x # s
    <3>1. rows'[x] = rows[x]
      BY <1>1, <2>1
    <3> QED
      BY <1>0, <3>1 DEF RowsAreSound
  <2>2. CASE x = s
    <3>1. rows'[x].there # "never" /\ rows'[x].payload = d
      BY <1>1, <2>2 DEF Stored
    <3>2. ~ d.reported => ~ rows[s].payload.reported
      BY <1>2 DEF Extends
    <3>3. d.stage = rows[s].payload.stage /\ d.short = rows[s].payload.short
      BY <1>2 DEF Request
    <3> QED
      BY <1>0, <1>1, <1>2, <2>2, <3>1, <3>2, <3>3 DEF RowsAreSound
  <2> QED
    BY <2>1, <2>2
<1>5. KeysApart'
  BY <1>1 DEF StoresAreSound, KeysApart
<1>6. StagesAreRemembered'
  <2> SUFFICES ASSUME NEW n \in DOMAIN path
               PROVE  /\ path[n].report \in memory[path[n].quiz]
                      /\ Stored(rows'[path[n].quiz]) => rows'[path[n].quiz].payload.profile
    BY <1>2 DEF StagesAreRemembered
  <2>1. path[n].quiz \in Sessions
    BY <1>0, PathEntries
  <2>2. /\ path[n].report \in memory[path[n].quiz]
        /\ Stored(rows[path[n].quiz]) => rows[path[n].quiz].payload.profile
    BY DEF StoresAreSound, StagesAreRemembered
  <2>3. rows[s].payload.profile => d.profile
    BY <1>2 DEF Extends
  <2> QED
    BY <1>1, <2>1, <2>2, <2>3
<1>7. StoredSessions' = StoredSessions
  BY <1>1 DEF StoredSessions
<1> QED
  BY <1>2, <1>3, <1>4, <1>5, <1>6, <1>7 DEF StoresAreSound

\* The writer's claim was the one that the row had.
LEMMA WrittenIsFenced ==
    ASSUME StoresTyped, NEW s, NEW d, NEW new, Written(s, d, new), NEW a \in Attempts,
           NEW phase \in Phases, rows[s].token = <<a, phase>>, new.token \in {rows[s].token, None}
    PROVE  \A b \in Attempts : b # a => Fenced(b)
<1> SUFFICES ASSUME NEW b \in Attempts, b # a, NEW x \in Sessions, NEW other \in Phases,
                    Stored(rows'[x]), rows'[x].token = <<b, other>>
             PROVE  /\ Stored(rows[x]) /\ rows[x].token = <<b, other>>
                    /\ rows'[x].payload = rows[x].payload
  BY DEF Fenced
<1>1. CASE x # s
  <2>1. rows'[x] = rows[x]
    BY <1>1, WrittenRows
  <2> QED
    BY <2>1
<1>2. CASE x = s
  <2>1. rows'[x] = new
    BY <1>2 DEF StoresTyped, Written
  <2>2. new.token = <<b, other>> /\ <<b, other>> # None /\ <<b, other>> # <<a, phase>>
    BY <2>1, TokensAreNotNone
  <2> QED
    BY <2>2
<1> QED
  BY <1>1, <1>2

\* What is said of what is stored, and of the requests.
StoresSay(verdicts) ==
    /\ \A s \in Sessions :
          /\ Stored(rows[s]) =>
                /\ rows[s].payload.stage = verdicts[s].stage
                /\ rows[s].payload.reported => rows[s].payload.grades = verdicts[s].grades
          /\ memory[s] \subseteq {verdicts[s].grades, Plain}
          /\ Plain \in memory[s] => verdicts[s].stage = 0
    /\ \A n \in DOMAIN path : verdicts[path[n].quiz] = [stage |-> n, grades |-> path[n].report]

RequestSays(verdicts, b) == Says(verdicts, req[b]) /\ (late[b] # None => Says(verdicts, late[b]))

\* Everybody agrees on the verdicts: the stores do, and the requests do.
LEMMA AllSayParts ==
    \A verdicts : AllSay(verdicts) <=>
        StoresSay(verdicts) /\ \A b \in Attempts : RequestSays(verdicts, b)
BY DEF AllSay, StoresSay, RequestSays

\* The same after a step.
LEMMA AllSayPartsThen ==
    (\A verdicts : AllSay(verdicts) <=>
        StoresSay(verdicts) /\ \A b \in Attempts : RequestSays(verdicts, b))'
BY AllSayParts, PTL

\* Verdicts everybody agrees on are a witness of the one verdict.
LEMMA VerdictIsOne ==
    \A verdicts \in Verdicts : AllSay(verdicts) => OneVerdict
BY DEF OneVerdict

\* The same after a step.
LEMMA VerdictIsOneThen == (\A verdicts \in Verdicts : AllSay(verdicts) => OneVerdict)'
BY VerdictIsOne, PTL

\* The verdict that d brings.
Verdict(verdicts, s, d) ==
    [verdicts EXCEPT ![s] =
        [stage |-> d.stage, grades |-> IF d.reported THEN d.grades ELSE verdicts[s].grades]]

\* The verdicts once an aggregate is stored: those of its report, if it has one.
LEMMA VerdictFields ==
    ASSUME NEW verdicts \in Verdicts, NEW s \in Sessions, NEW d \in Payload, NEW w,
           w = Verdict(verdicts, s, d)
    PROVE  /\ w \in Verdicts /\ w[s].stage = d.stage
           /\ w[s].grades = IF d.reported THEN d.grades ELSE verdicts[s].grades
           /\ \A x \in Sessions : x # s => w[x] = verdicts[x]
           /\ d.stage = verdicts[s].stage /\ (d.reported => d.grades = verdicts[s].grades) =>
                 w[s] = verdicts[s]
BY DEF Verdicts, Verdict, Payload

\* Whoever knows a grade of the session knows the one that it stores.
LEMMA WrittenKnown ==
    ASSUME NEW verdicts \in Verdicts, NEW s, NEW d, NEW new, Written(s, d, new), RowsAreSound,
           NEW w, w = Verdict(verdicts, s, d), NEW b, NEW r, Fine(b, r), Says(verdicts, r)
    PROVE  Says(w, r)
<1> SUFFICES ASSUME r.draft # None PROVE Says(w, r)
  BY DEF Says
<1>1. /\ s \in Sessions /\ d \in Payload /\ Stored(rows[s]) /\ Extends(rows[s].payload, d)
      /\ Request(d) = Request(rows[s].payload)
  BY DEF Written, Sound
<1>2. /\ w[s].stage = d.stage
      /\ w[s].grades = IF d.reported THEN d.grades ELSE verdicts[s].grades
      /\ \A x \in Sessions : x # s => w[x] = verdicts[x]
  BY <1>1, VerdictFields
<1>3. r.session \in Sessions /\ r.draft \in Payload /\ Valid(r.draft)
  BY DEF Fine, InHand, Sound
<1>4. CASE r.session # s
  BY <1>2, <1>3, <1>4 DEF Says
<1>5. CASE r.session = s
  <2>1. r.draft.stage = d.stage
    BY <1>1, <1>5 DEF Fine, InHand, Request
  <2>2. ASSUME Confirmed(r), r.draft.reported
        PROVE  r.draft.grades = w[s].grades
    <3>1. rows[s].payload \in Payload /\ Valid(rows[s].payload) /\ Extends(r.draft, rows[s].payload)
      BY <1>1, <1>5, <2>2 DEF Fine, InHand, RowsAreSound, Sound
    <3>2. rows[s].payload.reported /\ rows[s].payload.grades = r.draft.grades
      BY <1>3, <2>2, <3>1, ReportsAreFinal
    <3>3. d.reported /\ d.grades = rows[s].payload.grades
      BY <1>1, <3>1, <3>2, ReportsAreFinal
    <3> QED
      BY <1>2, <3>2, <3>3
  <2> QED
    BY <1>2, <1>5, <2>1, <2>2 DEF Says
<1> QED
  BY <1>4, <1>5

\* The stores agree with them.
LEMMA WrittenSays ==
    ASSUME StoresAreSound, NEW verdicts \in Verdicts, StoresSay(verdicts),
           NEW s, NEW d, NEW new, Written(s, d, new), NEW w, w = Verdict(verdicts, s, d)
    PROVE  StoresSay(w)'
<1>0. StoresTyped /\ RowsAreSound
  BY DEF StoresAreSound
<1>1. /\ s \in Sessions /\ d \in Payload /\ Stored(rows[s]) /\ Extends(rows[s].payload, d)
      /\ Request(d) = Request(rows[s].payload) /\ UNCHANGED <<path, memory>>
  BY DEF Written, Sound
<1>2. /\ w[s].stage = d.stage
      /\ w[s].grades = IF d.reported THEN d.grades ELSE verdicts[s].grades
      /\ \A x \in Sessions : x # s => w[x] = verdicts[x]
      /\ d.stage = verdicts[s].stage /\ (d.reported => d.grades = verdicts[s].grades) =>
            w[s] = verdicts[s]
  BY <1>1, VerdictFields
<1>3. /\ Stored(rows'[s]) /\ rows'[s].payload = d
      /\ \A x \in Sessions : x # s => rows'[x] = rows[x]
  BY <1>0, WrittenRows
<1>4. d.stage = verdicts[s].stage
  BY <1>1 DEF StoresSay, Request
<1>5. rows[s].payload.reported => w[s] = verdicts[s]
  <2> SUFFICES ASSUME rows[s].payload.reported PROVE w[s] = verdicts[s]
    OBVIOUS
  <2>1. rows[s].payload \in Payload /\ Valid(rows[s].payload)
    BY <1>0, <1>1 DEF RowsAreSound, Sound
  <2>2. d.grades = rows[s].payload.grades
    BY <1>1, <2>1, ReportsAreFinal
  <2>3. rows[s].payload.grades = verdicts[s].grades
    BY <1>1 DEF StoresSay
  <2> QED
    BY <1>2, <1>4, <2>2, <2>3
<1>6. ~ rows[s].payload.reported =>
          memory[s] \subseteq {Plain} /\ \A n \in DOMAIN path : path[n].quiz # s
  BY <1>0, <1>1 DEF RowsAreSound
<1>7. ASSUME NEW x \in Sessions
      PROVE  /\ Stored(rows'[x]) =>
                   /\ rows'[x].payload.stage = w[x].stage
                   /\ rows'[x].payload.reported => rows'[x].payload.grades = w[x].grades
             /\ memory[x] \subseteq {w[x].grades, Plain}
             /\ Plain \in memory[x] => w[x].stage = 0
  <2>1. /\ memory[x] \subseteq {verdicts[x].grades, Plain}
        /\ Plain \in memory[x] => verdicts[x].stage = 0
    BY DEF StoresSay
  <2>2. CASE x # s
    BY <1>2, <1>3, <2>1, <2>2 DEF StoresSay
  <2>3. CASE x = s
    BY <1>2, <1>3, <1>4, <1>5, <1>6, <2>1, <2>3
  <2> QED
    BY <2>2, <2>3
<1>8. ASSUME NEW n \in DOMAIN path
      PROVE  w[path[n].quiz] = [stage |-> n, grades |-> path[n].report]
  <2>1. path[n].quiz \in Sessions
    BY <1>0, PathEntries
  <2>2. w[path[n].quiz] = verdicts[path[n].quiz]
    BY <1>2, <1>5, <1>6, <2>1
  <2> QED
    BY <2>2 DEF StoresSay
<1> QED
  BY <1>1, <1>7, <1>8 DEF StoresSay

\* A step of one request that stores an aggregate keeps the invariant.
LEMMA WrittenStep ==
    ASSUME IInv, NEW s, NEW d, NEW new, Written(s, d, new), NEW a \in Attempts, OthersSame(a),
           RequestsTyped', Typed /\ Typed' => Proper(a)', late'[a] = None,
           NEW n, n = req'[a],
           n = req[a] \/ (n.draft # None => n.session = s /\ n.draft = d)
    PROVE  IInv' /\ Onward
<1>1. StoresAreSound /\ StoresTyped /\ RequestsTyped /\ OneVerdict /\ Typed
      /\ RowsAreSound /\ \A b \in Attempts : Proper(b)
  BY InvParts, TypedParts DEF StoresAreSound
<1>2. PICK verdicts \in Verdicts : AllSay(verdicts)
  BY <1>1 DEF OneVerdict
<1>3. StoresSay(verdicts) /\ \A b \in Attempts : RequestSays(verdicts, b)
  BY <1>2, AllSayParts
<1>4. PICK w : w = Verdict(verdicts, s, d)
  OBVIOUS
<1>5. StoresSay(w)'
  BY <1>1, <1>3, <1>4, WrittenSays
<1>6. \A b \in Attempts : /\ Says(w, req[b]) /\ (late[b] # None => Says(w, late[b]))
  BY <1>1, <1>3, <1>4, WrittenKnown DEF RequestSays, Proper
<1>7. /\ s \in Sessions /\ d \in Payload
  BY DEF Written, Sound
<1>8. /\ w \in Verdicts /\ w[s].stage = d.stage /\ (d.reported => w[s].grades = d.grades)
  BY <1>4, <1>7, VerdictFields
<1>9. Says(w, n)
  <2>1. CASE n = req[a]
    BY <1>6, <2>1
  <2>2. CASE n.draft # None => n.session = s /\ n.draft = d
    BY <1>8, <2>2 DEF Says
  <2> QED
    BY <2>1, <2>2
<1>10. \A b \in Attempts : RequestSays(w, b)'
  BY <1>6, <1>9 DEF RequestSays, OthersSame
<1>11. OneVerdict'
  BY <1>5, <1>8, <1>10, AllSayPartsThen, VerdictIsOneThen DEF Verdicts
<1>12. StoresAreSound' /\ Onward
  BY <1>1, WrittenStores, WrittenIsOnward
<1> QED
  BY <1>11, <1>12, AnyStep

\* What a write that is confirmed does to the row.
LEMMA CheckpointedRows ==
    ASSUME NEW row \in Row, NEW token, NEW d \in Payload, NEW t \in Nat, Holds(row, token, d, t),
           NEW new, new = CheckpointRow(row, token, d, t)
    PROVE  /\ new \in Row /\ new.there = row.there /\ new.key = row.key /\ new.payload = d
           /\ new.token = row.token
<1>1. t + LeaseSeconds \in Nat
  BY LeaseAssumption
<1>2. new = [row EXCEPT !.payload = d, !.lease = t + LeaseSeconds]
  BY DEF CheckpointRow
<1> QED
  BY <1>1, <1>2 DEF Row

\* A lease that ends leaves the row as it is.
LEMMA EndedRows ==
    ASSUME NEW x \in Row, NEW e \in Nat, NEW new, new = [x EXCEPT !.lease = 0, !.expires = e]
    PROVE  /\ new \in Row /\ new.there = x.there /\ new.key = x.key /\ new.payload = x.payload
           /\ new.token = x.token
BY DEF Row

\* A completed row stores the draft and has no token.
LEMMA CompletedRows ==
    ASSUME NEW row \in Row, NEW token, NEW d \in Payload, NEW t \in Nat, Holds(row, token, d, t),
           NEW new, new = CompleteRow(row, token, d, t)
    PROVE  /\ new \in Row /\ new.there = row.there /\ new.key = row.key /\ new.payload = d
           /\ new.token = None
<1>1. PICK e \in Nat : e = t + TtlSeconds
  BY TtlAssumption
<1>2. PICK x : x = [row EXCEPT !.payload = d, !.token = None]
  OBVIOUS
<1>3. /\ x \in Row /\ x.there = row.there /\ x.key = row.key /\ x.payload = d /\ x.token = None
  BY <1>2 DEF Row
<1>4. new = [x EXCEPT !.lease = 0, !.expires = e]
  BY <1>1, <1>2 DEF CompleteRow
<1>5. /\ new \in Row /\ new.there = x.there /\ new.key = x.key /\ new.payload = x.payload
      /\ new.token = x.token
  BY <1>1, <1>3, <1>4, EndedRows
<1> QED
  BY <1>3, <1>5

\* A write that holds is by the owner of the token, of a draft that goes on.
LEMMA HeldRows ==
    ASSUME Typed, NEW a \in Attempts, NEW r \in Requests, AtWork(a, r), NEW s, s = r.session,
           NEW d, d = r.draft, NEW t, Holds(rows[s], Token(a, r), d, t)
    PROVE  /\ s \in Sessions /\ rows[s] \in Row /\ Stored(rows[s]) /\ d \in Payload
           /\ rows[s].token = <<a, r.phase>> /\ r.phase \in Phases
           /\ Sound(s, d) /\ Extends(rows[s].payload, d) /\ Request(d) = Request(rows[s].payload)
<1>1. s \in Sessions /\ rows[s] \in Row /\ r.phase \in Phases /\ Token(a, r) = <<a, r.phase>>
  BY AskedRows DEF AtWork
<1>2. Stored(rows[s]) /\ rows[s].token = Token(a, r) /\ Request(rows[s].payload) = Request(d)
  BY DEF Holds
<1>3. Sound(s, d) /\ Extends(rows[s].payload, d) /\ d \in Payload
  BY <1>1, <1>2 DEF AtWork, Carries, Owns, Sound
<1> QED
  BY <1>1, <1>2, <1>3

\* A checkpoint that holds is such a write.
LEMMA HeldByCheckpoint ==
    ASSUME Typed, NEW a \in Attempts, NEW r \in Requests, AtWork(a, r), NEW s, s = r.session,
           NEW d, d = r.draft, NEW t \in Nat, Holds(rows[s], Token(a, r), d, t), NEW new,
           new = CheckpointRow(rows[s], Token(a, r), d, t),
           rows' = [rows EXCEPT ![s] = new], UNCHANGED <<now, maxCount, path, memory>>
    PROVE  /\ Written(s, d, new) /\ new.token \in {rows[s].token, None}
           /\ rows[s].token = <<a, r.phase>> /\ r.phase \in Phases /\ s \in Sessions
<1>1. /\ s \in Sessions /\ rows[s] \in Row /\ Stored(rows[s]) /\ d \in Payload
      /\ rows[s].token = <<a, r.phase>> /\ r.phase \in Phases
      /\ Sound(s, d) /\ Extends(rows[s].payload, d) /\ Request(d) = Request(rows[s].payload)
  BY HeldRows
<1>2. /\ new \in Row /\ new.there = rows[s].there /\ new.key = rows[s].key /\ new.payload = d
      /\ new.token = rows[s].token
  BY <1>1, CheckpointedRows
<1> QED
  BY <1>1, <1>2 DEF Written, Stored

\* A completion that holds is such a write, and gives the token up.
LEMMA HeldByComplete ==
    ASSUME Typed, NEW a \in Attempts, NEW r \in Requests, AtWork(a, r), NEW s, s = r.session,
           NEW d, d = r.draft, NEW t \in Nat, Holds(rows[s], Token(a, r), d, t), NEW new,
           new = CompleteRow(rows[s], Token(a, r), d, t),
           rows' = [rows EXCEPT ![s] = new], UNCHANGED <<now, maxCount, path, memory>>
    PROVE  /\ Written(s, d, new) /\ new.token \in {None}
           /\ rows[s].token = <<a, r.phase>> /\ r.phase \in Phases /\ s \in Sessions
<1>1. /\ s \in Sessions /\ rows[s] \in Row /\ Stored(rows[s]) /\ d \in Payload
      /\ rows[s].token = <<a, r.phase>> /\ r.phase \in Phases
      /\ Sound(s, d) /\ Extends(rows[s].payload, d) /\ Request(d) = Request(rows[s].payload)
  BY HeldRows
<1>2. /\ new \in Row /\ new.there = rows[s].there /\ new.key = rows[s].key /\ new.payload = d
      /\ new.token = None
  BY <1>1, CompletedRows
<1> QED
  BY <1>1, <1>2 DEF Written, Stored

\* After a write its request works on, with what it wrote.
LEMMA RecordedIsFine ==
    ASSUME Typed, StoresTyped, NEW a \in Attempts, NEW r \in Requests, Asks(r), NEW s, s = r.session,
           NEW d, NEW new, Written(s, d, new), NEW n \in Requests, SameRequest(r, n),
           n.since <= now, n.draft = d, n.pc \in Working, Graded(n),
           n.pc \in {"exact", "provider", "learn"} => n.phase = "main" /\ n.kind \in Grading
    PROVE  Fine(a, n)'
<1>1. /\ s \in Sessions /\ Stored(rows'[s]) /\ rows'[s].payload = d /\ rows'[s].there = "stored"
  BY WrittenRows DEF Stored
<1>2. Sound(s, d) /\ UNCHANGED <<now, path, memory>> /\ d \in Payload
  BY DEF Written, Sound
<1>3. Sound(s, d)'
  BY <1>2 DEF Sound
<1>4. Extends(d, d) /\ d # None
  BY <1>2, ExtendsItself, NoneAssumption
<1>5. Asks(n)' /\ n.session = s
  BY <1>1 DEF Asks, SameRequest
<1>6. Carries(n, n.draft)' /\ Owns(a, n, n.draft)' /\ Shows(n, n.draft)'
  BY <1>1, <1>3, <1>4, <1>5 DEF Carries, Owns, Shows
<1>7. AtWork(a, n)'
  BY <1>2, <1>4, <1>5, <1>6 DEF AtWork, Graded, Confirmed
<1> QED
  BY <1>7, WorkIsFineThen

\* What a request has in hand after its checkpoint.
LEMMA AfterCheckpointIsFine ==
    ASSUME Typed, StoresTyped, NEW a \in Attempts, Proper(a), NEW r \in Requests, r = req[a],
           r.pc = "checkpoint", NEW s, s = r.session, NEW d, d = r.draft, NEW new, Written(s, d, new),
           NEW n, n = AfterCheckpoint(r)
    PROVE  /\ n \in Requests /\ (Typed' => Fine(a, n)') /\ n.pc \in Working \cup {"release"} /\ n.session = s
           /\ n.phase = r.phase /\ n.draft = d
<1>1. AtWork(a, r) /\ d \in Payload
  BY FineIsAtWork DEF Proper, Working
<1>2. Asks(r) /\ d # None /\ r.phase \in Phases /\ Carries(r, d)
  BY <1>1 DEF AtWork, Requests
<1>3. /\ r.phase # "memory" /\ r.after \in {"provider", "failed", "graded"}
      /\ r.phase = "main" => r.kind \in Grading
      /\ r.phase = "path" => r.after = "graded"
      /\ IF r.after = "graded" THEN d.reported ELSE Completed(d)
  BY <1>1 DEF AtWork, Graded
<1>4. d.reported => Completed(d)
  BY <1>2 DEF Carries, Sound, Valid
<1> DEFINE m == Carry(r, r.phase, d, None)
<1>5. [r EXCEPT !.after = None] = m
  BY CarryForms
<1>6. None \in Afters /\ d \in Payload \cup {None}
  BY <1>1 DEF Afters
<1>7. CASE r.after = "graded"
  <2> DEFINE where == AfterGrading(r, d)
  <2>1. n = At(m, where)
    BY <1>5, <1>7 DEF AfterCheckpoint
  <2>2. where \in Places
    BY DEF AfterGrading, Places, Calls
  <2> HIDE DEF m
  <2>3. /\ n \in Requests /\ n.pc = where /\ SameRequest(r, n) /\ n.since <= now
        /\ n.phase = r.phase /\ n.draft = d
    BY <1>2, <1>6, <2>1, <2>2, GoesWith DEF m
  <2>4. r.phase \in {"main", "path"}
    BY <1>2, <1>3 DEF Phases
  <2>5. /\ n.pc \in {"memory", "stage", "learn", "complete"} /\ Graded(n)
        /\ n.pc = "learn" => n.phase = "main" /\ n.kind \in Grading
    BY <1>3, <1>4, <1>7, <2>3, <2>4, GradedWork
  <2>6. n.pc \in Working /\ n.pc \notin {"exact", "provider"}
    BY <2>5 DEF Working
  <2>7. Fine(a, n)'
    BY <1>2, <2>3, <2>5, <2>6, RecordedIsFine
  <2> QED
    BY <2>3, <2>6, <2>7 DEF SameRequest
<1>8. CASE r.after = "provider"
  <2>1. n = At(m, "provider")
    BY <1>5, <1>8 DEF AfterCheckpoint
  <2>2. "provider" \in Places /\ "provider" \in Working
    BY DEF Places, Working
  <2> HIDE DEF m
  <2>3. /\ n \in Requests /\ n.pc = "provider" /\ SameRequest(r, n) /\ n.since <= now
        /\ n.phase = r.phase /\ n.draft = d
    BY <1>2, <1>6, <2>1, <2>2, GoesWith DEF m
  <2>4. r.phase = "main" /\ r.kind \in Grading /\ Completed(d)
    BY <1>2, <1>3, <1>8 DEF Phases
  <2>5. Graded(n)
    BY <2>3, <2>4 DEF Graded
  <2>6. n.phase = "main" /\ n.kind \in Grading
    BY <2>3, <2>4 DEF SameRequest
  <2>7. Fine(a, n)'
    BY <1>2, <2>2, <2>3, <2>5, <2>6, RecordedIsFine
  <2> QED
    BY <2>2, <2>3, <2>7 DEF SameRequest
<1>9. CASE r.after = "failed"
  <2>1. n = Ending(r, "failed")
    BY <1>9 DEF AfterCheckpoint
  <2>2. n \in Requests /\ Fine(a, n)
    BY <1>2, <2>1, EndingIsFine
  <2>3. n.pc = "release" /\ SameRequest(r, n) /\ n.phase = r.phase /\ n.draft = d
    BY <2>1, EndingFields DEF Afters
  <2>4. Onward
    BY WrittenIsOnward
  <2>5. Typed' => Fine(a, n)'
    BY <2>2, <2>3, <2>4, FineStays DEF Working
  <2> QED
    BY <2>2, <2>3, <2>5 DEF SameRequest
<1> QED
  BY <1>3, <1>7, <1>8, <1>9

\* What a request has in hand once it repairs the outbox, after a step.
LEMMA RepairedIsFineThen ==
    (\A a \in Attempts, r \in Requests, p \in Payload :
        Typed /\ Asks(r) /\ Shows(r, p) /\ (r.kind \in Grading => p.reported)
        => Repaired(r, p) \in Requests /\ Fine(a, Repaired(r, p)))'
BY RepairedIsFine, PTL

\* It depends on the stores by the time of the request alone.
LEMMA RepairedIsSteady ==
    ASSUME NEW r, NEW p, now' = now
    PROVE  Repaired(r, p)' = Repaired(r, p)
BY DEF Repaired, At, Answered, Gone, Idle

\* What a request has in hand after its completion.
LEMMA AfterCompleteIsFine ==
    ASSUME Typed, StoresTyped, NEW a \in Attempts, Proper(a), NEW r \in Requests, r = req[a],
           r.pc = "complete", NEW s, s = r.session, NEW d, d = r.draft, NEW new, Written(s, d, new),
           NEW n, n = Repaired(r, d)
    PROVE  /\ n \in Requests /\ (Typed' => Fine(a, n)') /\ n.pc \in {"claim", "over"} /\ Found(n)'
           /\ n.draft # None => n.session = s /\ n.draft = d
<1>1. AtWork(a, r) /\ d \in Payload
  BY FineIsAtWork DEF Proper, Working
<1>2. Asks(r) /\ d # None /\ (r.kind \in Grading => d.reported)
  BY <1>1 DEF AtWork, Graded
<1>3. s \in Sessions /\ Stored(rows'[s]) /\ rows'[s].payload = d /\ rows'[s].there = "stored"
  BY WrittenRows DEF Stored
<1>4. Sound(s, d)' /\ now' = now /\ Extends(d, d)
  BY <1>1, ExtendsItself DEF Written, Sound
<1>5. Asks(r)' /\ Shows(r, d)'
  BY <1>2, <1>3, <1>4 DEF Asks, Shows, Carries
<1>6. n \in Requests /\ (Typed' => Fine(a, n)')
  <2>1. Repaired(r, d)' = n
    BY <1>4, RepairedIsSteady
  <2>2. Typed' => Fine(a, Repaired(r, d))'
    BY <1>1, <1>2, <1>5, RepairedIsFineThen DEF Requests, Payload
  <2>3. n \in Requests
    BY <1>1, RepairedFields
  <2> QED
    BY <2>1, <2>2, <2>3
<1>7. \/ n.pc = "claim" /\ SameRequest(r, n) /\ n.draft = d
      \/ /\ n.pc = "over" /\ r.kind \in {"start", "grade", "report"} /\ n.kind = r.kind
         /\ n.session = r.session /\ n.draft = d
      \/ n = Gone
  BY <1>1, RepairedFields
<1>8. n.pc \in {"claim", "over"} /\ (n.draft # None => n.session = s /\ n.draft = d)
  BY <1>7, GoneFields DEF SameRequest
<1>9. Found(n)'
  BY <1>2, <1>7, GoneFields, NoneAssumption DEF Found, Asks, Grading
<1> QED
  BY <1>6, <1>8, <1>9

\* The tokens of a writer, once its write is confirmed.
LEMMA WriterTokens ==
    ASSUME StoresTyped, NEW a \in Attempts, Proper(a), NEW r \in Requests, r = req[a],
           r.pc \in Working, NEW s, s = r.session, NEW d, NEW new, Written(s, d, new),
           NEW n \in Requests, n.pc \in Working \cup {"release"} \/ new.token = None,
           n.pc \in Working \cup {"release"} => n.session = s /\ n.phase = r.phase,
           new.token \in {rows[s].token, None},
           NEW x \in Sessions, NEW phase \in Phases, Stored(rows'[x]), rows'[x].token = <<a, phase>>
    PROVE  Claims(n, x, phase)
<1>1. s \in Sessions /\ Stored(rows[s]) /\ rows'[s] = new
  BY DEF Written, StoresTyped
<1>2. ASSUME Stored(rows[x]), rows[x].token = <<a, phase>>
      PROVE  x = s /\ phase = r.phase
  <2>1. Claims(r, x, phase)
    BY <1>2 DEF Proper, TokensOf
  <2> QED
    BY <2>1 DEF Claims, Working
<1>3. <<a, phase>> # None
  BY TokensAreNotNone
<1>4. Stored(rows[x]) /\ rows[x].token = <<a, phase>> /\ (x = s => new.token # None)
  <2>1. CASE x = s
    BY <1>1, <1>3, <2>1
  <2>2. CASE x # s
    BY <2>2, WrittenRows
  <2> QED
    BY <2>1, <2>2
<1>5. x = s /\ phase = r.phase
  BY <1>2, <1>4
<1> QED
  BY <1>4, <1>5 DEF Claims

\* A checkpoint keeps the invariant, whether it holds or is lost.
LEMMA CheckpointStep ==
    ASSUME IInv, NEW a \in Attempts, Checkpoint(a)
    PROVE  IInv' /\ Onward
<1>1. StoresTyped /\ RequestsTyped /\ Proper(a) /\ RowsAreSound /\ Typed
  BY InvParts, TypedParts DEF StoresAreSound
<1>2. PICK r \in Requests : r = req[a]
  BY <1>1 DEF RequestsTyped
<1>3. PICK t \in Instants(r) :
          /\ SetRow(r, CheckpointRow(rows[r.session], Token(a, r), r.draft, t))
          /\ Go(a, IF Holds(rows[r.session], Token(a, r), r.draft, t)
                   THEN AfterCheckpoint(r) ELSE Lost(r))
  BY <1>2 DEF Checkpoint
<1>4. r.pc = "checkpoint" /\ UNCHANGED <<now, maxCount, path, memory, late>>
  BY <1>2 DEF Checkpoint
<1>5. AtWork(a, r) /\ Asks(r)
  BY <1>1, <1>2, <1>4, FineIsAtWork DEF Proper, Working, AtWork
<1>6. t \in Nat /\ r.session \in Sessions
  BY <1>1, <1>5, AskedRows
<1>7. CASE ~ Holds(rows[r.session], Token(a, r), r.draft, t)
  <2>1. rows' = rows
    BY <1>1, <1>3, <1>6, <1>7 DEF SetRow, CheckpointRow, StoresTyped
  <2>2. Go(a, Lost(r)) /\ Still
    BY <1>3, <1>4, <1>7, <2>1 DEF Still
  <2> QED
    BY <1>2, <1>4, <2>2, LostStep
<1>8. CASE Holds(rows[r.session], Token(a, r), r.draft, t)
  <2>1. PICK s, d, new : /\ s = r.session /\ d = r.draft
                         /\ new = CheckpointRow(rows[s], Token(a, r), d, t)
    OBVIOUS
  <2>2. PICK n : n = AfterCheckpoint(r)
    OBVIOUS
  <2>3. /\ Written(s, d, new) /\ new.token \in {rows[s].token, None}
        /\ rows[s].token = <<a, r.phase>> /\ r.phase \in Phases /\ s \in Sessions
    BY <1>1, <1>3, <1>4, <1>5, <1>6, <1>8, <2>1, HeldByCheckpoint DEF SetRow
  <2>4. late[a] = None
    BY <1>1, <1>2, <1>4 DEF Proper, Left
  <2>5. /\ n \in Requests /\ (Typed' => Fine(a, n)') /\ n.pc \in Working \cup {"release"}
        /\ n.session = s /\ n.phase = r.phase /\ n.draft = d
    BY <1>1, <1>2, <1>4, <2>1, <2>2, <2>3, AfterCheckpointIsFine
  <2>6. /\ RequestsTyped' /\ req'[a] = n /\ late'[a] = None
        /\ \A b \in Attempts : b # a => req'[b] = req[b] /\ late'[b] = late[b]
    BY <1>1, <1>3, <1>4, <1>8, <2>2, <2>4, <2>5 DEF Go, RequestsTyped
  <2>7. OthersSame(a)
    <3>1. \A b \in Attempts : b # a => Fenced(b)
      BY <1>1, <2>3, WrittenIsFenced
    <3> QED
      BY <2>6, <3>1 DEF OthersSame
  <2>8. Typed' => Proper(a)'
    <3>1. Found(n)'
      BY <2>5 DEF Found, Working
    <3>2. r.pc \in Working
      BY <1>4 DEF Working
    <3>3. \A x \in Sessions, phase \in Phases :
              Stored(rows'[x]) /\ rows'[x].token = <<a, phase>> => Claims(n, x, phase)
      BY <1>1, <1>2, <2>1, <2>3, <2>5, <3>2, WriterTokens
    <3> QED
      BY <2>5, <2>6, <3>1, <3>3, NowProper
  <2> QED
    BY <2>3, <2>5, <2>6, <2>7, <2>8, WrittenStep
<1> QED
  BY <1>7, <1>8

\* So does a completion.
LEMMA CompleteStep ==
    ASSUME IInv, NEW a \in Attempts, Complete(a)
    PROVE  IInv' /\ Onward
<1>1. StoresTyped /\ RequestsTyped /\ Proper(a) /\ RowsAreSound /\ Typed
  BY InvParts, TypedParts DEF StoresAreSound
<1>2. PICK r \in Requests : r = req[a]
  BY <1>1 DEF RequestsTyped
<1>3. PICK t \in Instants(r) :
          /\ SetRow(r, CompleteRow(rows[r.session], Token(a, r), r.draft, t))
          /\ Go(a, IF Holds(rows[r.session], Token(a, r), r.draft, t)
                   THEN Repaired(r, r.draft) ELSE Lost(r))
  BY <1>2 DEF Complete
<1>4. r.pc = "complete" /\ UNCHANGED <<now, maxCount, path, memory, late>>
  BY <1>2 DEF Complete
<1>5. AtWork(a, r) /\ Asks(r)
  BY <1>1, <1>2, <1>4, FineIsAtWork DEF Proper, Working, AtWork
<1>6. t \in Nat /\ r.session \in Sessions
  BY <1>1, <1>5, AskedRows
<1>7. CASE ~ Holds(rows[r.session], Token(a, r), r.draft, t)
  <2>1. rows' = rows
    BY <1>1, <1>3, <1>6, <1>7 DEF SetRow, CompleteRow, StoresTyped
  <2>2. Go(a, Lost(r)) /\ Still
    BY <1>3, <1>4, <1>7, <2>1 DEF Still
  <2> QED
    BY <1>2, <1>4, <2>2, LostStep
<1>8. CASE Holds(rows[r.session], Token(a, r), r.draft, t)
  <2>1. PICK s, d, new : /\ s = r.session /\ d = r.draft
                         /\ new = CompleteRow(rows[s], Token(a, r), d, t)
    OBVIOUS
  <2>2. PICK n : n = Repaired(r, d)
    OBVIOUS
  <2>3. /\ Written(s, d, new) /\ new.token \in {None}
        /\ rows[s].token = <<a, r.phase>> /\ r.phase \in Phases /\ s \in Sessions
    <3>1. /\ rows' = [rows EXCEPT ![s] = new] /\ UNCHANGED <<now, maxCount, path, memory>>
          /\ Holds(rows[s], Token(a, r), d, t)
      BY <1>3, <1>4, <1>8, <2>1 DEF SetRow
    <3> QED
      BY <1>1, <1>5, <1>6, <2>1, <3>1, HeldByComplete
  <2>4. late[a] = None
    BY <1>1, <1>2, <1>4 DEF Proper, Left
  <2>5. /\ n \in Requests /\ (Typed' => Fine(a, n)') /\ n.pc \in {"claim", "over"} /\ Found(n)'
        /\ n.draft # None => n.session = s /\ n.draft = d
    BY <1>1, <1>2, <1>4, <2>1, <2>2, <2>3, AfterCompleteIsFine
  <2>6. /\ RequestsTyped' /\ req'[a] = n /\ late'[a] = None
        /\ \A b \in Attempts : b # a => req'[b] = req[b] /\ late'[b] = late[b]
    BY <1>1, <1>3, <1>4, <1>8, <2>1, <2>2, <2>4, <2>5 DEF Go, RequestsTyped
  <2>7. OthersSame(a)
    <3>1. \A b \in Attempts : b # a => Fenced(b)
      BY <1>1, <2>3, WrittenIsFenced
    <3> QED
      BY <2>6, <3>1 DEF OthersSame
  <2>8. Typed' => Proper(a)'
    <3>1. r.pc \in Working /\ n.pc \notin Working \cup {"release"}
      BY <1>4, <2>5 DEF Working
    <3>2. \A x \in Sessions, phase \in Phases :
              Stored(rows'[x]) /\ rows'[x].token = <<a, phase>> => Claims(n, x, phase)
      BY <1>1, <1>2, <2>1, <2>3, <2>5, <3>1, WriterTokens
    <3> QED
      BY <2>5, <2>6, <3>2, NowProper
  <2> QED
    BY <2>3, <2>5, <2>6, <2>7, <2>8, WrittenStep
<1> QED
  BY <1>7, <1>8

\* A thread that was left behind writes, if the claim is still its own.
LEMMA LateWriteStep ==
    ASSUME IInv, NEW a \in Attempts, LateThread(a), late[a].pc \in {"checkpoint", "complete"}
    PROVE  IInv' /\ Onward
<1>1. StoresTyped /\ RequestsTyped /\ Proper(a) /\ RowsAreSound /\ Typed
  BY InvParts, TypedParts DEF StoresAreSound
<1>2. late[a] # None
  BY DEF LateThread
<1>3. PICK l \in Requests : l = late[a]
  BY <1>1, <1>2 DEF RequestsTyped
<1>4. PICK s, d, t, new : /\ s = l.session /\ d = l.draft /\ t = l.since /\ new = LateRow(a, l)
  OBVIOUS
<1>5. /\ rows' = [rows EXCEPT ![s] = new] /\ UNCHANGED <<now, maxCount, path, memory, req>>
      /\ late' = [late EXCEPT ![a] = None]
  BY <1>3, <1>4 DEF LateThread, SetRow
<1>6. \/ new = CheckpointRow(rows[s], Token(a, l), d, t)
      \/ new = CompleteRow(rows[s], Token(a, l), d, t)
  BY <1>3, <1>4 DEF LateRow
<1>7. AtWork(a, l) /\ Asks(l) /\ t \in Nat
  BY <1>1, <1>2, <1>3, <1>4, FineIsAtWork DEF Proper, Working, AtWork, Requests
<1>8. s \in Sessions
  BY <1>1, <1>4, <1>7, AskedRows
<1>9. CASE ~ Holds(rows[s], Token(a, l), d, t)
  <2>1. rows' = rows
    BY <1>1, <1>5, <1>6, <1>8, <1>9 DEF CheckpointRow, CompleteRow, StoresTyped
  <2>2. Still
    BY <1>5, <2>1 DEF Still
  <2> QED
    BY <1>2, <1>5, <2>2, LateQuietStep
<1>10. CASE Holds(rows[s], Token(a, l), d, t)
  <2>1. /\ Written(s, d, new) /\ new.token \in {rows[s].token, None}
        /\ rows[s].token = <<a, l.phase>> /\ l.phase \in Phases /\ s \in Sessions
    <3>1. CASE new = CheckpointRow(rows[s], Token(a, l), d, t)
      <4>1. s = l.session /\ d = l.draft
        BY <1>4
      <4>2. rows' = [rows EXCEPT ![s] = new] /\ UNCHANGED <<now, maxCount, path, memory>>
        BY <1>5
      <4> QED
        BY <1>1, <1>7, <1>10, <3>1, <4>1, <4>2, HeldByCheckpoint
    <3>2. CASE new = CompleteRow(rows[s], Token(a, l), d, t)
      <4>1. s = l.session /\ d = l.draft
        BY <1>4
      <4>2. rows' = [rows EXCEPT ![s] = new] /\ UNCHANGED <<now, maxCount, path, memory>>
        BY <1>5
      <4>3. /\ Written(s, d, new) /\ new.token \in {None}
            /\ rows[s].token = <<a, l.phase>> /\ l.phase \in Phases /\ s \in Sessions
        BY <1>1, <1>7, <1>10, <3>2, <4>1, <4>2, HeldByComplete
      <4> QED
        BY <4>3
    <3> QED
      BY <1>6, <3>1, <3>2
  <2>2. /\ RequestsTyped' /\ req' = req /\ late'[a] = None
        /\ \A b \in Attempts : b # a => late'[b] = late[b]
    BY <1>1, <1>5 DEF RequestsTyped
  <2>3. OthersSame(a)
    <3>1. \A b \in Attempts : b # a => Fenced(b)
      BY <1>1, <2>1, WrittenIsFenced
    <3> QED
      BY <2>2, <3>1 DEF OthersSame
  <2>4. \A x \in Sessions, phase \in Phases :
            Stored(rows'[x]) /\ rows'[x].token = <<a, phase>> =>
                Stored(rows[x]) /\ rows[x].token = <<a, phase>>
    <3> SUFFICES ASSUME NEW x \in Sessions, NEW phase \in Phases,
                        Stored(rows'[x]), rows'[x].token = <<a, phase>>
                 PROVE  Stored(rows[x]) /\ rows[x].token = <<a, phase>>
      OBVIOUS
    <3>1. CASE x = s
      <4>1. rows'[x] = new /\ Stored(rows[x])
        BY <1>1, <1>5, <2>1, <3>1 DEF StoresTyped, Written
      <4> QED
        BY <2>1, <3>1, <4>1, TokensAreNotNone
    <3>2. CASE x # s
      BY <1>1, <2>1, <3>2, WrittenRows
    <3> QED
      BY <3>1, <3>2
  <2>5. Typed' => Proper(a)'
    <3>1. Onward
      BY <1>1, <2>1, WrittenIsOnward
    <3> QED
      BY <1>1, <1>2, <2>2, <2>4, <3>1, LateIsProper
  <2> QED
    BY <2>1, <2>2, <2>3, <2>5, WrittenStep
<1> QED
  BY <1>9, <1>10

-----------------------------------------------------------------------------
(***************************************************************************)
(* What reaches the learner's memory and the learning path                 *)
(***************************************************************************)

\* A step of request a, or of its thread, that leaves the rows alone.
LEMMA SharedStep ==
    ASSUME IInv, StoresAreSound', Onward, UNCHANGED <<now, maxCount, rows>>, NEW a \in Attempts,
           \A b \in Attempts : b # a => req'[b] = req[b] /\ late'[b] = late[b],
           RequestsTyped', Typed /\ Typed' => Proper(a)', late'[a] = None, NEW n, n = req'[a],
           NEW verdicts \in Verdicts, AllSay(verdicts), StoresSay(verdicts)', Says(verdicts, n)
    PROVE  IInv' /\ Onward
<1>1. StoresTyped /\ RequestsTyped /\ Typed
  BY InvParts, TypedParts DEF StoresAreSound
<1>2. OthersSame(a)
  BY DEF OthersSame, Fenced
<1>3. \A b \in Attempts : RequestSays(verdicts, b)
  BY AllSayParts
<1>4. \A b \in Attempts : RequestSays(verdicts, b)'
  BY <1>3 DEF RequestSays
<1>5. OneVerdict'
  BY <1>4, AllSayPartsThen, VerdictIsOneThen DEF Verdicts
<1> QED
  BY <1>2, <1>5, AnyStep

\* The report of aggregate d of session s is committed to memory.
Remembered(s, d) ==
    /\ s \in Sessions /\ rows[s].there # "never" /\ Sound(s, d)
    /\ Stored(rows[s]) => Extends(d, rows[s].payload) /\ Request(d) = Request(rows[s].payload)
    /\ d.reported \/ (d.stage = 0 /\ ~ d.short)
    /\ memory' = [memory EXCEPT ![s] = @ \cup {Report(d)}]
    /\ UNCHANGED <<now, maxCount, rows, path>>

\* The report memory is given is the stored one, or a plain one without grades.
LEMMA Reports ==
    ASSUME NEW d \in Payload
    PROVE  /\ Report(d) \in [Questions -> Grades] \cup {Plain}
           /\ d.reported => Report(d) = d.grades /\ Report(d) # Plain
           /\ ~ d.reported => Report(d) = Plain
<1>1. d.grades \in [Questions -> Grades]
  BY DEF Payload
<1> QED
  BY <1>1, ReportsAreNotPlain DEF Report, Plain

\* A report that is remembered is added to the memory of its quiz.
LEMMA RememberedMemory ==
    ASSUME StoresTyped, NEW s, NEW d, Remembered(s, d)
    PROVE  /\ memory' \in [Sessions -> SUBSET ([Questions -> Grades] \cup {Plain})]
           /\ memory'[s] = memory[s] \cup {Report(d)}
           /\ \A x \in Sessions : x # s => memory'[x] = memory[x]
           /\ \A x \in Sessions : memory[x] \subseteq memory'[x]
<1>1. d \in Payload /\ s \in Sessions
  BY DEF Remembered, Sound
<1>2. Report(d) \in [Questions -> Grades] \cup {Plain}
  BY <1>1, Reports
<1>3. memory \in [Sessions -> SUBSET ([Questions -> Grades] \cup {Plain})]
  BY DEF StoresTyped
<1>4. PICK g : g = Report(d)
  OBVIOUS
<1>5. memory' = [memory EXCEPT ![s] = @ \cup {g}]
  BY <1>4 DEF Remembered
<1> HIDE DEF Plain
<1> QED
  BY <1>1, <1>2, <1>3, <1>4, <1>5

\* Remembering takes nothing back.
LEMMA RememberedIsOnward ==
    ASSUME Typed, StoresTyped, NEW s, NEW d, Remembered(s, d)
    PROVE  Onward
<1>1. \A x \in Sessions : memory[x] \subseteq memory'[x]
  BY RememberedMemory
<1>2. \A x \in Sessions : Grows(rows[x], rows[x])
  BY ExtendsItself DEF Grows, Typed
<1> QED
  BY <1>1, <1>2 DEF Onward, Remembered, Typed

\* Remembering the report of a sound aggregate leaves the stores sound.
LEMMA RememberedStores ==
    ASSUME StoresAreSound, NEW s, NEW d, Remembered(s, d)
    PROVE  StoresAreSound'
<1>0. StoresTyped /\ RowsAreSound
  BY DEF StoresAreSound
<1>1. /\ memory' \in [Sessions -> SUBSET ([Questions -> Grades] \cup {Plain})]
      /\ memory'[s] = memory[s] \cup {Report(d)}
      /\ \A x \in Sessions : x # s => memory'[x] = memory[x]
      /\ \A x \in Sessions : memory[x] \subseteq memory'[x]
  BY <1>0, RememberedMemory
<1>2. /\ s \in Sessions /\ rows[s].there # "never" /\ d \in Payload
      /\ Stored(rows[s]) => Extends(d, rows[s].payload) /\ Request(d) = Request(rows[s].payload)
      /\ d.reported \/ (d.stage = 0 /\ ~ d.short)
      /\ UNCHANGED <<now, maxCount, rows, path>>
  BY DEF Remembered, Sound
<1>3. StoresTyped'
  BY <1>0, <1>1, <1>2 DEF StoresTyped
<1>4. ASSUME NEW x \in Sessions, NEW p, Sound(x, p)
      PROVE  Sound(x, p)'
  BY <1>1, <1>2, <1>4 DEF Sound
<1>5. RowsAreSound'
  <2> SUFFICES ASSUME NEW x \in Sessions
               PROVE
        /\ rows[x].there = "never" => memory'[x] = {}
        /\ rows[x].there = "never" \/ (Stored(rows[x]) /\ ~ rows[x].payload.reported) =>
               /\ memory'[x] \subseteq {Plain}
               /\ \A n \in DOMAIN path : path[n].quiz # x
        /\ Stored(rows[x]) =>
               /\ Sound(x, rows[x].payload)'
               /\ Plain \in memory'[x] => rows[x].payload.stage = 0 /\ ~ rows[x].payload.short
    BY <1>2 DEF RowsAreSound
  <2>1. Stored(rows[x]) => Sound(x, rows[x].payload)'
    BY <1>0, <1>2, <1>4 DEF RowsAreSound
  <2>2. CASE x # s
    BY <1>0, <1>1, <2>1, <2>2 DEF RowsAreSound
  <2>3. CASE x = s
    <3>1. Stored(rows[s]) /\ ~ rows[s].payload.reported => Report(d) = Plain
      BY <1>2, Reports DEF Extends
    <3>2. /\ Report(d) = Plain => ~ d.reported
          /\ Stored(rows[s]) =>
                d.stage = rows[s].payload.stage /\ d.short = rows[s].payload.short
      BY <1>2, Reports DEF Request
    <3>3. Plain \in memory'[s] /\ Stored(rows[s]) =>
              rows[s].payload.stage = 0 /\ ~ rows[s].payload.short
      BY <1>0, <1>1, <1>2, <3>2 DEF RowsAreSound
    <3> QED
      BY <1>0, <1>1, <1>2, <2>1, <2>3, <3>1, <3>3 DEF RowsAreSound
  <2> QED
    BY <2>2, <2>3
<1>6. KeysApart'
  BY <1>2 DEF StoresAreSound, KeysApart
<1>7. StagesAreRemembered'
  <2> SUFFICES ASSUME NEW n \in DOMAIN path
               PROVE  /\ path[n].report \in memory'[path[n].quiz]
                      /\ Stored(rows[path[n].quiz]) => rows[path[n].quiz].payload.profile
    BY <1>2 DEF StagesAreRemembered
  <2>1. path[n].quiz \in Sessions
    BY <1>0, PathEntries
  <2> QED
    BY <1>1, <2>1 DEF StoresAreSound, StagesAreRemembered
<1>8. StoredSessions' = StoredSessions
  BY <1>2 DEF StoredSessions
<1> QED
  BY <1>2, <1>3, <1>5, <1>6, <1>7, <1>8 DEF StoresAreSound

\* Memory agrees with the verdicts.
LEMMA RememberedSays ==
    ASSUME StoresAreSound, NEW s, NEW d, Remembered(s, d), NEW verdicts, StoresSay(verdicts),
           d.stage = verdicts[s].stage, d.reported => d.grades = verdicts[s].grades
    PROVE  StoresSay(verdicts)'
<1>0. StoresTyped
  BY DEF StoresAreSound
<1>1. /\ memory'[s] = memory[s] \cup {Report(d)}
      /\ \A x \in Sessions : x # s => memory'[x] = memory[x]
  BY <1>0, RememberedMemory
<1>2. s \in Sessions /\ d \in Payload /\ UNCHANGED <<rows, path>>
      /\ (d.reported \/ d.stage = 0)
  BY DEF Remembered, Sound
<1>3. /\ d.reported => Report(d) = d.grades /\ Report(d) # Plain
      /\ ~ d.reported => Report(d) = Plain
  BY <1>2, Reports
<1>4. ASSUME NEW x \in Sessions
      PROVE  /\ memory'[x] \subseteq {verdicts[x].grades, Plain}
             /\ Plain \in memory'[x] => verdicts[x].stage = 0
  <2>1. /\ memory[x] \subseteq {verdicts[x].grades, Plain}
        /\ Plain \in memory[x] => verdicts[x].stage = 0
    BY DEF StoresSay
  <2>2. CASE x # s
    BY <1>1, <2>1, <2>2
  <2>3. CASE x = s
    BY <1>1, <1>2, <1>3, <2>1, <2>3
  <2> QED
    BY <2>2, <2>3
<1> QED
  BY <1>2, <1>4 DEF StoresSay

\* An aggregate whose report is remembered may say so.
LEMMA MarkedAggregatesThen ==
    (\A s, p : Sound(s, p) /\ memory[s] # {} =>
        LET w == [p EXCEPT !.profile = TRUE]
        IN  /\ Sound(s, w) /\ Extends(p, w) /\ Request(w) = Request(p)
            /\ w.profile /\ w.reported = p.reported)'
BY MarkedAggregates, PTL

Profiled(p) == [p EXCEPT !.profile = TRUE]

\* Where a request goes that has committed its report, and what it has in hand.
LEMMA MarkedFields ==
    ASSUME Typed, NEW a \in Attempts, NEW r \in Requests, AtWork(a, r), r.pc = "memory",
           NEW d, d = r.draft, NEW w, w = Profiled(d),
           w \in Payload, w.reported = d.reported, NEW n, n = Marked(r)
    PROVE  /\ n \in Requests /\ SameRequest(r, n) /\ n.since <= now /\ n.phase = r.phase
           /\ n.draft = w /\ n.pc \in {"checkpoint", "complete"} /\ Graded(n)
<1>1. /\ r.phase \in Phases /\ r.after \in Afters /\ Graded(r) /\ r.draft # None
      /\ "checkpoint" \in Places /\ "complete" \in Places /\ "graded" \in Afters
      /\ w \in Payload \cup {None}
  BY DEF Requests, AtWork, Places, Calls, Afters
<1>2. /\ r.phase # "path" /\ Confirmed(r)
      /\ r.kind \in Grading => d.reported
      /\ r.phase = "main" => r.kind \in Grading
  BY <1>1 DEF Graded, Confirmed
<1>3. CASE r.phase = "main"
  <2>1. n = At([r EXCEPT !.draft = w, !.after = "graded"], "checkpoint")
    BY <1>3 DEF Marked, Profiled
  <2>2. n = At(Carry(r, r.phase, w, "graded"), "checkpoint")
    <3>1. [r EXCEPT !.draft = w, !.after = "graded"] = Carry(r, r.phase, w, "graded")
      BY DEF Requests, Carry
    <3> QED
      BY <2>1, <3>1
  <2>3. /\ n \in Requests /\ n.pc = "checkpoint" /\ SameRequest(r, n) /\ n.since <= now
        /\ n.phase = r.phase /\ n.draft = w /\ n.after = "graded"
    BY <1>1, <2>2, GoesWith
  <2>4. Graded(n)
    BY <1>2, <1>3, <2>3 DEF Graded, SameRequest, Confirmed
  <2> QED
    BY <2>3, <2>4
<1>4. CASE r.phase # "main"
  <2>1. n = At([r EXCEPT !.draft = w], "complete")
    BY <1>4 DEF Marked, Profiled
  <2>2. n = At(Carry(r, r.phase, w, r.after), "complete")
    BY <2>1, CarryForms
  <2>3. /\ n \in Requests /\ n.pc = "complete" /\ SameRequest(r, n) /\ n.since <= now
        /\ n.phase = r.phase /\ n.draft = w
    BY <1>1, <2>2, GoesWith
  <2>4. Graded(n)
    BY <1>2, <2>3 DEF Graded, SameRequest, Confirmed
  <2> QED
    BY <2>3, <2>4
<1> QED
  BY <1>3, <1>4

\* A request goes on to write what it has done for its session.
LEMMA ForwardedIsFine ==
    ASSUME Typed, Typed', NEW a \in Attempts, NEW r \in Requests, AtWork(a, r), NEW s, s = r.session,
           NEW d, d = r.draft, UNCHANGED <<now, rows>>,
           NEW n \in Requests, SameRequest(r, n), n.since <= now, n.phase = r.phase,
           n.pc \in {"checkpoint", "complete"}, Graded(n), NEW w, w = n.draft,
           Sound(s, w)', Extends(d, w), Request(w) = Request(d)
    PROVE  Fine(a, n)'
<1>1. /\ Asks(r) /\ d \in Payload /\ n.session = s /\ Asks(n) /\ Token(a, n) = Token(a, r)
      /\ Carries(r, d) /\ Owns(a, r, d)
  BY DEF AtWork, Asks, SameRequest, Token, Carries, Sound
<1>2. w \in Payload /\ w # None /\ s \in Sessions
  BY <1>1, NoneAssumption DEF Sound, Asks
<1>3. Asks(n)'
  BY <1>1 DEF Asks
<1>4. Carries(n, w)'
  BY <1>1 DEF Carries
<1>5. Owns(a, n, w)'
  <2> SUFFICES ASSUME Stored(rows[s]), rows[s].token = Token(a, r)
               PROVE  Extends(rows[s].payload, w)
    BY <1>1 DEF Owns, Token
  <2>1. Extends(rows[s].payload, d) /\ rows[s].payload \in Payload
    BY <1>1, <1>2 DEF Owns, Typed
  <2> QED
    BY <1>1, <1>2, <2>1, ExtendsAddsUp
<1>6. Graded(n)'
  BY DEF Graded, Confirmed
<1>7. AtWork(a, n)'
  BY <1>2, <1>3, <1>4, <1>5, <1>6 DEF AtWork, Working
<1> QED
  BY <1>7, WorkIsFineThen

\* Its claim goes with it.
LEMMA ForwardedIsProper ==
    ASSUME Typed, NEW a \in Attempts, Proper(a), NEW r, r = req[a], r.pc \in {"memory", "stage"},
           UNCHANGED rows, RequestsTyped', NEW n, n = req'[a], late'[a] = late[a],
           n.session = r.session, n.phase = r.phase, n.pc \in Working \cup {"release"}, Fine(a, n)'
    PROVE  Proper(a)' /\ late[a] = None
<1>1. late[a] = None
  BY DEF Proper, Left
<1>2. \A x \in Sessions, phase \in Phases :
          Stored(rows[x]) /\ rows[x].token = <<a, phase>> => Claims(n, x, phase)
  BY DEF Proper, TokensOf, Claims
<1>3. Found(n)'
  BY DEF Found, Working
<1> QED
  BY <1>1, <1>2, <1>3, NowProper

\* The write to the learner's memory keeps the invariant.
LEMMA MemoryStep ==
    ASSUME IInv, NEW a \in Attempts, WriteMemory(a)
    PROVE  IInv' /\ Onward
<1>1. StoresTyped /\ RequestsTyped /\ Proper(a) /\ StoresAreSound /\ Typed /\ OneVerdict
  BY InvParts, TypedParts DEF StoresAreSound
<1>2. PICK r \in Requests : r = req[a]
  BY <1>1 DEF RequestsTyped
<1>3. PICK s, d : s = r.session /\ d = r.draft
  OBVIOUS
<1>4. PICK n : n = Marked(r)
  OBVIOUS
<1>5. /\ r.pc = "memory" /\ memory' = [memory EXCEPT ![s] = @ \cup {Report(d)}] /\ Go(a, n)
      /\ UNCHANGED <<now, maxCount, rows, path, late>>
  BY <1>2, <1>3, <1>4 DEF WriteMemory
<1>6. AtWork(a, r) /\ d \in Payload /\ Sound(s, d)
  BY <1>1, <1>2, <1>3, <1>5, FineIsAtWork DEF Proper, Working
<1>7. Shows(r, d) /\ Asks(r) /\ Confirmed(r) /\ d # None
  BY <1>3, <1>5, <1>6 DEF AtWork, Confirmed
<1>8. Remembered(s, d)
  BY <1>3, <1>5, <1>6, <1>7 DEF Remembered, Shows, Carries, Asks, AtWork, Graded
<1>9. Onward /\ StoresAreSound'
  BY <1>1, <1>8, RememberedIsOnward, RememberedStores
<1>10. PICK w : w = Profiled(d)
  OBVIOUS
<1>11. w \in Payload /\ w.reported = d.reported /\ w.stage = d.stage
  BY <1>6, <1>10 DEF Payload, Profiled
<1>12. /\ n \in Requests /\ SameRequest(r, n) /\ n.since <= now /\ n.phase = r.phase
       /\ n.draft = w /\ n.pc \in {"checkpoint", "complete"} /\ Graded(n)
  <2>1. Typed /\ AtWork(a, r) /\ r.pc = "memory" /\ d = r.draft
    BY <1>1, <1>3, <1>5, <1>6
  <2> QED
    BY <1>4, <1>10, <1>11, <2>1, MarkedFields
<1>13. /\ RequestsTyped' /\ req'[a] = n /\ late'[a] = late[a]
       /\ \A b \in Attempts : b # a => req'[b] = req[b] /\ late'[b] = late[b]
  BY <1>1, <1>5, <1>12 DEF Go, RequestsTyped
<1>14. Typed'
  BY <1>9, <1>13, TypedPartsThen DEF StoresAreSound
<1>15. Fine(a, n)'
  <2>1. Sound(s, d)'
    BY <1>1, <1>6, <1>7, <1>9, <1>14, SoundStays, <1>3 DEF Asks
  <2>2. memory'[s] # {}
    BY <1>1, <1>8, RememberedMemory
  <2>3. Sound(s, w)' /\ Extends(d, w) /\ Request(w) = Request(d)
    BY <1>10, <2>1, <2>2, MarkedAggregatesThen DEF Profiled
  <2> QED
    BY <1>1, <1>3, <1>5, <1>6, <1>12, <1>14, <2>3, ForwardedIsFine
<1>16. Proper(a)' /\ late[a] = None
  BY <1>1, <1>2, <1>5, <1>12, <1>13, <1>15, ForwardedIsProper DEF SameRequest, Working
<1>17. PICK verdicts \in Verdicts : AllSay(verdicts)
  BY <1>1 DEF OneVerdict
<1>18. StoresSay(verdicts) /\ RequestSays(verdicts, a)
  BY <1>17, AllSayParts
<1>19. d.stage = verdicts[s].stage /\ (d.reported => d.grades = verdicts[s].grades)
  BY <1>2, <1>3, <1>7, <1>18 DEF RequestSays, Says
<1>20. StoresSay(verdicts)'
  BY <1>1, <1>8, <1>18, <1>19, RememberedSays
<1>21. Says(verdicts, n)
  BY <1>3, <1>11, <1>12, <1>19 DEF Says, Confirmed, SameRequest
<1> QED
  BY <1>5, <1>9, <1>13, <1>16, <1>17, <1>20, <1>21, SharedStep

\* A thread that was left behind commits the report it was started for.
LEMMA LateMemoryStep ==
    ASSUME IInv, NEW a \in Attempts, LateThread(a), late[a].pc = "memory"
    PROVE  IInv' /\ Onward
<1>1. StoresTyped /\ RequestsTyped /\ Proper(a) /\ StoresAreSound /\ Typed /\ OneVerdict
  BY InvParts, TypedParts DEF StoresAreSound
<1>2. late[a] # None
  BY DEF LateThread
<1>3. PICK l \in Requests : l = late[a]
  BY <1>1, <1>2 DEF RequestsTyped
<1>4. PICK s, d : s = l.session /\ d = l.draft
  OBVIOUS
<1>5. l.pc = "memory" /\ AtWork(a, l) /\ d \in Payload /\ Sound(s, d)
  BY <1>1, <1>2, <1>3, <1>4, FineIsAtWork DEF Proper, Working
<1>6. Shows(l, d) /\ Asks(l) /\ Confirmed(l) /\ d # None
  BY <1>4, <1>5 DEF AtWork, Confirmed
<1>7. /\ rows' = [rows EXCEPT ![s] = rows[s]] /\ memory' = [memory EXCEPT ![s] = @ \cup {Report(d)}]
      /\ UNCHANGED <<now, maxCount, path, req>> /\ late' = [late EXCEPT ![a] = None]
  BY <1>3, <1>4, <1>5 DEF LateThread, SetRow, LateRow
<1>8. rows' = rows
  BY <1>1, <1>7 DEF StoresTyped
<1>9. Remembered(s, d)
  BY <1>4, <1>5, <1>6, <1>7, <1>8 DEF Remembered, Shows, Carries, Asks, AtWork, Graded
<1>10. Onward /\ StoresAreSound'
  BY <1>1, <1>9, RememberedIsOnward, RememberedStores
<1>11. PICK n : n = req[a]
  OBVIOUS
<1>12. /\ RequestsTyped' /\ req'[a] = n /\ late'[a] = None
       /\ \A b \in Attempts : b # a => req'[b] = req[b] /\ late'[b] = late[b]
  BY <1>1, <1>7, <1>11 DEF RequestsTyped
<1>13. Typed'
  BY <1>10, <1>12, TypedPartsThen DEF StoresAreSound
<1>14. Proper(a)'
  BY <1>1, <1>2, <1>8, <1>10, <1>11, <1>12, <1>13, LateIsProper
<1>15. PICK verdicts \in Verdicts : AllSay(verdicts)
  BY <1>1 DEF OneVerdict
<1>16. StoresSay(verdicts) /\ RequestSays(verdicts, a)
  BY <1>15, AllSayParts
<1>17. d.stage = verdicts[s].stage /\ (d.reported => d.grades = verdicts[s].grades)
  BY <1>2, <1>3, <1>4, <1>6, <1>16 DEF RequestSays, Says
<1>18. StoresSay(verdicts)'
  BY <1>1, <1>9, <1>16, <1>17, RememberedSays
<1>19. Says(verdicts, n)
  BY <1>11, <1>16 DEF RequestSays
<1>20. UNCHANGED <<now, maxCount, rows>>
  BY <1>7, <1>8
<1> QED
  BY <1>10, <1>12, <1>14, <1>15, <1>18, <1>19, <1>20, SharedStep

\* What the store of the learning path answers, and does.
LEMMA StageAnswers ==
    ASSUME StoresTyped, NEW s, NEW d \in Payload, NEW answer,
           answer = P!CompletionAnswer(path, d.stage, s, d.grades), NEW next,
           next = P!CompleteStageRow(path, d.stage, s, d.grades)
    PROVE  /\ answer = "completed" =>
                 d.stage = Len(path) + 1 /\ next = Append(path, [quiz |-> s, report |-> d.grades])
           /\ answer # "completed" => next = path
           /\ answer \in P!Accepted /\ answer # "completed" => d.stage <= Len(path)
<1>1. d.stage \in Nat /\ d.stage <= TotalStages /\ TotalStages \in Nat /\ Len(path) \in Nat /\ DOMAIN path = 1..Len(path)
  BY StagesAssumption, PathEntries DEF Payload
<1>2. PICK receipts : receipts = P!ReceiptsOf(path, s)
  OBVIOUS
<1>3. receipts \subseteq 1..Len(path)
  BY <1>1, <1>2 DEF P!ReceiptsOf
<1>4. CASE receipts # {}
  <2>1. answer = IF \A n \in receipts : n = d.stage /\ path[n].report = d.grades
                 THEN "replayed" ELSE "conflict"
    BY <1>1, <1>2, <1>4 DEF P!CompletionAnswer
  <2>2. PICK n \in receipts : n \in 1..Len(path)
    BY <1>3, <1>4
  <2>3. answer = "replayed" => n = d.stage
    BY <2>1
  <2>4. answer = "replayed" => d.stage <= Len(path)
    BY <1>1, <2>2, <2>3
  <2> QED
    BY <2>1, <2>4 DEF P!CompleteStageRow, P!Accepted
<1>5. CASE receipts = {} /\ d.stage <= Len(path)
  <2>1. answer = "already_completed"
    BY <1>1, <1>2, <1>5 DEF P!CompletionAnswer, P!CompletedThrough
  <2> QED
    BY <1>5, <2>1 DEF P!CompleteStageRow
<1>6. CASE receipts = {} /\ d.stage = Len(path) + 1
  <2>1. answer = "completed"
    BY <1>1, <1>2, <1>6 DEF P!CompletionAnswer, P!CompletedThrough
  <2> QED
    BY <1>6, <2>1 DEF P!CompleteStageRow
<1>7. CASE receipts = {} /\ d.stage > Len(path) + 1
  <2>1. answer = "stage_locked"
    BY <1>1, <1>2, <1>7 DEF P!CompletionAnswer, P!CompletedThrough
  <2> QED
    BY <2>1 DEF P!CompleteStageRow, P!Accepted
<1> QED
  BY <1>1, <1>4, <1>5, <1>6, <1>7

\* Aggregate d of session s completes its stage.
Staged(s, d) ==
    /\ s \in Sessions /\ rows[s].there # "never" /\ Sound(s, d)
    /\ Stored(rows[s]) => Extends(d, rows[s].payload)
    /\ d.stage # 0 /\ d.reported /\ d.profile /\ d.stage = Len(path) + 1
    /\ path' = Append(path, [quiz |-> s, report |-> d.grades])
    /\ UNCHANGED <<now, maxCount, rows, memory>>

\* A completed stage is added to the path with its quiz and report.
LEMMA StagedPath ==
    ASSUME StoresTyped, NEW s, NEW d, Staged(s, d)
    PROVE  /\ path' \in Seq([quiz : Sessions, report : [Questions -> Grades]])
           /\ DOMAIN path' = DOMAIN path \cup {d.stage} /\ Len(path') = Len(path) + 1
           /\ path'[d.stage].quiz = s /\ path'[d.stage].report = d.grades
           /\ \A n \in DOMAIN path : path'[n] = path[n]
<1>1. PICK e \in [quiz : Sessions, report : [Questions -> Grades]] :
          e.quiz = s /\ e.report = d.grades /\ path' = Append(path, e)
  <2>1. s \in Sessions /\ d.grades \in [Questions -> Grades]
    BY DEF Staged, Sound, Payload
  <2>2. [quiz |-> s, report |-> d.grades] \in [quiz : Sessions, report : [Questions -> Grades]]
    BY <2>1
  <2> QED
    BY <2>2 DEF Staged
<1>2. d.stage = Len(path) + 1 /\ Len(path) \in Nat /\ DOMAIN path = 1..Len(path)
  BY PathEntries DEF Staged
<1>3. path \in Seq([quiz : Sessions, report : [Questions -> Grades]])
  BY DEF StoresTyped
<1> QED
  BY <1>1, <1>2, <1>3

\* Completing a stage takes nothing back.
LEMMA StagedIsOnward ==
    ASSUME Typed, StoresTyped, NEW s, NEW d, Staged(s, d)
    PROVE  Onward
<1>1. Len(path') = Len(path) + 1
  BY StagedPath
<1>2. \A x \in Sessions : Grows(rows[x], rows[x])
  BY ExtendsItself DEF Grows, Typed
<1>3. UNCHANGED <<now, rows, memory>>
  BY DEF Staged
<1> QED
  BY <1>1, <1>2, <1>3 DEF Onward, Typed

\* Completing a stage by a remembered report leaves the stores sound.
LEMMA StagedStores ==
    ASSUME StoresAreSound, NEW s, NEW d, Staged(s, d), d.grades \in memory[s]
    PROVE  StoresAreSound'
<1>0. StoresTyped /\ RowsAreSound
  BY DEF StoresAreSound
<1>1. /\ path' \in Seq([quiz : Sessions, report : [Questions -> Grades]])
      /\ DOMAIN path' = DOMAIN path \cup {d.stage} /\ Len(path') = Len(path) + 1
      /\ path'[d.stage].quiz = s /\ path'[d.stage].report = d.grades
      /\ \A n \in DOMAIN path : path'[n] = path[n]
  BY <1>0, StagedPath
<1>2. /\ s \in Sessions /\ rows[s].there # "never" /\ d.profile /\ d.reported
      /\ Stored(rows[s]) => Extends(d, rows[s].payload)
      /\ UNCHANGED <<now, maxCount, rows, memory>>
  BY DEF Staged
<1>3. StoresTyped'
  BY <1>0, <1>1, <1>2 DEF StoresTyped
<1>4. ASSUME NEW x \in Sessions, NEW p, Sound(x, p)
      PROVE  Sound(x, p)'
  <2>1. p.stage \in Nat /\ Len(path) \in Nat
    BY <1>0, <1>4, PathEntries DEF Sound, Payload
  <2> QED
    BY <1>1, <1>2, <1>4, <2>1 DEF Sound
<1>5. RowsAreSound'
  <2> SUFFICES ASSUME NEW x \in Sessions
               PROVE
        /\ rows[x].there = "never" => memory[x] = {}
        /\ rows[x].there = "never" \/ (Stored(rows[x]) /\ ~ rows[x].payload.reported) =>
               /\ memory[x] \subseteq {Plain}
               /\ \A n \in DOMAIN path' : path'[n].quiz # x
        /\ Stored(rows[x]) =>
               /\ Sound(x, rows[x].payload)'
               /\ Plain \in memory[x] => rows[x].payload.stage = 0 /\ ~ rows[x].payload.short
    BY <1>2 DEF RowsAreSound
  <2>1. Stored(rows[x]) => Sound(x, rows[x].payload)'
    BY <1>0, <1>2, <1>4 DEF RowsAreSound
  <2>2. rows[x].there = "never" \/ (Stored(rows[x]) /\ ~ rows[x].payload.reported) => x # s
    BY <1>2 DEF Extends
  <2> QED
    BY <1>0, <1>1, <2>1, <2>2 DEF RowsAreSound
<1>6. KeysApart'
  BY <1>2 DEF StoresAreSound, KeysApart
<1>7. StagesAreRemembered'
  <2> SUFFICES ASSUME NEW n \in DOMAIN path'
               PROVE  /\ path'[n].report \in memory[path'[n].quiz]
                      /\ Stored(rows[path'[n].quiz]) => rows[path'[n].quiz].payload.profile
    BY <1>2 DEF StagesAreRemembered
  <2>1. CASE n \in DOMAIN path
    BY <1>1, <2>1 DEF StoresAreSound, StagesAreRemembered
  <2>2. CASE n = d.stage
    BY <1>1, <1>2, <2>2 DEF Extends
  <2> QED
    BY <1>1, <2>1, <2>2
<1>8. StoredSessions' = StoredSessions
  BY <1>2 DEF StoredSessions
<1> QED
  BY <1>2, <1>3, <1>5, <1>6, <1>7, <1>8 DEF StoresAreSound

\* The path agrees with the verdicts.
LEMMA StagedSays ==
    ASSUME StoresTyped, NEW s, NEW d, Staged(s, d), NEW verdicts \in Verdicts, StoresSay(verdicts),
           d.stage = verdicts[s].stage, d.grades = verdicts[s].grades
    PROVE  StoresSay(verdicts)'
<1>1. /\ DOMAIN path' = DOMAIN path \cup {d.stage}
      /\ path'[d.stage].quiz = s /\ path'[d.stage].report = d.grades
      /\ \A n \in DOMAIN path : path'[n] = path[n]
  BY StagedPath
<1>2. s \in Sessions /\ UNCHANGED <<rows, memory>>
  BY DEF Staged
<1>3. verdicts[s] = [stage |-> d.stage, grades |-> d.grades]
  BY <1>2 DEF Verdicts
<1>4. \A n \in DOMAIN path : verdicts[path[n].quiz] = [stage |-> n, grades |-> path[n].report]
  BY DEF StoresSay
<1>5. \A n \in DOMAIN path' : verdicts[path'[n].quiz] = [stage |-> n, grades |-> path'[n].report]
  BY <1>1, <1>3, <1>4
<1> QED
  BY <1>2, <1>5 DEF StoresSay

\* The memory has the report of every quiz that is ready for its stage.
LEMMA ReportedIsRemembered ==
    ASSUME NEW s \in Sessions, NEW d, Sound(s, d), d.profile, d.stage # 0,
           NEW verdicts, StoresSay(verdicts), d.stage = verdicts[s].stage, d.grades = verdicts[s].grades
    PROVE  d.grades \in memory[s]
<1>1. memory[s] # {}
  BY DEF Sound
<1>2. memory[s] \subseteq {verdicts[s].grades, Plain} /\ Plain \notin memory[s]
  BY DEF StoresSay
<1> QED
  BY <1>1, <1>2

\* The stage of d is completed by now, by this step or by an earlier one.
LEMMA StageIsCompleted ==
    ASSUME StoresAreSound, Typed, NEW s, NEW d, s \in Sessions, rows[s].there # "never", Sound(s, d),
           Stored(rows[s]) => Extends(d, rows[s].payload),
           d.stage # 0, d.reported, d.profile, UNCHANGED <<now, maxCount, rows, memory>>,
           NEW answer, answer = P!CompletionAnswer(path, d.stage, s, d.grades),
           path' = P!CompleteStageRow(path, d.stage, s, d.grades),
           NEW verdicts \in Verdicts, StoresSay(verdicts),
           d.stage = verdicts[s].stage, d.grades = verdicts[s].grades
    PROVE  /\ Onward /\ StoresAreSound' /\ StoresSay(verdicts)'
           /\ answer \in P!Accepted => d.stage <= Len(path')
           /\ answer \notin P!Accepted => path' = path
<1>1. StoresTyped /\ d \in Payload /\ d.stage \in Nat
  BY DEF StoresAreSound, Sound, Payload
<1>2. PICK next : next = P!CompleteStageRow(path, d.stage, s, d.grades)
  OBVIOUS
<1>3. /\ answer = "completed" =>
            d.stage = Len(path) + 1 /\ next = Append(path, [quiz |-> s, report |-> d.grades])
      /\ answer # "completed" => next = path
      /\ answer \in P!Accepted /\ answer # "completed" => d.stage <= Len(path)
  BY <1>1, <1>2, StageAnswers
<1>4. "completed" \in P!Accepted
  BY DEF P!Accepted
<1>5. CASE answer = "completed"
  <2>1. Staged(s, d)
    BY <1>2, <1>3, <1>5 DEF Staged
  <2>2. d.grades \in memory[s]
    BY ReportedIsRemembered
  <2>3. Onward /\ StoresAreSound'
    BY <1>1, <2>1, <2>2, StagedIsOnward, StagedStores
  <2>4. StoresSay(verdicts)'
    BY <1>1, <2>1, StagedSays
  <2>5. Len(path') = Len(path) + 1 /\ Len(path) \in Nat
    BY <1>1, <2>1, StagedPath, PathEntries
  <2> QED
    BY <1>1, <1>3, <1>4, <1>5, <2>3, <2>4, <2>5
<1>6. CASE answer # "completed"
  <2>1. path' = path /\ Still
    BY <1>2, <1>3, <1>6 DEF Still
  <2>2. SamePayloads
    BY <1>1, <2>1, StillIsSame
  <2>3. Onward /\ StoresAreSound'
    BY <2>2, SameStores, SameIsOnward
  <2>4. StoresSay(verdicts)'
    BY <2>1 DEF StoresSay, Still
  <2> QED
    BY <1>3, <1>6, <2>1, <2>3, <2>4
<1> QED
  BY <1>5, <1>6

\* An aggregate whose stage is completed may say so.
LEMMA StagedAggregatesThen ==
    (\A s, p : Sound(s, p) /\ p.stage # 0 /\ p.reported /\ p.profile /\ p.stage <= Len(path) =>
        LET w == [p EXCEPT !.progress = TRUE]
        IN  /\ Sound(s, w) /\ Extends(p, w) /\ Request(w) = Request(p) /\ w.reported = p.reported)'
BY StagedAggregates, PTL

Progressed(p) == [p EXCEPT !.progress = TRUE]

Advanced(r) == At([r EXCEPT !.draft.progress = TRUE, !.after = "graded"], "checkpoint")

\* What a request has in hand after the stage.
LEMMA StagedFields ==
    ASSUME Typed, NEW a \in Attempts, NEW r \in Requests, AtWork(a, r), r.pc = "stage",
           NEW d, d = r.draft, NEW w, w = Progressed(d), w \in Payload, w.reported = d.reported,
           NEW n, n = Advanced(r)
    PROVE  /\ n \in Requests /\ SameRequest(r, n) /\ n.since <= now /\ n.phase = r.phase
           /\ n.draft = w /\ n.pc = "checkpoint" /\ Graded(n)
<1>1. /\ r.phase \in Phases /\ Graded(r) /\ r.draft # None
      /\ "checkpoint" \in Places /\ "graded" \in Afters /\ w \in Payload \cup {None}
  BY DEF Requests, AtWork, Places, Calls, Afters
<1>2. /\ r.phase # "memory" /\ d.reported /\ Confirmed(r)
      /\ r.phase = "main" => r.kind \in Grading
  BY <1>1 DEF Graded, Confirmed
<1>3. n = At([r EXCEPT !.draft = w, !.after = "graded"], "checkpoint")
  BY DEF Progressed, Advanced
<1>4. n = At(Carry(r, r.phase, w, "graded"), "checkpoint")
  <2>1. [r EXCEPT !.draft = w, !.after = "graded"] = Carry(r, r.phase, w, "graded")
    BY DEF Requests, Carry
  <2> QED
    BY <1>3, <2>1
<1>5. /\ n \in Requests /\ n.pc = "checkpoint" /\ SameRequest(r, n) /\ n.since <= now
      /\ n.phase = r.phase /\ n.draft = w /\ n.after = "graded"
  BY <1>1, <1>4, GoesWith
<1>6. Graded(n)
  BY <1>2, <1>5 DEF Graded, SameRequest, Confirmed
<1> QED
  BY <1>5, <1>6

\* The completion of a stage keeps the invariant.
LEMMA StageStep ==
    ASSUME IInv, NEW a \in Attempts, CompleteStage(a)
    PROVE  IInv' /\ Onward
<1>1. StoresTyped /\ RequestsTyped /\ Proper(a) /\ StoresAreSound /\ Typed /\ OneVerdict
  BY InvParts, TypedParts DEF StoresAreSound
<1>2. PICK r \in Requests : r = req[a]
  BY <1>1 DEF RequestsTyped
<1>3. PICK s, d : s = r.session /\ d = r.draft
  OBVIOUS
<1>4. PICK answer : answer = P!CompletionAnswer(path, d.stage, s, d.grades)
  OBVIOUS
<1>5. PICK n : n = Advanced(r)
  OBVIOUS
<1>6. /\ r.pc = "stage" /\ path' = P!CompleteStageRow(path, d.stage, s, d.grades)
      /\ Go(a, IF answer \in P!Accepted THEN n ELSE Ending(r, "failed"))
      /\ UNCHANGED <<now, maxCount, rows, memory, late>>
  BY <1>2, <1>3, <1>4, <1>5 DEF CompleteStage, StageAnswer, Advanced
<1>7. AtWork(a, r) /\ d \in Payload /\ Sound(s, d)
  BY <1>1, <1>2, <1>3, <1>6, FineIsAtWork DEF Proper, Working
<1>8. Shows(r, d) /\ Asks(r) /\ Confirmed(r) /\ d # None
  BY <1>3, <1>6, <1>7 DEF AtWork, Confirmed
<1>9. /\ s \in Sessions /\ rows[s].there # "never"
      /\ Stored(rows[s]) => Extends(d, rows[s].payload)
      /\ d.stage # 0 /\ d.reported /\ d.profile
  BY <1>3, <1>6, <1>7, <1>8 DEF Shows, Asks, AtWork, Graded
<1>10. PICK verdicts \in Verdicts : AllSay(verdicts)
  BY <1>1 DEF OneVerdict
<1>11. StoresSay(verdicts) /\ RequestSays(verdicts, a)
  BY <1>10, AllSayParts
<1>12. d.stage = verdicts[s].stage /\ d.grades = verdicts[s].grades
  BY <1>2, <1>3, <1>8, <1>9, <1>11 DEF RequestSays, Says
<1>13. /\ Onward /\ StoresAreSound' /\ StoresSay(verdicts)'
       /\ answer \in P!Accepted => d.stage <= Len(path')
       /\ answer \notin P!Accepted => path' = path
  BY <1>1, <1>4, <1>6, <1>7, <1>9, <1>11, <1>12, StageIsCompleted
<1>14. CASE answer \notin P!Accepted
  <2>1. Still /\ Go(a, Ending(r, "failed")) /\ UNCHANGED late
    BY <1>6, <1>13, <1>14 DEF Still
  <2>2. Goes(a, Ending(r, "failed"))
    BY <1>1, <1>2, <1>6, EndingGoes DEF Working
  <2>3. Moves(a)
    BY <2>1, <2>2 DEF Moves, Goes
  <2>4. Leaves(a)
    BY <1>1, <1>2, <1>6, <2>1, <2>3, MovesLeaves
  <2> QED
    BY <2>1, <2>4, QuietStep
<1>15. CASE answer \in P!Accepted
  <2>1. PICK w : w = Progressed(d)
    OBVIOUS
  <2>2. w \in Payload /\ w.reported = d.reported /\ w.stage = d.stage
    BY <1>7, <2>1 DEF Payload, Progressed
  <2>3. /\ n \in Requests /\ SameRequest(r, n) /\ n.since <= now /\ n.phase = r.phase
        /\ n.draft = w /\ n.pc = "checkpoint" /\ Graded(n)
    BY <1>1, <1>3, <1>5, <1>6, <1>7, <2>1, <2>2, StagedFields
  <2>4. /\ RequestsTyped' /\ req'[a] = n /\ late'[a] = late[a]
        /\ \A b \in Attempts : b # a => req'[b] = req[b] /\ late'[b] = late[b]
    BY <1>1, <1>6, <1>15, <2>3 DEF Go, RequestsTyped
  <2>5. Typed'
    BY <1>13, <2>4, TypedPartsThen DEF StoresAreSound
  <2>6. Fine(a, n)'
    <3>1. Sound(s, d)'
      BY <1>1, <1>7, <1>9, <1>13, <2>5, SoundStays
    <3>2. Sound(s, w)' /\ Extends(d, w) /\ Request(w) = Request(d)
      BY <1>9, <1>13, <1>15, <2>1, <3>1, StagedAggregatesThen DEF Progressed
    <3> QED
      BY <1>1, <1>3, <1>6, <1>7, <2>3, <2>5, <3>2, ForwardedIsFine
  <2>7. Proper(a)' /\ late[a] = None
    BY <1>1, <1>2, <1>6, <2>3, <2>4, <2>6, ForwardedIsProper DEF SameRequest, Working
  <2>8. Says(verdicts, n)
    BY <1>3, <1>12, <2>2, <2>3 DEF Says, Confirmed, SameRequest
  <2> QED
    BY <1>6, <1>10, <1>13, <2>4, <2>7, <2>8, SharedStep
<1> QED
  BY <1>14, <1>15

\* So does one by a thread that was left behind.
LEMMA LateStageStep ==
    ASSUME IInv, NEW a \in Attempts, LateThread(a), late[a].pc = "stage"
    PROVE  IInv' /\ Onward
<1>1. StoresTyped /\ RequestsTyped /\ Proper(a) /\ StoresAreSound /\ Typed /\ OneVerdict
  BY InvParts, TypedParts DEF StoresAreSound
<1>2. late[a] # None
  BY DEF LateThread
<1>3. PICK l \in Requests : l = late[a]
  BY <1>1, <1>2 DEF RequestsTyped
<1>4. PICK s, d : s = l.session /\ d = l.draft
  OBVIOUS
<1>5. l.pc = "stage" /\ AtWork(a, l) /\ d \in Payload /\ Sound(s, d)
  BY <1>1, <1>2, <1>3, <1>4, FineIsAtWork DEF Proper, Working
<1>6. Shows(l, d) /\ Asks(l) /\ Confirmed(l) /\ d # None
  BY <1>4, <1>5 DEF AtWork, Confirmed
<1>7. /\ rows' = [rows EXCEPT ![s] = rows[s]]
      /\ path' = P!CompleteStageRow(path, d.stage, s, d.grades)
      /\ UNCHANGED <<now, maxCount, memory, req>> /\ late' = [late EXCEPT ![a] = None]
  BY <1>3, <1>4, <1>5 DEF LateThread, SetRow, LateRow
<1>8. UNCHANGED <<now, maxCount, rows, memory>>
  BY <1>1, <1>7 DEF StoresTyped
<1>9. /\ s \in Sessions /\ rows[s].there # "never"
      /\ Stored(rows[s]) => Extends(d, rows[s].payload)
      /\ d.stage # 0 /\ d.reported /\ d.profile
  BY <1>4, <1>5, <1>6 DEF Shows, Asks, AtWork, Graded
<1>10. PICK verdicts \in Verdicts : AllSay(verdicts)
  BY <1>1 DEF OneVerdict
<1>11. StoresSay(verdicts) /\ RequestSays(verdicts, a)
  BY <1>10, AllSayParts
<1>12. d.stage = verdicts[s].stage /\ d.grades = verdicts[s].grades
  BY <1>2, <1>3, <1>4, <1>6, <1>9, <1>11 DEF RequestSays, Says
<1>13. PICK answer : answer = P!CompletionAnswer(path, d.stage, s, d.grades)
  OBVIOUS
<1>14. Onward /\ StoresAreSound' /\ StoresSay(verdicts)'
  BY <1>1, <1>5, <1>7, <1>8, <1>9, <1>11, <1>12, <1>13, StageIsCompleted
<1>15. PICK n : n = req[a]
  OBVIOUS
<1>16. /\ RequestsTyped' /\ req'[a] = n /\ late'[a] = None
       /\ \A b \in Attempts : b # a => req'[b] = req[b] /\ late'[b] = late[b]
  BY <1>1, <1>7, <1>15 DEF RequestsTyped
<1>17. Typed'
  BY <1>14, <1>16, TypedPartsThen DEF StoresAreSound
<1>18. Proper(a)'
  BY <1>1, <1>2, <1>8, <1>14, <1>15, <1>16, <1>17, LateIsProper
<1>19. Says(verdicts, n)
  BY <1>11, <1>15 DEF RequestSays
<1> QED
  BY <1>8, <1>10, <1>14, <1>16, <1>18, <1>19, SharedStep

-----------------------------------------------------------------------------
(***************************************************************************)
(* A new session, and those that make room for it                          *)
(***************************************************************************)

\* After the sweep and the evictions there is room for one more.
LEMMA RoomIsMade ==
    ASSUME NEW stored, IsFiniteSet(stored), NEW lapsed, NEW out, out \subseteq stored \ lapsed,
           NEW capacity \in Nat, NEW count, count = Cardinality(stored \ lapsed),
           Cardinality(out) = IF count < capacity THEN 0 ELSE count - capacity + 1,
           NEW s, NEW after, after = ((stored \ lapsed) \ out) \cup {s}, s \notin stored
    PROVE  Cardinality(after) <= capacity
<1> DEFINE kept == stored \ lapsed
           rest == kept \ out
<1>1. IsFiniteSet(kept)
  BY FS_Subset
<1>2. IsFiniteSet(rest)
  BY <1>1, FS_Subset
<1>3. kept \cap out = out
  OBVIOUS
<1>4. Cardinality(rest) = Cardinality(kept) - Cardinality(out)
  <2>2. Cardinality(kept \ out) = Cardinality(kept) - Cardinality(kept \cap out)
    BY <1>1, FS_Difference
  <2> QED
    BY <1>3, <2>2
<1>5. count \in Nat /\ Cardinality(rest) \in Nat
  BY <1>1, <1>2, FS_CardinalityType
<1>6. Cardinality(after) = Cardinality(rest) + 1
  BY <1>2, FS_AddElement
<1> QED
  BY <1>4, <1>5, <1>6

\* Session s is stored, under a key that is free, and others may be removed.
Created(s, key, ask, gone, new) ==
    /\ s \in Sessions /\ rows[s].there = "never" /\ s \notin gone
    /\ new \in Row /\ Stored(new) /\ new.key = key /\ new.payload = FreshPayload(ask)
    /\ new.token = None
    /\ \A x \in gone : x \in Sessions /\ Stored(rows[x])
    /\ rows' \in [Sessions -> Row] /\ rows'[s] = new
    /\ \A x \in gone : rows'[x].there = "gone"
    /\ \A x \in Sessions : x # s /\ x \notin gone => rows'[x] = rows[x]
    /\ key # None => \A x \in Sessions : Stored(rows[x]) => rows[x].key # key
    /\ ask \in StartRequests /\ ask.stage <= Len(path) + 1
    /\ Cardinality(StoredSessions') <= maxCount
    /\ UNCHANGED <<now, maxCount, path, memory>>

\* A quiz that begins is an aggregate.
LEMMA FreshPayloads ==
    ASSUME NEW ask \in StartRequests
    PROVE  FreshPayload(ask) \in Payload
<1>1. <<>> \in UNION {[1..n -> Choices] : n \in 0..Total}
  BY ShortSequencesAreAnswers, TotalAssumption
<1> QED
  BY <1>1 DEF FreshPayload, Payload, StartRequests, Grades

\* The row of a quiz that begins.
LEMMA NewRows ==
    ASSUME NEW key \in Keys \cup {None}, NEW p \in Payload, NEW e \in Nat, NEW new,
           new = [there |-> "stored", key |-> key, payload |-> p, token |-> None,
                  lease |-> 0, expires |-> e]
    PROVE  /\ new \in Row /\ new.there = "stored" /\ new.key = key
           /\ new.payload = p /\ new.token = None
BY DEF Row

\* A row that was removed.
LEMMA RemovedRows ==
    ASSUME NEW row
    PROVE  Removed(row) \in Row /\ Removed(row).there = "gone"
<1>1. Removed(row) = [there |-> "gone", key |-> None, payload |-> None, token |-> None,
                      lease |-> 0, expires |-> 0]
  BY DEF Removed, NoRow
<1> QED
  BY <1>1 DEF Row

\* Creating a session removes some rows and stores one new quiz.
LEMMA CreatedByCreate ==
    ASSUME StoresAreSound, NEW r \in Requests, r.ask \in StartRequests, r.ask.stage <= Len(path) + 1,
           NEW s \in Sessions, NEW t \in Nat, CreateAs(r, s, t), NEW key, key = r.key, NEW ask, ask = r.ask,
           UNCHANGED <<now, maxCount, path, memory>>
    PROVE  \E gone, new : Created(s, key, ask, gone, new)
<1>1. /\ StoresTyped /\ rows \in [Sessions -> Row] /\ DOMAIN rows = Sessions /\ maxCount \in Nat
      /\ key \in Keys \cup {None}
  BY DEF StoresAreSound, StoresTyped, Requests
<1>2. PICK out \in Evictions(rows, maxCount, t) : rows' = CreateRows(rows, s, key, ask, out, t)
  BY DEF CreateAs
<1>3. /\ StartedUnder(rows, key) = {} /\ rows[s] = NoRow
  BY DEF CreateAs
<1>4. PICK lapsed : lapsed = Lapsed(rows, t)
  OBVIOUS
<1>5. PICK new : new = NewRow(key, ask, t)
  OBVIOUS
<1>6. PICK gone : gone = lapsed \cup out
  OBVIOUS
<1>7. lapsed \subseteq StoredSessions /\ out \subseteq StoredSessions \ lapsed
  BY <1>1, <1>2, <1>4 DEF Lapsed, Evictions, Evictable, StoredSessions
<1>8. /\ new \in Row /\ new.there = "stored" /\ new.key = key
      /\ new.payload = FreshPayload(ask) /\ new.token = None
  <2>1. PICK p : p = FreshPayload(ask)
    OBVIOUS
  <2>2. p \in Payload
    BY <2>1, FreshPayloads
  <2>3. PICK e \in Nat : e = t + TtlSeconds
    BY TtlAssumption
  <2>4. new = [there |-> "stored", key |-> key, payload |-> p, token |-> None,
               lease |-> 0, expires |-> e]
    BY <1>5, <2>1, <2>3 DEF NewRow, NoRow
  <2>5. /\ new \in Row /\ new.there = "stored" /\ new.key = key
        /\ new.payload = p /\ new.token = None
    BY <1>1, <2>2, <2>4, NewRows
  <2> QED
    BY <2>1, <2>5
<1>9. rows[s].there = "never" /\ s \notin StoredSessions
  BY <1>3 DEF NoRow, StoredSessions, Stored
<1>10. rows' = [x \in Sessions |-> IF x = s THEN new ELSE IF x \in gone THEN Removed(rows[x]) ELSE rows[x]]
  BY <1>1, <1>2, <1>4, <1>5, <1>6 DEF CreateRows
<1>11. /\ rows' \in [Sessions -> Row] /\ rows'[s] = new /\ s \notin gone
       /\ \A x \in gone : x \in Sessions /\ Stored(rows[x]) /\ rows'[x].there = "gone"
       /\ \A x \in Sessions : x # s /\ x \notin gone => rows'[x] = rows[x]
  <2>1. \A x \in gone : x \in Sessions /\ Stored(rows[x])
    BY <1>6, <1>7 DEF StoredSessions
  <2>2. s \notin gone
    BY <1>6, <1>7, <1>9
  <2>3. \A x \in Sessions : Removed(rows[x]) \in Row /\ Removed(rows[x]).there = "gone"
    BY RemovedRows
  <2>4. \A x \in gone : rows'[x] = Removed(rows[x])
    BY <1>10, <2>1, <2>2
  <2> QED
    BY <1>1, <1>8, <1>10, <2>1, <2>2, <2>3, <2>4
<1>12. key # None => \A x \in Sessions : Stored(rows[x]) => rows[x].key # key
  BY <1>1, <1>3 DEF StartedUnder
<1>13. Cardinality(StoredSessions') <= maxCount
  <2>1. StoredSessions' = ((StoredSessions \ lapsed) \ out) \cup {s}
    BY <1>6, <1>8, <1>9, <1>11 DEF StoredSessions, Stored
  <2>2. IsFiniteSet(StoredSessions)
    BY SessionsAssumption, FS_Subset DEF StoredSessions
  <2>3. PICK stored : stored = StoredSessions
    OBVIOUS
  <2>4. PICK count : count = Cardinality(stored \ lapsed)
    OBVIOUS
  <2>5. Cardinality(out) = IF count < maxCount THEN 0 ELSE count - maxCount + 1
    BY <1>1, <1>2, <1>4, <2>3, <2>4 DEF Evictions, StoredSessions
  <2>6. PICK after : after = StoredSessions'
    OBVIOUS
  <2>7. Cardinality(after) <= maxCount
    BY <1>1, <1>7, <1>9, <2>1, <2>2, <2>3, <2>4, <2>5, <2>6, RoomIsMade
  <2> QED
    BY <2>6, <2>7
<1>14. Created(s, key, ask, gone, new)
  BY <1>8, <1>9, <1>11, <1>12, <1>13 DEF Created, Stored
<1> QED
  BY <1>14

\* It takes nothing back, and gives nobody a claim.
LEMMA CreatedIsOnward ==
    ASSUME Typed, StoresTyped, NEW s, NEW key, NEW ask, NEW gone, NEW new,
           Created(s, key, ask, gone, new)
    PROVE  Onward /\ \A b \in Attempts : Fenced(b)
<1>1. /\ s \in Sessions /\ rows[s].there = "never" /\ new.payload = FreshPayload(ask) /\ new.token = None
      /\ rows'[s] = new /\ \A x \in gone : rows'[x].there = "gone"
      /\ \A x \in Sessions : x # s /\ x \notin gone => rows'[x] = rows[x]
      /\ \A x \in gone : x \in Sessions /\ Stored(rows[x])
      /\ UNCHANGED <<now, path, memory>>
  BY DEF Created
<1>2. new.payload \in Payload
  BY FreshAggregates DEF Created, Sound
<1>3. ASSUME NEW x \in Sessions PROVE Grows(rows[x], rows'[x])
  <2>1. CASE x = s
    BY <1>1, <1>2, <2>1 DEF Grows
  <2>2. CASE x \in gone
    BY <1>1, <2>2 DEF Grows, Stored
  <2>3. CASE x # s /\ x \notin gone
    BY <1>1, <2>3, ExtendsItself DEF Grows, Typed
  <2> QED
    BY <2>1, <2>2, <2>3
<1>4. ASSUME NEW b \in Attempts, NEW x \in Sessions, NEW phase \in Phases,
             Stored(rows'[x]), rows'[x].token = <<b, phase>>
      PROVE  rows'[x] = rows[x]
  <2>1. x # s
    BY <1>1, <1>4, TokensAreNotNone
  <2>2. x \notin gone
    BY <1>1, <1>4 DEF Stored
  <2> QED
    BY <1>1, <2>1, <2>2
<1> QED
  BY <1>1, <1>3, <1>4 DEF Onward, Fenced, Typed

\* It leaves the stores sound.
LEMMA CreatedStores ==
    ASSUME StoresAreSound, NEW s, NEW key, NEW ask, NEW gone, NEW new,
           Created(s, key, ask, gone, new)
    PROVE  StoresAreSound'
<1>0. StoresTyped /\ RowsAreSound /\ KeysApart
  BY DEF StoresAreSound
<1>1. /\ s \in Sessions /\ rows[s].there = "never" /\ new.payload = FreshPayload(ask) /\ new.key = key
      /\ Stored(new) /\ rows'[s] = new /\ rows' \in [Sessions -> Row]
      /\ \A x \in gone : rows'[x].there = "gone"
      /\ \A x \in Sessions : x # s /\ x \notin gone => rows'[x] = rows[x]
      /\ key # None => \A x \in Sessions : Stored(rows[x]) => rows[x].key # key
      /\ UNCHANGED <<now, maxCount, path, memory>>
      /\ Cardinality(StoredSessions') <= maxCount
  BY DEF Created
<1>2. Sound(s, new.payload) /\ ~ new.payload.reported
  BY <1>1, FreshAggregates DEF Created
<1>3. StoresTyped'
  BY <1>0, <1>1 DEF StoresTyped
<1>4. memory[s] = {} /\ \A n \in DOMAIN path : path[n].quiz # s
  BY <1>0, <1>1 DEF RowsAreSound
<1>5. RowsAreSound'
  <2> SUFFICES ASSUME NEW x \in Sessions
               PROVE
        /\ rows'[x].there = "never" => memory[x] = {}
        /\ rows'[x].there = "never" \/ (Stored(rows'[x]) /\ ~ rows'[x].payload.reported) =>
               /\ memory[x] \subseteq {Plain}
               /\ \A n \in DOMAIN path : path[n].quiz # x
        /\ Stored(rows'[x]) =>
               /\ Sound(x, rows'[x].payload)
               /\ Plain \in memory[x] => rows'[x].payload.stage = 0 /\ ~ rows'[x].payload.short
    BY <1>1 DEF RowsAreSound, Sound
  <2>1. CASE x = s
    BY <1>1, <1>2, <1>4, <2>1 DEF Stored
  <2>2. CASE x # s /\ x \in gone
    BY <1>1, <2>2 DEF Stored
  <2>3. CASE x # s /\ x \notin gone
    <3>1. rows'[x] = rows[x]
      BY <1>1, <2>3
    <3> QED
      BY <1>0, <3>1 DEF RowsAreSound
  <2> QED
    BY <2>1, <2>2, <2>3
<1>6. KeysApart'
  <2> SUFFICES ASSUME NEW x \in Sessions, NEW y \in Sessions, Stored(rows'[x]), Stored(rows'[y]),
                      rows'[x].key # None, rows'[x].key = rows'[y].key
               PROVE  x = y
    BY DEF KeysApart
  <2>1. (x = s \/ rows'[x] = rows[x]) /\ (y = s \/ rows'[y] = rows[y])
    BY <1>1 DEF Stored
  <2> QED
    BY <1>0, <1>1, <2>1 DEF KeysApart
<1>7. StagesAreRemembered'
  <2> SUFFICES ASSUME NEW n \in DOMAIN path
               PROVE  /\ path[n].report \in memory[path[n].quiz]
                      /\ Stored(rows'[path[n].quiz]) => rows'[path[n].quiz].payload.profile
    BY <1>1 DEF StagesAreRemembered
  <2>1. path[n].quiz \in Sessions /\ path[n].quiz # s
    BY <1>0, <1>4, PathEntries
  <2>2. Stored(rows'[path[n].quiz]) => rows'[path[n].quiz] = rows[path[n].quiz]
    BY <1>1, <2>1 DEF Stored
  <2> QED
    BY <2>2 DEF StoresAreSound, StagesAreRemembered
<1> QED
  BY <1>1, <1>3, <1>5, <1>6, <1>7 DEF StoresAreSound

Opened(verdicts, s, ask) ==
    [verdicts EXCEPT ![s] = [stage |-> ask.stage, grades |-> verdicts[s].grades]]

\* The verdict of a session that is new is still open, but for its stage.
LEMMA CreatedSays ==
    ASSUME StoresAreSound, NEW s, NEW key, NEW ask, NEW gone, NEW new,
           Created(s, key, ask, gone, new), NEW verdicts \in Verdicts, StoresSay(verdicts),
           NEW w, w = Opened(verdicts, s, ask)
    PROVE  /\ w \in Verdicts /\ StoresSay(w)'
           /\ \A x \in Sessions : x # s => w[x] = verdicts[x]
<1>0. StoresTyped /\ RowsAreSound
  BY DEF StoresAreSound
<1>1. /\ s \in Sessions /\ rows[s].there = "never" /\ new.payload = FreshPayload(ask)
      /\ rows'[s] = new
      /\ \A x \in gone : rows'[x].there = "gone"
      /\ \A x \in Sessions : x # s /\ x \notin gone => rows'[x] = rows[x]
      /\ ask \in StartRequests /\ UNCHANGED <<path, memory>>
  BY DEF Created
<1>2. ask.stage \in 0..TotalStages
  BY <1>1 DEF StartRequests
<1>3. /\ w \in Verdicts /\ w[s].stage = ask.stage
      /\ \A x \in Sessions : x # s => w[x] = verdicts[x]
  BY <1>1, <1>2 DEF Verdicts, Opened
<1>4. new.payload.stage = ask.stage /\ ~ new.payload.reported
  BY <1>1 DEF FreshPayload
<1>5. memory[s] = {} /\ \A n \in DOMAIN path : path[n].quiz # s
  BY <1>0, <1>1 DEF RowsAreSound
<1>6. ASSUME NEW x \in Sessions
      PROVE  /\ Stored(rows'[x]) =>
                   /\ rows'[x].payload.stage = w[x].stage
                   /\ rows'[x].payload.reported => rows'[x].payload.grades = w[x].grades
             /\ memory[x] \subseteq {w[x].grades, Plain}
             /\ Plain \in memory[x] => w[x].stage = 0
  <2>1. CASE x = s
    BY <1>1, <1>3, <1>4, <1>5, <2>1
  <2>2. CASE x # s
    <3>1. w[x] = verdicts[x] /\ (Stored(rows'[x]) => rows'[x] = rows[x])
      BY <1>1, <1>3, <2>2 DEF Stored
    <3> QED
      BY <3>1 DEF StoresSay
  <2> QED
    BY <2>1, <2>2
<1>7. ASSUME NEW n \in DOMAIN path
      PROVE  w[path[n].quiz] = [stage |-> n, grades |-> path[n].report]
  <2>1. path[n].quiz \in Sessions
    BY <1>0, PathEntries
  <2>2. w[path[n].quiz] = verdicts[path[n].quiz]
    BY <1>3, <1>5, <2>1
  <2> QED
    BY <2>2 DEF StoresSay
<1> QED
  BY <1>1, <1>3, <1>6, <1>7 DEF StoresSay

\* A step of one request that does so keeps the invariant.
LEMMA CreatedStep ==
    ASSUME IInv, NEW s, NEW key, NEW ask, NEW gone, NEW new, Created(s, key, ask, gone, new),
           NEW a \in Attempts,
           \A b \in Attempts : b # a => req'[b] = req[b] /\ late'[b] = late[b],
           RequestsTyped', Typed /\ Typed' => Proper(a)', late'[a] = None, NEW n, n = req'[a],
           n = req[a] \/ n.draft = None
    PROVE  IInv' /\ Onward
<1>1. StoresAreSound /\ StoresTyped /\ RequestsTyped /\ OneVerdict /\ Typed
      /\ \A b \in Attempts : Proper(b)
  BY InvParts, TypedParts DEF StoresAreSound
<1>2. PICK verdicts \in Verdicts : AllSay(verdicts)
  BY <1>1 DEF OneVerdict
<1>3. StoresSay(verdicts) /\ \A b \in Attempts : RequestSays(verdicts, b)
  BY <1>2, AllSayParts
<1>4. PICK w : w = Opened(verdicts, s, ask)
  OBVIOUS
<1>5. w \in Verdicts /\ StoresSay(w)' /\ \A x \in Sessions : x # s => w[x] = verdicts[x]
  BY <1>1, <1>3, <1>4, CreatedSays
<1>6. ASSUME NEW b, NEW r, Fine(b, r), Says(verdicts, r)
      PROVE  Says(w, r)
  <2>1. r.draft # None => r.session \in Sessions /\ r.session # s
    BY <1>6 DEF Fine, InHand, Created
  <2> QED
    BY <1>5, <1>6, <2>1 DEF Says
<1>7. \A b \in Attempts : Says(w, req[b]) /\ (late[b] # None => Says(w, late[b]))
  BY <1>1, <1>3, <1>6 DEF RequestSays, Proper
<1>8. Says(w, n)
  BY <1>7, NoneAssumption DEF Says
<1>9. \A b \in Attempts : RequestSays(w, b)'
  BY <1>7, <1>8 DEF RequestSays
<1>10. OneVerdict'
  BY <1>5, <1>9, AllSayPartsThen, VerdictIsOneThen DEF Verdicts
<1>11. StoresAreSound' /\ Onward /\ \A b \in Attempts : Fenced(b)
  BY <1>1, CreatedIsOnward, CreatedStores
<1>12. OthersSame(a)
  BY <1>11 DEF OthersSame
<1> QED
  BY <1>10, <1>11, <1>12, AnyStep

\* A start that is over was told of a session, and has nothing in hand.
LEMMA StartedIsFine ==
    ASSUME NEW a, NEW n \in Requests, n.pc = "over", n.kind = "start", n.draft = None, n.since <= now
    PROVE  Fine(a, n)
<1>1. Shaped(n)
  BY DEF Shaped, Working, Grading
<1>2. Graded(n) /\ InHand(a, n)
  BY DEF Graded, InHand, Grading
<1> QED
  BY <1>1, <1>2 DEF Fine

\* The creation of a session keeps the invariant.
LEMMA CreateStep ==
    ASSUME IInv, NEW a \in Attempts, Create(a)
    PROVE  IInv' /\ Onward
<1>1. StoresTyped /\ RequestsTyped /\ Proper(a) /\ StoresAreSound /\ Typed
  BY InvParts, TypedParts DEF StoresAreSound
<1>2. PICK r \in Requests : r = req[a]
  BY <1>1 DEF RequestsTyped
<1>3. PICK s \in Sessions, t \in Instants(r) :
          CreateAs(r, s, t) /\ Go(a, Answered([r EXCEPT !.session = s]))
  BY <1>2 DEF Create
<1>4. r.pc = "create" /\ UNCHANGED <<now, maxCount, path, memory, late>>
  BY <1>2 DEF Create
<1>5. /\ r.kind = "start" /\ r.draft = None /\ r.ask \in StartRequests
      /\ r.ask.stage <= Len(path) + 1 /\ Fine(a, r)
  BY <1>1, <1>2, <1>4 DEF Proper, Fine, Shaped
<1>6. t \in Nat
  BY <1>1 DEF Instants, Requests, Typed
<1>7. PICK key, ask : key = r.key /\ ask = r.ask
  OBVIOUS
<1>8. PICK gone, new : Created(s, key, ask, gone, new)
  BY <1>1, <1>3, <1>4, <1>5, <1>6, <1>7, CreatedByCreate
<1>9. PICK m : m = [r EXCEPT !.session = s]
  OBVIOUS
<1>10. /\ m \in Requests /\ m.session = s /\ m.kind = r.kind /\ m.key = r.key /\ m.draft = r.draft
  BY <1>9 DEF Requests
<1>11. PICK n : n = Answered(m)
  OBVIOUS
<1>12. /\ n \in Requests /\ n.pc = "over" /\ n.since <= now /\ n.kind = "start" /\ n.session = s
       /\ n.key = key /\ n.draft = None
  BY <1>1, <1>5, <1>7, <1>10, <1>11, AnsweredFields
<1>13. Fine(a, n)
  BY <1>12, StartedIsFine
<1>14. late[a] = None
  BY <1>1, <1>2, <1>4 DEF Proper, Left
<1>15. /\ RequestsTyped' /\ req'[a] = n /\ late'[a] = None
       /\ \A b \in Attempts : b # a => req'[b] = req[b] /\ late'[b] = late[b]
  BY <1>1, <1>3, <1>4, <1>9, <1>11, <1>12, <1>14 DEF Go, RequestsTyped
<1>16. Typed' => Proper(a)'
  <2> SUFFICES ASSUME Typed' PROVE Proper(a)'
    OBVIOUS
  <2>1. Onward
    BY <1>1, <1>8, CreatedIsOnward
  <2>2. Fine(a, n)'
    BY <1>1, <1>12, <1>13, <2>1, FineStays DEF Working
  <2>3. Found(n)'
    BY <1>8, <1>12 DEF Found, Created, Stored
  <2>4. \A x \in Sessions, phase \in Phases : Claims(n, x, phase)
    BY <1>12 DEF Claims
  <2> QED
    BY <1>15, <2>2, <2>3, <2>4, NowProper
<1> QED
  BY <1>8, <1>12, <1>15, <1>16, CreatedStep

\* A thread that was left behind creates the session it was asked for.
LEMMA LateCreateStep ==
    ASSUME IInv, NEW a \in Attempts, LateThread(a), late[a].pc = "create"
    PROVE  IInv' /\ Onward
<1>1. StoresTyped /\ RequestsTyped /\ Proper(a) /\ StoresAreSound /\ Typed
  BY InvParts, TypedParts DEF StoresAreSound
<1>2. late[a] # None
  BY DEF LateThread
<1>3. PICK l \in Requests : l = late[a]
  BY <1>1, <1>2 DEF RequestsTyped
<1>4. /\ UNCHANGED rows \/ \E s \in Sessions : CreateAs(l, s, l.since)
      /\ UNCHANGED <<now, maxCount, path, memory, req>> /\ late' = [late EXCEPT ![a] = None]
  BY <1>3 DEF LateThread
<1>5. /\ l.ask \in StartRequests /\ l.ask.stage <= Len(path) + 1 /\ l.since \in Nat
  BY <1>1, <1>2, <1>3 DEF Proper, Fine, Shaped, Requests
<1>6. CASE UNCHANGED rows
  <2>1. Still
    BY <1>4, <1>6 DEF Still
  <2> QED
    BY <1>2, <1>4, <2>1, LateQuietStep
<1>7. CASE \E s \in Sessions : CreateAs(l, s, l.since)
  <2>1. PICK s \in Sessions : CreateAs(l, s, l.since)
    BY <1>7
  <2>2. PICK key, ask : key = l.key /\ ask = l.ask
    OBVIOUS
  <2>3. PICK t \in Nat : t = l.since
    BY <1>5
  <2>4. PICK gone, new : Created(s, key, ask, gone, new)
    <3>1. CreateAs(l, s, t) /\ UNCHANGED <<now, maxCount, path, memory>>
      BY <1>4, <2>1, <2>3
    <3> QED
      BY <1>1, <1>5, <2>2, <3>1, CreatedByCreate
  <2>5. PICK n : n = req[a]
    OBVIOUS
  <2>6. /\ RequestsTyped' /\ req'[a] = n /\ late'[a] = None
        /\ \A b \in Attempts : b # a => req'[b] = req[b] /\ late'[b] = late[b]
    BY <1>1, <1>4, <2>5 DEF RequestsTyped
  <2>7. Typed' => Proper(a)'
    <3>1. Onward /\ Fenced(a)
      BY <1>1, <2>4, CreatedIsOnward
    <3>2. \A x \in Sessions, phase \in Phases :
              Stored(rows'[x]) /\ rows'[x].token = <<a, phase>> =>
                  Stored(rows[x]) /\ rows[x].token = <<a, phase>>
      BY <3>1 DEF Fenced
    <3> QED
      BY <1>1, <1>2, <2>5, <2>6, <3>1, <3>2, LateIsProper
  <2> QED
    BY <2>4, <2>5, <2>6, <2>7, CreatedStep
<1> QED
  BY <1>4, <1>6, <1>7

\* So does whatever a thread that was left behind may do.
LEMMA LateStep ==
    ASSUME IInv, NEW a \in Attempts, LateThread(a)
    PROVE  IInv' /\ Onward
<1>1. late[a] # None
  BY DEF LateThread
<1>2. Left(a)
  BY <1>1 DEF IInv, RequestsAreFine
<1>3. late[a].pc \in {"claim", "release", "create", "checkpoint", "complete", "memory", "stage"}
  BY <1>2 DEF Left
<1> QED
  BY <1>3, LateClaimStep, LateCreateStep, LateWriteStep, LateMemoryStep, LateStageStep

-----------------------------------------------------------------------------
(***************************************************************************)
(* The invariant                                                           *)
(***************************************************************************)

\* A row of an initial table.
LEMMA InitialRows ==
    ASSUME NEW p, NEW k, NEW row, row = InitialRow(p, k)
    PROVE  row.there = "stored" /\ row.payload = p /\ row.key = k /\ row.token = None
<1>1. row = [there |-> "stored", key |-> k, payload |-> p, token |-> None,
             lease |-> 0, expires |-> 1 + TtlSeconds]
  BY DEF InitialRow, NoRow
<1> QED
  BY <1>1

\* The initial tables: sound aggregates that nobody has claimed.
LEMMA InitialTable ==
    ASSUME Init
    PROVE  /\ now = 1 /\ path = <<>> /\ memory = [s \in Sessions |-> {}]
           /\ rows \in [Sessions -> Row]
           /\ \A s \in Sessions :
                 \/ rows[s].there = "never"
                 \/ /\ rows[s].there = "stored" /\ rows[s].token = None
                    /\ Sound(s, rows[s].payload)
           /\ KeysApart
<1>1. /\ now = 1 /\ path = <<>> /\ memory = [s \in Sessions |-> {}] /\ rows \in InitialTables
  BY DEF Init
<1>2. rows \in [Sessions -> Row]
  BY <1>1, TablesAssumption
<1>3. ASSUME NEW s \in Sessions, rows[s] # NoRow
      PROVE  /\ rows[s].there = "stored" /\ rows[s].token = None
             /\ Sound(s, rows[s].payload)
  <2>1. PICK p : p = rows[s].payload
    OBVIOUS
  <2>2. /\ p \in Payload /\ rows[s] = InitialRow(p, rows[s].key)
        /\ Valid(p) /\ IsFiniteSet({k \in Keys : p.bound[k] # None})
        /\ p.stage <= 1 /\ ~ p.profile
    BY <1>1, <1>3, <2>1, TablesAssumption
  <2>3. rows[s].there = "stored" /\ rows[s].token = None
    BY <2>2, InitialRows
  <2>4. ~ p.progress
    BY <2>2 DEF Valid, Payload
  <2>5. Len(path) = 0
    BY <1>1
  <2>6. Sound(s, p)
    BY <2>2, <2>4, <2>5 DEF Sound
  <2> QED
    BY <2>1, <2>3, <2>6
<1>4. KeysApart
  BY <1>1, TablesAssumption DEF KeysApart
<1>5. NoRow.there = "never"
  BY DEF NoRow
<1> QED
  BY <1>1, <1>2, <1>3, <1>4, <1>5

\* The stores are sound initially.
LEMMA InitialStores ==
    ASSUME Init
    PROVE  StoresAreSound
<1>1. /\ now = 1 /\ path = <<>> /\ memory = [s \in Sessions |-> {}]
      /\ rows \in [Sessions -> Row]
      /\ \A s \in Sessions :
            \/ rows[s].there = "never"
            \/ /\ rows[s].there = "stored" /\ rows[s].token = None
               /\ Sound(s, rows[s].payload)
      /\ KeysApart
  BY InitialTable
<1>2. DOMAIN path = {}
  BY <1>1
<1>3. \A s \in Sessions : memory[s] = {}
  BY <1>1
<1>4. maxCount \in Nat /\ Cardinality(StoredSessions) <= maxCount
  <2>1. maxCount = Cardinality(IF StoredSessions = {} THEN Sessions ELSE StoredSessions)
    BY DEF Init, StoredSessions
  <2>2. IsFiniteSet(StoredSessions) /\ Cardinality(Sessions) \in Nat
    BY SessionsAssumption, FS_Subset, FS_CardinalityType DEF StoredSessions
  <2>3. Cardinality(StoredSessions) \in Nat
    BY <2>2, FS_CardinalityType
  <2>4. CASE StoredSessions = {}
    <3>1. Cardinality(StoredSessions) = 0
      BY <2>4, FS_EmptySet
    <3> QED
      BY <2>1, <2>2, <2>4, <3>1
  <2>5. CASE StoredSessions # {}
    BY <2>1, <2>3, <2>5
  <2> QED
    BY <2>4, <2>5
<1>5. StoresTyped
  BY <1>1, <1>4, BoundAssumption DEF StoresTyped
<1>6. RowsAreSound
  BY <1>1, <1>2, <1>3 DEF RowsAreSound, Stored
<1>7. StagesAreRemembered
  BY <1>2 DEF StagesAreRemembered
<1> QED
  BY <1>1, <1>4, <1>5, <1>6, <1>7 DEF StoresAreSound

\* The verdicts of an initial table are those of its aggregates.
LEMMA InitialVerdict ==
    ASSUME Init
    PROVE  OneVerdict
<1>1. /\ path = <<>> /\ memory = [s \in Sessions |-> {}]
      /\ \A s \in Sessions : Stored(rows[s]) => rows[s].payload \in Payload
  BY InitialTable DEF Sound, Stored
<1> DEFINE open == [q \in Questions |-> None]
           stageOf(s) == IF Stored(rows[s]) THEN rows[s].payload.stage ELSE 0
           gradesOf(s) == IF Stored(rows[s]) THEN rows[s].payload.grades ELSE open
           verdicts == [s \in Sessions |-> [stage |-> stageOf(s), grades |-> gradesOf(s)]]
<1>2. open \in [Questions -> Grades] /\ 0 \in 0..TotalStages
  BY StagesAssumption DEF Grades
<1>3. \A s \in Sessions : stageOf(s) \in 0..TotalStages /\ gradesOf(s) \in [Questions -> Grades]
  BY <1>1, <1>2 DEF Payload
<1> HIDE DEF open
<1>4. verdicts \in Verdicts
  BY <1>3 DEF Verdicts
<1>5. ASSUME NEW s \in Sessions
      PROVE  /\ Stored(rows[s]) =>
                   /\ rows[s].payload.stage = verdicts[s].stage
                   /\ rows[s].payload.reported => rows[s].payload.grades = verdicts[s].grades
             /\ memory[s] = {}
  BY <1>1
<1> HIDE DEF verdicts
<1>6. StoresSay(verdicts)
  BY <1>1, <1>5 DEF StoresSay
<1>7. ASSUME NEW b \in Attempts PROVE RequestSays(verdicts, b)
  <2>1. req[b] = Idle /\ late[b] = None
    BY DEF Init
  <2> QED
    BY <2>1, GoneFields DEF RequestSays, Says
<1>8. AllSay(verdicts)
  BY <1>6, <1>7, AllSayParts
<1> QED
  BY <1>4, <1>8, VerdictIsOne

\* A request that has asked for nothing has nothing in hand.
LEMMA IdleIsFine ==
    ASSUME NEW a, now = 1
    PROVE  Fine(a, Idle)
<1>1. /\ Idle.pc = "idle" /\ Idle.kind = None /\ Idle.draft = None /\ Idle.since = 1
  BY DEF Idle
<1>2. PICK r : r = Idle
  OBVIOUS
<1>3. Shaped(r)
  BY <1>1, <1>2 DEF Shaped, Working
<1>4. Graded(r) /\ InHand(a, r)
  BY <1>1, <1>2 DEF Graded, InHand
<1> QED
  BY <1>2, <1>3, <1>4 DEF Fine

\* The invariant holds initially.
LEMMA InitInv == Init => IInv
<1> SUFFICES ASSUME Init PROVE IInv
  OBVIOUS
<1>1. StoresAreSound /\ OneVerdict
  BY InitialStores, InitialVerdict
<1>2. /\ req = [a \in Attempts |-> Idle] /\ late = [a \in Attempts |-> None] /\ now = 1
  BY DEF Init
<1>3. RequestsTyped
  BY <1>2, GoneFields DEF RequestsTyped
<1>4. ASSUME NEW a \in Attempts PROVE Proper(a)
  <2>1. req[a] = Idle /\ late[a] = None
    BY <1>2
  <2>2. Fine(a, req[a])
    BY <1>2, <2>1, IdleIsFine
  <2>3. TokensOf(a)
    BY InitialTable, TokensAreNotNone DEF TokensOf, Stored
  <2>4. Found(req[a])
    BY <2>1, GoneFields DEF Found
  <2> QED
    BY <2>1, <2>2, <2>3, <2>4, GoneFields DEF Proper
<1> QED
  BY <1>1, <1>3, <1>4, InvParts

\* A move of one request that leaves every store alone keeps the invariant.
LEMMA QuietMoves ==
    ASSUME IInv, NEW a \in Attempts, Moves(a), UNCHANGED <<now, maxCount, rows, path, memory, late>>,
           req[a].pc \notin {"over", "release", "refind"} \/ req'[a].pc = "over"
    PROVE  IInv' /\ Onward
<1>1. Typed /\ Proper(a)
  BY InvParts, TypedParts DEF StoresAreSound
<1>2. Leaves(a)
  BY <1>1, MovesLeaves
<1> QED
  BY <1>2, QuietStep DEF Still

\* After a failure the row that may have been left is looked for, once.
LEMMA FindStartStep ==
    ASSUME IInv, NEW a \in Attempts, FindStart(a)
    PROVE  IInv' /\ Onward
<1>1. Typed /\ Proper(a) /\ RequestsTyped
  BY InvParts, TypedParts DEF StoresAreSound
<1>2. Moves(a)
  BY <1>1, FindStartMoves
<1>3. /\ UNCHANGED <<now, maxCount, rows, path, memory, late>>
      /\ req[a].pc \in {"find", "refind"}
  BY DEF FindStart
<1>4. req[a].pc = "refind" => req'[a].pc = "over"
  <2> SUFFICES ASSUME req[a].pc = "refind" PROVE req'[a].pc = "over"
    OBVIOUS
  <2>1. PICK r \in Requests : r = req[a]
    BY <1>1 DEF RequestsTyped
  <2>2. \/ Go(a, Gone)
        \/ \E s \in Sessions : Go(a, Answered([r EXCEPT !.session = s]))
    BY <1>1, <2>1 DEF FindStart, StartedUnder, Typed
  <2>3. ASSUME NEW s \in Sessions PROVE Answered([r EXCEPT !.session = s]).pc = "over"
    BY DEF Answered, Gone, Idle
  <2>4. \E n : Go(a, n) /\ n.pc = "over"
    BY <2>2, <2>3, GoneFields
  <2> QED
    BY <1>1, <2>4 DEF Go, RequestsTyped
<1> QED
  BY <1>2, <1>3, <1>4, QuietMoves

\* Actions that only move their request.
LEMMA QuietActions ==
    ASSUME IInv, NEW a \in Attempts,
           \/ ReceiveStart(a) \/ ReceiveAnswer(a) \/ ReceiveOther(a)
           \/ BindStage(a) \/ CreateRefused(a) \/ Inspect(a)
           \/ ClaimRefused(a) \/ Reread(a) \/ GradeExact(a) \/ GradeByProvider(a)
           \/ WriteReport(a) \/ ProviderFails(a)
    PROVE  IInv' /\ Onward
<1>1. Typed /\ Proper(a) /\ RowsAreSound
  BY InvParts, TypedParts DEF StoresAreSound
<1>2. Moves(a)
  BY <1>1, ReceiveStartMoves, ReceiveAnswerMoves, ReceiveOtherMoves, BindStageMoves,
     CreateRefusedMoves, InspectMoves, ClaimRefusedMoves, RereadMoves, GradeExactMoves,
     GradeByProviderMoves, WriteReportMoves, ProviderFailsMoves
<1>3. CASE ReceiveStart(a) \/ ReceiveAnswer(a) \/ ReceiveOther(a)
  <2>1. req[a] = Idle /\ UNCHANGED <<now, maxCount, rows, path, memory, late>>
    BY <1>3 DEF ReceiveStart, ReceiveAnswer, ReceiveOther, Receive
  <2> QED
    BY <1>2, <2>1, GoneFields, QuietMoves
<1>4. CASE \/ BindStage(a) \/ CreateRefused(a) \/ Inspect(a) \/ ClaimRefused(a) \/ Reread(a)
  <2>1. /\ req[a].pc \in {"bind", "rebind", "create", "inspect", "claim", "reread"}
        /\ UNCHANGED <<now, maxCount, rows, path, memory, late>>
    BY <1>4 DEF BindStage, CreateRefused, Inspect, ClaimRefused, Reread
  <2> QED
    BY <1>2, <2>1, QuietMoves
<1>5. CASE \/ GradeExact(a) \/ GradeByProvider(a) \/ WriteReport(a) \/ ProviderFails(a)
  <2>1. /\ req[a].pc \in {"exact", "provider", "learn"}
        /\ UNCHANGED <<now, maxCount, rows, path, memory, late>>
    BY <1>5 DEF GradeExact, GradeByProvider, WriteReport, ProviderFails
  <2> QED
    BY <1>2, <2>1, QuietMoves
<1> QED
  BY <1>3, <1>4, <1>5

\* Actions by which a request leaves.
LEMMA LeavingActions ==
    ASSUME IInv, NEW a \in Attempts, Interrupted(a) \/ CallInterrupted(a) \/ Die(a)
    PROVE  IInv' /\ Onward
<1>1. Typed /\ Proper(a)
  BY InvParts, TypedParts DEF StoresAreSound
<1>2. Leaves(a)
  BY <1>1, InterruptedLeaves, CallInterruptedLeaves, DieLeaves
<1>3. Still
  BY DEF Interrupted, CallInterrupted, Die, Still
<1> QED
  BY <1>2, <1>3, QuietStep

\* A step that changes nothing.
LEMMA IdleStep ==
    ASSUME IInv, UNCHANGED vars
    PROVE  IInv' /\ Onward
<1>1. StoresTyped /\ RequestsTyped /\ OneVerdict
  BY InvParts DEF StoresAreSound
<1>2. /\ RequestsTyped' /\ Still /\ UNCHANGED <<req, late>>
  BY <1>1 DEF RequestsTyped, vars, Still
<1>3. SamePayloads /\ \A b \in Attempts : Fenced(b)
  BY <1>1, <1>2, StillIsSame
<1>4. Typed /\ Typed' /\ Onward /\ StoresAreSound' /\ \A b \in Attempts : Proper(b)
  BY <1>2, <1>3, SameTyped
<1>5. \A b \in Attempts : Proper(b)'
  BY <1>2, <1>3, <1>4, OthersStayProper
<1>6. OneVerdict'
  BY <1>1, <1>2 DEF OneVerdict, AllSay, Says, Confirmed, Verdicts, Still
<1> QED
  BY <1>2, <1>4, <1>5, <1>6, InvPartsThen

\* Every step keeps the invariant, and takes nothing back.
LEMMA StepInv == IInv /\ [Next]_vars => IInv' /\ Onward
<1> SUFFICES ASSUME IInv, [Next]_vars PROVE IInv' /\ Onward
  OBVIOUS
<1>1. CASE UNCHANGED vars
  BY <1>1, IdleStep
<1>2. CASE Tick
  BY <1>2, TickStep
<1>3. ASSUME NEW a \in Attempts,
             \/ ReceiveStart(a) \/ ReceiveAnswer(a) \/ ReceiveOther(a)
             \/ FindStart(a) \/ BindStage(a) \/ Create(a) \/ CreateRefused(a) \/ Inspect(a)
             \/ Claim(a) \/ ClaimRefused(a) \/ Checkpoint(a) \/ Complete(a) \/ Release(a) \/ Reread(a)
             \/ GradeExact(a) \/ GradeByProvider(a) \/ WriteMemory(a) \/ CompleteStage(a)
             \/ WriteReport(a)
             \/ Interrupted(a) \/ ProviderFails(a) \/ CallInterrupted(a) \/ Die(a) \/ LateThread(a)
      PROVE  IInv' /\ Onward
  <2>1. CASE \/ ReceiveStart(a) \/ ReceiveAnswer(a) \/ ReceiveOther(a)
             \/ BindStage(a) \/ CreateRefused(a) \/ Inspect(a)
             \/ ClaimRefused(a) \/ Reread(a) \/ GradeExact(a) \/ GradeByProvider(a)
             \/ WriteReport(a) \/ ProviderFails(a)
    BY <2>1, QuietActions
  <2>2. CASE Interrupted(a) \/ CallInterrupted(a) \/ Die(a)
    BY <2>2, LeavingActions
  <2>3. CASE FindStart(a) \/ Create(a) \/ LateThread(a)
    BY <2>3, FindStartStep, CreateStep, LateStep
  <2>4. CASE Claim(a) \/ Release(a)
    BY <2>4, ClaimStep, ReleaseStep
  <2>5. CASE Checkpoint(a) \/ Complete(a)
    BY <2>5, CheckpointStep, CompleteStep
  <2>6. CASE WriteMemory(a) \/ CompleteStage(a)
    BY <2>6, MemoryStep, StageStep
  <2> QED
    BY <1>3, <2>1, <2>2, <2>3, <2>4, <2>5, <2>6
<1> QED
  BY <1>1, <1>2, <1>3 DEF Next

\* In every state the types hold, and every stored aggregate can be read back.
THEOREM TypeCorrect == Spec => []TypeOK
<1>1. IInv => TypeOK
  BY DEF IInv
<1>2. IInv /\ [Next]_vars => IInv'
  BY StepInv
<1> QED
  BY <1>1, <1>2, InitInv, PTL DEF Spec

\* The inductive invariant: what each request may have in hand at each place,
\* whose every claim is, and the one verdict of every session.
THEOREM Invariance == Spec => []IInv
<1>1. IInv /\ [Next]_vars => IInv'
  BY StepInv
<1> QED
  BY <1>1, InitInv, PTL DEF Spec

-----------------------------------------------------------------------------
(***************************************************************************)
(* What clients are told, and what the memory and the path are given       *)
(***************************************************************************)

\* A graded answer that was given is the verdict its session keeps.
LEMMA OverReports ==
    ASSUME IInv, NEW a \in Attempts, NEW r, r = req[a], r.pc = "over", r.kind \in Grading
    PROVE  /\ r.draft # None /\ r.draft.reported
           /\ \A verdicts : AllSay(verdicts) => r.draft.grades = verdicts[r.session].grades
           /\ Stored(rows[r.session]) => Extends(r.draft, rows[r.session].payload)
<1>1. Fine(a, r)
  BY DEF IInv, RequestsAreFine
<1>2. r.draft # None /\ Confirmed(r)
  BY <1>1 DEF Fine, Shaped, Confirmed
<1>3. r.draft.reported
  BY <1>1, <1>2 DEF Fine, Graded
<1>4. Stored(rows[r.session]) => Extends(r.draft, rows[r.session].payload)
  BY <1>1, <1>2 DEF Fine, InHand
<1> QED
  BY <1>2, <1>3, <1>4 DEF AllSay, Says

\* The answers agree in every state of the invariant.
LEMMA AnswersFollow == IInv => AnswersAgree
<1> SUFFICES ASSUME IInv PROVE AnswersAgree
  OBVIOUS
<1>1. KeysAreOfOne /\ OneVerdict /\ rows \in [Sessions -> Row]
  BY DEF IInv, TypeOK
<1>2. PICK verdicts \in Verdicts : AllSay(verdicts)
  BY <1>1 DEF OneVerdict
<1>3. ASSUME NEW a \in Attempts, NEW r, r = req[a], r.pc = "over", r.kind = "start", r.key # None,
             Stored(rows[r.session])
      PROVE  StartedUnder(rows, r.key) = {r.session}
  <2>1. r.session \in Sessions /\ rows[r.session].key = r.key
    BY <1>1, <1>3 DEF KeysAreOfOne
  <2>2. \A x \in Sessions : Stored(rows[x]) /\ rows[x].key = r.key => x = r.session
    BY <1>1, <1>3, <2>1 DEF KeysAreOfOne
  <2>3. DOMAIN rows = Sessions
    BY <1>1
  <2> QED
    BY <1>3, <2>1, <2>2, <2>3 DEF StartedUnder
<1>4. ASSUME NEW a \in Attempts, NEW r, r = req[a], r.pc = "over", r.kind \in {"grade", "report"}
      PROVE  /\ Stored(rows[r.session]) => Extends(r.draft, rows[r.session].payload)
             /\ \A b \in Attempts :
                   /\ req[b].pc = "over" /\ req[b].kind \in {"grade", "report"}
                   /\ req[b].session = r.session
                   => req[b].draft.grades = r.draft.grades
  <2>1. /\ Stored(rows[r.session]) => Extends(r.draft, rows[r.session].payload)
        /\ r.draft.grades = verdicts[r.session].grades
    BY <1>2, <1>4, OverReports DEF Grading
  <2>2. ASSUME NEW b \in Attempts, NEW o, o = req[b], o.pc = "over", o.kind \in {"grade", "report"},
               o.session = r.session
        PROVE  o.draft.grades = r.draft.grades
    BY <1>2, <2>1, <2>2, OverReports DEF Grading
  <2> QED
    BY <2>1, <2>2
<1> QED
  BY <1>1, <1>3, <1>4 DEF AnswersAgree, KeysAreOfOne

\* Starts of one key lead to one session, and every grade or report that a
\* client was given, by whichever request and however often, is the verdict
\* its session keeps.
THEOREM AnswersStayOne == Spec => []AnswersAgree
BY Invariance, AnswersFollow, PTL

\* The memory is canonical in every state of the invariant.
LEMMA MemoryFollows == IInv => MemoryIsCanonical
<1> SUFFICES ASSUME IInv, NEW s \in Sessions, NEW p, p = rows[s].payload
             PROVE  /\ Cardinality(memory[s] \ {Plain}) <= 1
                    /\ Stored(rows[s]) =>
                          /\ p.profile => memory[s] # {}
                          /\ p.reported => memory[s] \subseteq {p.grades, Plain}
                          /\ p.short \/ p.stage # 0 => Plain \notin memory[s]
  BY DEF MemoryIsCanonical
<1>1. RowsAreSound /\ OneVerdict
  BY DEF IInv
<1>2. PICK verdicts \in Verdicts : AllSay(verdicts)
  BY <1>1 DEF OneVerdict
<1>3. /\ memory[s] \subseteq {verdicts[s].grades, Plain}
      /\ Stored(rows[s]) /\ p.reported => p.grades = verdicts[s].grades
  BY <1>2 DEF AllSay
<1>4. Cardinality(memory[s] \ {Plain}) <= 1
  <2>1. PICK g : g = verdicts[s].grades
    OBVIOUS
  <2>2. memory[s] \ {Plain} \subseteq {g}
    BY <1>3, <2>1
  <2>3. IsFiniteSet({g}) /\ Cardinality({g}) = 1
    BY FS_Singleton
  <2>4. PICK m : m = memory[s] \ {Plain}
    OBVIOUS
  <2>5. Cardinality(m) <= Cardinality({g})
    BY <2>2, <2>3, <2>4, FS_Subset
  <2> QED
    BY <2>3, <2>4, <2>5
<1>5. Stored(rows[s]) =>
          /\ p.profile => memory[s] # {}
          /\ p.short \/ p.stage # 0 => Plain \notin memory[s]
  BY <1>1 DEF RowsAreSound, Sound
<1> QED
  BY <1>3, <1>4, <1>5

\* The learner's memory holds one provider-made report of a quiz at most, the
\* one its session stores, whoever repaired the outbox and however late.
THEOREM MemoryStaysCanonical == Spec => []MemoryIsCanonical
BY Invariance, MemoryFollows, PTL

\* The stage a quiz completes is never found locked.
LEMMA StageIsAccepted ==
    ASSUME IInv, NEW a \in Attempts, NEW r, r = req[a], r.pc = "stage"
    PROVE  StageAnswer(r) \in P!Accepted
<1>1. StoresTyped /\ RequestsTyped /\ Proper(a) /\ OneVerdict
  BY InvParts DEF StoresAreSound
<1>2. r \in Requests /\ r.pc \in Working
  BY <1>1 DEF RequestsTyped, Working
<1>3. PICK s, d : s = r.session /\ d = r.draft
  OBVIOUS
<1>4. AtWork(a, r) /\ d \in Payload /\ Sound(s, d)
  BY <1>1, <1>2, <1>3, FineIsAtWork DEF Proper
<1>5. Confirmed(r) /\ d.stage # 0 /\ d.reported /\ d # None
  BY <1>3, <1>4 DEF AtWork, Confirmed, Graded
<1>6. PICK verdicts \in Verdicts : AllSay(verdicts)
  BY <1>1 DEF OneVerdict
<1>7. d.stage = verdicts[s].stage /\ d.grades = verdicts[s].grades
  BY <1>3, <1>5, <1>6 DEF AllSay, Says
<1>8. PICK receipts : receipts = P!ReceiptsOf(path, s)
  OBVIOUS
<1>9. \A n \in receipts : n = d.stage /\ path[n].report = d.grades
  <2> SUFFICES ASSUME NEW n \in receipts PROVE n = d.stage /\ path[n].report = d.grades
    OBVIOUS
  <2>1. n \in DOMAIN path /\ path[n].quiz = s
    BY <1>8 DEF P!ReceiptsOf
  <2>2. verdicts[s] = [stage |-> n, grades |-> path[n].report]
    BY <1>6, <2>1 DEF AllSay
  <2>3. verdicts[s].stage = n /\ verdicts[s].grades = path[n].report
    BY <2>2
  <2> QED
    BY <1>7, <2>3
<1>10. /\ d.stage \in Nat /\ d.stage <= TotalStages /\ d.stage <= Len(path) + 1 /\ Len(path) \in Nat
       /\ TotalStages \in Nat
  BY <1>1, <1>4, PathEntries, StagesAssumption DEF Sound, Payload
<1>11. PICK answer : answer = P!CompletionAnswer(path, d.stage, s, d.grades)
  OBVIOUS
<1>12. CASE receipts # {}
  <2>1. answer = "replayed"
    BY <1>8, <1>9, <1>10, <1>11, <1>12 DEF P!CompletionAnswer, P!CompletedThrough
  <2> QED
    BY <1>3, <1>11, <2>1 DEF StageAnswer, P!Accepted
<1>13. CASE receipts = {} /\ d.stage <= Len(path)
  <2>1. answer = "already_completed"
    BY <1>8, <1>10, <1>11, <1>13 DEF P!CompletionAnswer, P!CompletedThrough
  <2> QED
    BY <1>3, <1>11, <2>1 DEF StageAnswer, P!Accepted
<1>14. CASE receipts = {} /\ d.stage = Len(path) + 1
  <2>1. answer = "completed"
    BY <1>8, <1>10, <1>11, <1>14 DEF P!CompletionAnswer, P!CompletedThrough
  <2> QED
    BY <1>3, <1>11, <2>1 DEF StageAnswer, P!Accepted
<1> QED
  BY <1>10, <1>12, <1>13, <1>14

\* Stages go by their grades in every state of the invariant.
LEMMA StageFollows == IInv => StageByItsGrade
<1> SUFFICES ASSUME IInv PROVE StageByItsGrade
  OBVIOUS
<1>1. StoresTyped /\ RowsAreSound /\ StagesAreRemembered /\ OneVerdict
  BY InvParts DEF StoresAreSound
<1>2. PICK verdicts \in Verdicts : AllSay(verdicts)
  BY <1>1 DEF OneVerdict
<1>3. ASSUME NEW n \in DOMAIN path
      PROVE  /\ path[n].report \in memory[path[n].quiz]
             /\ Stored(rows[path[n].quiz]) =>
                   LET p == rows[path[n].quiz].payload
                   IN p.stage = n /\ p.profile /\ p.grades = path[n].report
  <2>1. PICK s, p : s = path[n].quiz /\ p = rows[s].payload
    OBVIOUS
  <2>2. s \in Sessions
    BY <1>1, <2>1, PathEntries
  <2>3. /\ path[n].report \in memory[s]
        /\ Stored(rows[s]) => p.profile
    BY <1>1, <2>1 DEF StagesAreRemembered
  <2>4. Stored(rows[s]) => p.reported
    BY <1>1, <2>1, <2>2 DEF RowsAreSound
  <2>5. verdicts[s] = [stage |-> n, grades |-> path[n].report]
    BY <1>2, <2>1 DEF AllSay
  <2>6. verdicts[s].stage = n /\ verdicts[s].grades = path[n].report
    BY <2>5
  <2>7. Stored(rows[s]) => p.stage = verdicts[s].stage /\ p.grades = verdicts[s].grades
    BY <1>2, <2>1, <2>2, <2>4 DEF AllSay
  <2> QED
    BY <2>1, <2>3, <2>6, <2>7
<1>4. \A a \in Attempts : req[a].pc = "stage" => StageAnswer(req[a]) \in P!Accepted
  BY StageIsAccepted
<1>5. \A s \in Sessions : Stored(rows[s]) /\ rows[s].payload.progress =>
          Len(path) >= rows[s].payload.stage
  <2> SUFFICES ASSUME NEW s \in Sessions, Stored(rows[s]), rows[s].payload.progress
               PROVE  Len(path) >= rows[s].payload.stage
    OBVIOUS
  <2>1. Sound(s, rows[s].payload)
    BY <1>1 DEF RowsAreSound
  <2>2. rows[s].payload.stage \in Nat /\ Len(path) \in Nat
    BY <1>1, <2>1, PathEntries DEF Sound, Payload
  <2> QED
    BY <2>1, <2>2 DEF Sound
<1> QED
  BY <1>3, <1>4, <1>5 DEF StageByItsGrade

\* A stage is completed by the quiz of that stage, after the learner's memory
\* has its report, and the quiz of a stage never finds it locked.
THEOREM StagesFollowGrades == Spec => []StageByItsGrade
BY Invariance, StageFollows, PTL

-----------------------------------------------------------------------------
(***************************************************************************)
(* What a step may do to a row                                             *)
(***************************************************************************)

\* The owner of a token took part in the step.
Acts(token) ==
    \E a \in Attempts, phase \in Phases :
        token = <<a, phase>> /\ (req'[a] # req[a] \/ late'[a] # late[a])

RowChange(s) ==
    \/ rows'[s] = rows[s]
    \/ /\ ~ Stored(rows'[s]) /\ FreeAt(rows[s], now)
       /\ Completed(rows[s].payload) \/ rows[s].expires <= now
    \/ Stored(rows'[s]) /\ FreeAt(rows[s], now)
    \/ Stored(rows'[s]) /\ rows'[s].token = rows[s].token
    \/ Stored(rows'[s]) /\ Acts(rows[s].token)

\* A row that was free at an earlier reading of the clock is free now.
LEMMA FreeByNow ==
    ASSUME Typed, NEW row \in Row, NEW t \in Nat, t <= now, FreeAt(row, t)
    PROVE  FreeAt(row, now)
BY DEF FreeAt, Row, Typed

\* A creation removes a row only if its lease is over, and it completed or expired.
LEMMA CreateChanges ==
    ASSUME Typed, NEW r, NEW x \in Sessions, NEW t \in Nat, t <= now, CreateAs(r, x, t),
           NEW s \in Sessions, Stored(rows[s])
    PROVE  RowChange(s)
<1>1. PICK out \in Evictions(rows, maxCount, t) : rows' = CreateRows(rows, x, r.key, r.ask, out, t)
  BY DEF CreateAs
<1>2. rows[x] = NoRow /\ x # s
  BY DEF CreateAs, NoRow, Stored
<1>3. DOMAIN rows = Sessions /\ rows[s] \in Row
  BY DEF Typed
<1>4. rows'[s] = IF s \in Lapsed(rows, t) \cup out THEN Removed(rows[s]) ELSE rows[s]
  BY <1>1, <1>2, <1>3 DEF CreateRows
<1>5. CASE s \in Lapsed(rows, t)
  <2>1. rows[s].expires <= t /\ FreeAt(rows[s], t)
    BY <1>5 DEF Lapsed
  <2>2. ~ Stored(rows'[s])
    BY <1>4, <1>5, RemovedRows DEF Stored
  <2>3. FreeAt(rows[s], now)
    BY <1>3, <2>1, FreeByNow
  <2>4. rows[s].expires <= now
    BY <1>3, <2>1 DEF Row, Typed
  <2> QED
    BY <2>2, <2>3, <2>4 DEF RowChange
<1>6. CASE s \in out
  <2>1. Completed(rows[s].payload) /\ FreeAt(rows[s], t)
    BY <1>1, <1>6 DEF Evictions, Evictable
  <2>2. ~ Stored(rows'[s])
    BY <1>4, <1>6, RemovedRows DEF Stored
  <2>3. FreeAt(rows[s], now)
    BY <1>3, <2>1, FreeByNow
  <2> QED
    BY <2>1, <2>2, <2>3 DEF RowChange
<1>7. CASE s \notin Lapsed(rows, t) \cup out
  BY <1>4, <1>7 DEF RowChange
<1> QED
  BY <1>5, <1>6, <1>7

\* A claim takes a token only once its lease is over.
LEMMA ClaimChanges ==
    ASSUME Typed, NEW x \in Sessions, NEW token \in Tokens, NEW t \in Nat, t <= now, NEW new,
           new = ClaimRow(rows[x], token, t), rows' = [rows EXCEPT ![x] = new],
           NEW s \in Sessions, Stored(rows[s])
    PROVE  RowChange(s)
<1>1. rows \in [Sessions -> Row] /\ rows[x] \in Row
  BY DEF Typed
<1>2. CASE x # s \/ new = rows[x]
  BY <1>1, <1>2 DEF RowChange
<1>3. CASE x = s /\ new # rows[x]
  <2>1. ClaimAnswer(rows[x], t) = "claimed"
    BY <1>3 DEF ClaimRow
  <2>2. FreeAt(rows[x], t)
    BY <2>1 DEF ClaimAnswer
  <2>3. FreeAt(rows[x], now)
    BY <1>1, <2>2, FreeByNow
  <2>4. new.there = rows[x].there
    BY <1>1, ClaimedRows
  <2>5. rows'[x] = new
    BY <1>1
  <2> QED
    BY <1>3, <2>3, <2>4, <2>5 DEF RowChange, Stored
<1> QED
  BY <1>2, <1>3

\* Checkpoint, complete and release, by the owner of the token.
LEMMA OwnerChanges ==
    ASSUME Typed, NEW x \in Sessions, NEW a \in Attempts, NEW phase \in Phases, NEW token,
           token = <<a, phase>>, NEW d \in Payload \cup {None}, NEW t \in Nat, NEW new,
           \/ new = CheckpointRow(rows[x], token, d, t) /\ d \in Payload
           \/ new = CompleteRow(rows[x], token, d, t) /\ d \in Payload
           \/ new = ReleaseRow(rows[x], token),
           rows' = [rows EXCEPT ![x] = new],
           req'[a] # req[a] \/ late'[a] # late[a],
           NEW s \in Sessions, Stored(rows[s])
    PROVE  RowChange(s)
<1>1. rows \in [Sessions -> Row] /\ rows[x] \in Row
  BY DEF Typed
<1>2. rows'[x] = new
  BY <1>1
<1>3. CASE x # s \/ new = rows[x]
  BY <1>1, <1>3 DEF RowChange
<1>4. CASE x = s /\ new # rows[x]
  <2>1. CASE new = ReleaseRow(rows[x], token)
    <3>1. rows[x].token = token
      BY <1>4, <2>1 DEF ReleaseRow
    <3>2. new.there = rows[x].there
      BY <1>1, <2>1, ReleasedRows
    <3>3. Acts(rows[x].token)
      BY <3>1 DEF Acts
    <3> QED
      BY <1>2, <1>4, <3>2, <3>3 DEF RowChange, Stored
  <2>2. CASE new = CheckpointRow(rows[x], token, d, t) /\ d \in Payload
    <3>1. Holds(rows[x], token, d, t)
      BY <1>4, <2>2 DEF CheckpointRow
    <3>2. rows[x].token = token
      BY <3>1 DEF Holds
    <3>3. new.there = rows[x].there
      BY <1>1, <2>2, <3>1, CheckpointedRows
    <3>4. Acts(rows[x].token)
      BY <3>2 DEF Acts
    <3> QED
      BY <1>2, <1>4, <3>3, <3>4 DEF RowChange, Stored
  <2>3. CASE new = CompleteRow(rows[x], token, d, t) /\ d \in Payload
    <3>1. Holds(rows[x], token, d, t)
      BY <1>4, <2>3 DEF CompleteRow
    <3>2. rows[x].token = token
      BY <3>1 DEF Holds
    <3>3. new.there = rows[x].there
      BY <1>1, <2>3, <3>1, CompletedRows
    <3>4. Acts(rows[x].token)
      BY <3>2 DEF Acts
    <3> QED
      BY <1>2, <1>4, <3>3, <3>4 DEF RowChange, Stored
  <2> QED
    BY <2>1, <2>2, <2>3
<1> QED
  BY <1>3, <1>4

\* The instants a request may have read are not in the future.
LEMMA InstantsArePast ==
    ASSUME Typed, NEW r \in Requests, NEW t \in Instants(r)
    PROVE  t \in Nat /\ t <= now
BY DEF Instants, Requests, Typed

\* What a checkpoint answers sends its request on.
LEMMA CheckpointLeaves ==
    ASSUME Typed, NEW r \in Requests, r.after \in {"graded", "provider", "failed"},
           NEW n, n = AfterCheckpoint(r) \/ n = Lost(r)
    PROVE  n.pc # "checkpoint"
<1> DEFINE m == Carry(r, r.phase, r.draft, None)
<1>1. [r EXCEPT !.after = None] = m
  BY CarryForms
<1>2. r.phase \in Phases /\ r.draft \in Payload \cup {None} /\ None \in Afters
      /\ "failed" \in Afters /\ "stale" \in Afters
  BY DEF Requests, Afters
<1>3. ASSUME NEW where \in {"complete", "memory", "stage", "learn", "provider"}, n = At(m, where)
      PROVE  n.pc # "checkpoint"
  <2>1. where \in Places
    BY DEF Places, Calls
  <2>2. n.pc = where
    BY <1>2, <1>3, <2>1, GoesWith
  <2> QED
    BY <2>2
<1>4. ASSUME NEW how \in Afters, n = Ending(r, how)
      PROVE  n.pc # "checkpoint"
  BY <1>4, EndingFields
<1>5. CASE n = Lost(r)
  BY <1>2, <1>4, <1>5 DEF Lost
<1>6. CASE n = AfterCheckpoint(r) /\ r.after = "graded"
  <2>1. PICK where : where = AfterGrading(r, r.draft)
    OBVIOUS
  <2>2. where \in {"complete", "memory", "stage", "learn"}
    BY <2>1 DEF AfterGrading
  <2>3. n = At(m, where)
    BY <1>1, <1>6, <2>1 DEF AfterCheckpoint
  <2> QED
    BY <1>3, <2>2, <2>3
<1>7. CASE n = AfterCheckpoint(r) /\ r.after = "provider"
  <2>1. n = At(m, "provider")
    BY <1>1, <1>7 DEF AfterCheckpoint
  <2> QED
    BY <1>3, <2>1
<1>8. CASE n = AfterCheckpoint(r) /\ r.after = "failed"
  <2>1. n = Ending(r, "failed")
    BY <1>8 DEF AfterCheckpoint
  <2> QED
    BY <1>2, <1>4, <2>1
<1> QED
  BY <1>5, <1>6, <1>7, <1>8

\* What a completion answers sends its request on.
LEMMA CompleteLeaves ==
    ASSUME Typed, NEW r \in Requests, r.draft \in Payload,
           NEW n, n = Repaired(r, r.draft) \/ n = Lost(r)
    PROVE  n.pc # "complete"
<1>1. CASE n = Lost(r)
  <2>1. "failed" \in Afters /\ "stale" \in Afters
    BY DEF Afters
  <2>2. PICK how \in Afters : n = Ending(r, how)
    BY <1>1, <2>1 DEF Lost
  <2> QED
    BY <2>2, EndingFields
<1>2. CASE n = Repaired(r, r.draft)
  BY <1>2, RepairedFields, GoneFields
<1> QED
  BY <1>1, <1>2

\* A checkpoint takes no token but its own.
LEMMA CheckpointChanges ==
    ASSUME IInv, NEW a \in Attempts, Checkpoint(a), NEW s \in Sessions, Stored(rows[s])
    PROVE  RowChange(s)
<1>1. StoresTyped /\ RequestsTyped /\ Proper(a) /\ Typed
  BY InvParts, TypedParts DEF StoresAreSound
<1>2. PICK r \in Requests : r = req[a]
  BY <1>1 DEF RequestsTyped
<1>3. PICK t \in Instants(r) :
          /\ SetRow(r, CheckpointRow(rows[r.session], Token(a, r), r.draft, t))
          /\ Go(a, IF Holds(rows[r.session], Token(a, r), r.draft, t)
                   THEN AfterCheckpoint(r) ELSE Lost(r))
  BY <1>2 DEF Checkpoint
<1>4. r.pc = "checkpoint"
  BY <1>2 DEF Checkpoint
<1>5. AtWork(a, r) /\ Asks(r) /\ r.draft \in Payload
  BY <1>1, <1>2, <1>4, FineIsAtWork DEF Proper, Working, AtWork
<1>6. /\ t \in Nat /\ r.session \in Sessions /\ r.phase \in Phases
      /\ Token(a, r) = <<a, r.phase>>
  BY <1>1, <1>5, InstantsArePast, AskedRows
<1>7. PICK n : /\ n = AfterCheckpoint(r) \/ n = Lost(r)
               /\ Go(a, n)
  BY <1>3
<1>8. n.pc # "checkpoint"
  <2>1. r.after \in {"graded", "provider", "failed"}
    BY <1>4, <1>5 DEF AtWork, Graded
  <2> QED
    BY <1>1, <1>7, <2>1, CheckpointLeaves
<1>9. req'[a] # req[a]
  BY <1>1, <1>2, <1>4, <1>7, <1>8 DEF Go, RequestsTyped
<1>10. PICK x, token, d, phase, new :
           /\ x = r.session /\ token = Token(a, r) /\ d = r.draft /\ phase = r.phase
           /\ new = CheckpointRow(rows[x], token, d, t)
  OBVIOUS
<1>11. /\ rows' = [rows EXCEPT ![x] = new] /\ x \in Sessions /\ phase \in Phases
       /\ token = <<a, phase>> /\ d \in Payload /\ d \in Payload \cup {None}
  BY <1>3, <1>5, <1>6, <1>10 DEF SetRow
<1> QED
  BY <1>1, <1>6, <1>9, <1>10, <1>11, OwnerChanges

\* A completion takes no token but its own.
LEMMA CompleteChanges ==
    ASSUME IInv, NEW a \in Attempts, Complete(a), NEW s \in Sessions, Stored(rows[s])
    PROVE  RowChange(s)
<1>1. StoresTyped /\ RequestsTyped /\ Proper(a) /\ Typed
  BY InvParts, TypedParts DEF StoresAreSound
<1>2. PICK r \in Requests : r = req[a]
  BY <1>1 DEF RequestsTyped
<1>3. PICK t \in Instants(r) :
          /\ SetRow(r, CompleteRow(rows[r.session], Token(a, r), r.draft, t))
          /\ Go(a, IF Holds(rows[r.session], Token(a, r), r.draft, t)
                   THEN Repaired(r, r.draft) ELSE Lost(r))
  BY <1>2 DEF Complete
<1>4. r.pc = "complete"
  BY <1>2 DEF Complete
<1>5. AtWork(a, r) /\ Asks(r) /\ r.draft \in Payload
  BY <1>1, <1>2, <1>4, FineIsAtWork DEF Proper, Working, AtWork
<1>6. /\ t \in Nat /\ r.session \in Sessions /\ r.phase \in Phases
      /\ Token(a, r) = <<a, r.phase>>
  BY <1>1, <1>5, InstantsArePast, AskedRows
<1>7. PICK n : /\ n = Repaired(r, r.draft) \/ n = Lost(r)
               /\ Go(a, n)
  BY <1>3
<1>8. n.pc # "complete"
  BY <1>1, <1>5, <1>7, CompleteLeaves
<1>9. req'[a] # req[a]
  BY <1>1, <1>2, <1>4, <1>7, <1>8 DEF Go, RequestsTyped
<1>10. PICK x, token, d, phase, new :
           /\ x = r.session /\ token = Token(a, r) /\ d = r.draft /\ phase = r.phase
           /\ new = CompleteRow(rows[x], token, d, t)
  OBVIOUS
<1>11. /\ rows' = [rows EXCEPT ![x] = new] /\ x \in Sessions /\ phase \in Phases
       /\ token = <<a, phase>> /\ d \in Payload /\ d \in Payload \cup {None}
  BY <1>3, <1>5, <1>6, <1>10 DEF SetRow
<1> QED
  BY <1>1, <1>6, <1>9, <1>10, <1>11, OwnerChanges

\* A release takes no token but its own.
LEMMA ReleaseChanges ==
    ASSUME IInv, NEW a \in Attempts, Release(a), NEW s \in Sessions, Stored(rows[s])
    PROVE  RowChange(s)
<1>1. StoresTyped /\ RequestsTyped /\ Proper(a) /\ Typed
  BY InvParts, TypedParts DEF StoresAreSound
<1>2. PICK r \in Requests : r = req[a]
  BY <1>1 DEF RequestsTyped
<1>3. r.pc = "release" /\ SetRow(r, ReleaseRow(rows[r.session], Token(a, r)))
  BY <1>2 DEF Release
<1>4. Fine(a, r) /\ Asks(r) /\ (r.draft # None => r.draft \in Payload)
  BY <1>1, <1>2, <1>3, FineAsks DEF Proper
<1>5. /\ r.session \in Sessions /\ r.phase \in Phases /\ Token(a, r) = <<a, r.phase>>
  BY <1>1, <1>4, AskedRows
<1>6. PICK n : /\ \/ n = Repaired(r, r.draft) /\ r.after = "repair"
                  \/ n = At([r EXCEPT !.after = None], "reread")
                  \/ n = Gone
               /\ Go(a, n)
  BY <1>2 DEF Release
<1>7. n.pc # "release"
  <2>1. CASE n = Repaired(r, r.draft) /\ r.after = "repair"
    <3>1. r.draft \in Payload
      BY <1>3, <1>4, <2>1 DEF Fine, Shaped
    <3> QED
      BY <1>1, <2>1, <3>1, RepairedFields, GoneFields
  <2>2. CASE n = At([r EXCEPT !.after = None], "reread")
    <3>1. PICK m : m = Carry(r, r.phase, r.draft, None) /\ m = [r EXCEPT !.after = None]
      BY CarryForms
    <3>2. r.phase \in Phases /\ r.draft \in Payload \cup {None} /\ None \in Afters /\ "reread" \in Places
      BY DEF Requests, Afters, Places
    <3>3. n = At(Carry(r, r.phase, r.draft, None), "reread")
      BY <2>2, <3>1
    <3>4. n.pc = "reread"
      BY <1>1, <3>2, <3>3, GoesWith
    <3> QED
      BY <3>4
  <2>3. CASE n = Gone
    BY <2>3, GoneFields
  <2> QED
    BY <1>6, <2>1, <2>2, <2>3
<1>8. req'[a] # req[a]
  BY <1>1, <1>2, <1>3, <1>6, <1>7 DEF Go, RequestsTyped
<1>9. PICK x, token, d, phase, new :
           /\ x = r.session /\ token = Token(a, r) /\ d = None /\ phase = r.phase
           /\ new = ReleaseRow(rows[x], token)
  OBVIOUS
<1>10. /\ rows' = [rows EXCEPT ![x] = new] /\ x \in Sessions /\ phase \in Phases
       /\ token = <<a, phase>> /\ d \in Payload \cup {None} /\ 0 \in Nat
  BY <1>3, <1>5, <1>9 DEF SetRow
<1> QED
  BY <1>1, <1>8, <1>9, <1>10, OwnerChanges

\* Every action of a request changes a row in one of the ways allowed,
LEMMA ActionChanges ==
    ASSUME IInv, NEW a \in Attempts, Create(a) \/ Claim(a) \/ Checkpoint(a) \/ Complete(a) \/ Release(a),
           NEW s \in Sessions, Stored(rows[s])
    PROVE  RowChange(s)
<1>1. StoresTyped /\ RequestsTyped /\ Proper(a) /\ Typed
  BY InvParts, TypedParts DEF StoresAreSound
<1>2. PICK r \in Requests : r = req[a]
  BY <1>1 DEF RequestsTyped
<1>3. CASE Create(a)
  <2>1. PICK x \in Sessions, t \in Instants(r) : CreateAs(r, x, t)
    BY <1>2, <1>3 DEF Create
  <2>2. t \in Nat /\ t <= now
    BY <1>1, InstantsArePast
  <2> QED
    BY <1>1, <2>1, <2>2, CreateChanges
<1>4. CASE Claim(a)
  <2>1. PICK t \in Instants(r) : SetRow(r, ClaimRow(rows[r.session], Token(a, r), t))
    BY <1>2, <1>4 DEF Claim
  <2>2. r.pc = "claim"
    BY <1>2, <1>4 DEF Claim
  <2>3. Asks(r)
    BY <1>1, <1>2, <2>2, FineAsks DEF Proper
  <2>4. r.session \in Sessions /\ Token(a, r) \in Tokens
    BY <1>1, <2>3, AskedRows
  <2>5. PICK x, token, new : x = r.session /\ token = Token(a, r) /\ new = ClaimRow(rows[x], token, t)
    OBVIOUS
  <2>6. x \in Sessions /\ token \in Tokens /\ rows' = [rows EXCEPT ![x] = new]
    BY <2>1, <2>4, <2>5 DEF SetRow
  <2>7. t \in Nat /\ t <= now
    BY <1>1, InstantsArePast
  <2> QED
    BY <1>1, <2>5, <2>6, <2>7, ClaimChanges
<1> QED
  BY <1>3, <1>4, CheckpointChanges, CompleteChanges, ReleaseChanges

\* A thread that was left behind does no more to a row than its request would have.
LEMMA LateChanges ==
    ASSUME IInv, NEW a \in Attempts, LateThread(a), NEW s \in Sessions, Stored(rows[s])
    PROVE  RowChange(s)
<1>1. StoresTyped /\ RequestsTyped /\ Proper(a) /\ Typed
  BY InvParts, TypedParts DEF StoresAreSound
<1>2. late[a] # None
  BY DEF LateThread
<1>3. PICK l \in Requests : l = late[a]
  BY <1>1, <1>2 DEF RequestsTyped
<1>4. Fine(a, l)
  BY <1>1, <1>2, <1>3 DEF Proper
<1>5. PICK t \in Nat : t = l.since /\ t <= now
  BY <1>4 DEF Fine, Shaped, Requests
<1>6. l.pc \in {"claim", "release", "create", "checkpoint", "complete", "memory", "stage"}
  BY <1>1, <1>2, <1>3 DEF Proper, Left
<1>7. CASE l.pc = "create"
  <2>1. CASE UNCHANGED rows
    BY <2>1 DEF RowChange
  <2>2. CASE ~ UNCHANGED rows
    <3>1. PICK x \in Sessions : CreateAs(l, x, t)
      BY <1>3, <1>5, <1>7, <2>2 DEF LateThread
    <3> QED
      BY <1>1, <1>5, <3>1, CreateChanges
  <2> QED
    BY <2>1, <2>2
<1>8. CASE l.pc # "create"
  <2>1. SetRow(l, LateRow(a, l))
    BY <1>3, <1>8 DEF LateThread
  <2>2. Asks(l) /\ (l.draft # None => l.draft \in Payload)
    BY <1>4, <1>6, <1>8, FineAsks DEF Working
  <2>3. /\ l.session \in Sessions /\ l.phase \in Phases
        /\ Token(a, l) = <<a, l.phase>> /\ Token(a, l) \in Tokens
    BY <1>1, <2>2, AskedRows
  <2>4. PICK x, token, d, phase, new :
            /\ x = l.session /\ token = Token(a, l) /\ d = l.draft /\ phase = l.phase
            /\ new = LateRow(a, l)
    OBVIOUS
  <2>5. /\ rows' = [rows EXCEPT ![x] = new] /\ x \in Sessions /\ phase \in Phases
        /\ token = <<a, phase>> /\ token \in Tokens /\ d \in Payload \cup {None}
    BY <2>1, <2>2, <2>3, <2>4 DEF SetRow
  <2>6. CASE l.pc = "claim"
    <3>1. new = ClaimRow(rows[x], token, t)
      BY <1>5, <2>4, <2>6 DEF LateRow
    <3> QED
      BY <1>1, <1>5, <2>5, <3>1, ClaimChanges
  <2>7. CASE l.pc \in {"memory", "stage"}
    <3>1. new = rows[x]
      BY <2>4, <2>7 DEF LateRow
    <3>2. rows'[s] = rows[s]
      BY <1>1, <2>5, <3>1 DEF Typed
    <3> QED
      BY <3>2 DEF RowChange
  <2>8. CASE l.pc \in {"checkpoint", "complete", "release"}
    <3>1. late'[a] # late[a]
      <4>1. late'[a] = None
        BY <1>1, <1>3, <2>8 DEF LateThread, RequestsTyped
      <4> QED
        BY <1>2, <4>1
    <3>2. l.pc # "release" => d \in Payload
      BY <1>4, <2>2, <2>4, <2>8 DEF Fine, Shaped, Working
    <3>3. \/ new = CheckpointRow(rows[x], token, d, t) /\ d \in Payload
          \/ new = CompleteRow(rows[x], token, d, t) /\ d \in Payload
          \/ new = ReleaseRow(rows[x], token)
      BY <1>5, <2>4, <2>8, <3>2 DEF LateRow
    <3> QED
      BY <1>1, <2>5, <3>1, <3>3, OwnerChanges
  <2> QED
    BY <1>6, <1>8, <2>6, <2>7, <2>8
<1> QED
  BY <1>7, <1>8

\* and so does every step.
LEMMA RowsOnlyChange ==
    ASSUME IInv, [Next]_vars, NEW s \in Sessions, Stored(rows[s])
    PROVE  RowChange(s)
<1>1. CASE UNCHANGED rows
  BY <1>1 DEF RowChange
<1>2. CASE ~ UNCHANGED rows
  <2>1. ~ Tick /\ ~ UNCHANGED vars
    BY <1>2 DEF Tick, vars
  <2>2. PICK a \in Attempts :
             \/ ReceiveStart(a) \/ ReceiveAnswer(a) \/ ReceiveOther(a)
             \/ FindStart(a) \/ BindStage(a) \/ Create(a) \/ CreateRefused(a) \/ Inspect(a)
             \/ Claim(a) \/ ClaimRefused(a) \/ Checkpoint(a) \/ Complete(a) \/ Release(a) \/ Reread(a)
             \/ GradeExact(a) \/ GradeByProvider(a) \/ WriteMemory(a) \/ CompleteStage(a)
             \/ WriteReport(a)
             \/ Interrupted(a) \/ ProviderFails(a) \/ CallInterrupted(a) \/ Die(a) \/ LateThread(a)
    BY <2>1 DEF Next
  <2>3. ~ ReceiveStart(a) /\ ~ ReceiveAnswer(a) /\ ~ ReceiveOther(a)
    BY <1>2 DEF ReceiveStart, ReceiveAnswer, ReceiveOther, Receive
  <2>4. /\ ~ FindStart(a) /\ ~ BindStage(a) /\ ~ CreateRefused(a) /\ ~ Inspect(a)
        /\ ~ ClaimRefused(a) /\ ~ Reread(a)
    BY <1>2 DEF FindStart, BindStage, CreateRefused, Inspect, ClaimRefused, Reread
  <2>5. /\ ~ GradeExact(a) /\ ~ GradeByProvider(a) /\ ~ WriteMemory(a) /\ ~ CompleteStage(a)
        /\ ~ WriteReport(a)
    BY <1>2 DEF GradeExact, GradeByProvider, WriteMemory, CompleteStage, WriteReport
  <2>6. ~ Interrupted(a) /\ ~ ProviderFails(a) /\ ~ CallInterrupted(a) /\ ~ Die(a)
    BY <1>2 DEF Interrupted, ProviderFails, CallInterrupted, Die
  <2>7. Create(a) \/ Claim(a) \/ Checkpoint(a) \/ Complete(a) \/ Release(a) \/ LateThread(a)
    BY <2>2, <2>3, <2>4, <2>5, <2>6
  <2> QED
    BY <2>7, ActionChanges, LateChanges
<1> QED
  BY <1>1, <1>2

\* max_count is fixed when a deployment starts.
LEMMA MaxCountStays == [Next]_vars => maxCount' = maxCount
<1> SUFFICES ASSUME [Next]_vars PROVE maxCount' = maxCount
  OBVIOUS
<1>1. CASE Tick \/ UNCHANGED vars
  BY <1>1 DEF Tick, vars
<1>2. ASSUME NEW a \in Attempts,
             ReceiveStart(a) \/ ReceiveAnswer(a) \/ ReceiveOther(a)
      PROVE  maxCount' = maxCount
  BY <1>2 DEF ReceiveStart, ReceiveAnswer, ReceiveOther, Receive
<1>3. ASSUME NEW a \in Attempts,
             \/ FindStart(a) \/ BindStage(a) \/ Create(a) \/ CreateRefused(a) \/ Inspect(a)
             \/ Claim(a) \/ ClaimRefused(a) \/ Checkpoint(a) \/ Complete(a) \/ Release(a) \/ Reread(a)
      PROVE  maxCount' = maxCount
  BY <1>3 DEF FindStart, BindStage, Create, CreateRefused, Inspect, Claim, ClaimRefused,
     Checkpoint, Complete, Release, Reread
<1>4. ASSUME NEW a \in Attempts,
             \/ GradeExact(a) \/ GradeByProvider(a) \/ WriteMemory(a) \/ CompleteStage(a)
             \/ WriteReport(a)
             \/ Interrupted(a) \/ ProviderFails(a) \/ CallInterrupted(a) \/ Die(a) \/ LateThread(a)
      PROVE  maxCount' = maxCount
  BY <1>4 DEF GradeExact, GradeByProvider, WriteMemory, CompleteStage, WriteReport,
     Interrupted, ProviderFails, CallInterrupted, Die, LateThread
<1> QED
  BY <1>1, <1>2, <1>3, <1>4 DEF Next

\* While a lease holds in real time, the token of a session goes only by a
\* step of the request that owns it, or of the thread that request left behind.
THEOREM LeasesEndByTheirOwners == Spec => LeaseEndsByItsOwner
<1>1. ASSUME IInv, [Next]_vars, NEW s \in Sessions,
             Stored(rows[s]), rows[s].token # None, rows[s].lease > now,
             rows'[s].token # rows[s].token
      PROVE  LET owner == rows[s].token[1]
             IN req[owner] # req'[owner] \/ late[owner] # late'[owner]
  <2>1. RowChange(s)
    BY <1>1, RowsOnlyChange
  <2>2. rows[s].lease \in Nat /\ now \in Nat
    BY <1>1, InvParts, TypedParts DEF Typed, Row, StoresAreSound
  <2>3. ~ FreeAt(rows[s], now)
    BY <1>1, <2>2 DEF FreeAt
  <2>4. Acts(rows[s].token)
    BY <1>1, <2>1, <2>3 DEF RowChange
  <2>5. PICK a \in Attempts, phase \in Phases :
            rows[s].token = <<a, phase>> /\ (req'[a] # req[a] \/ late'[a] # late[a])
    BY <2>4 DEF Acts
  <2>6. rows[s].token[1] = a
    BY <2>5
  <2> QED
    BY <2>5, <2>6
<1>2. IInv /\ [Next]_vars =>
          [\A s \in Sessions :
              /\ Stored(rows[s]) /\ rows[s].token # None /\ rows[s].lease > now
              /\ rows'[s].token # rows[s].token
              => LET owner == rows[s].token[1]
                 IN req[owner] # req'[owner] \/ late[owner] # late'[owner]]_vars
  BY <1>1
<1> QED
  BY <1>2, Invariance, PTL DEF Spec, LeaseEndsByItsOwner

\* Answers, keys, grades, reports and outbox markers that were stored stay
\* stored, the table keeps to its limit, and an unfinished quiz leaves it only
\* when it has expired.
THEOREM WorkStays == Spec => WorkIsKept
<1>1. ASSUME IInv, [Next]_vars, NEW s \in Sessions, Stored(rows[s]), Stored(rows'[s])
      PROVE  Extends(rows[s].payload, rows'[s].payload)
  <2>1. Grows(rows[s], rows'[s])
    BY <1>1, StepInv DEF Onward
  <2> QED
    BY <1>1, <2>1 DEF Grows, Stored
<1>2. ASSUME IInv, [Next]_vars, NEW s \in Sessions, Stored(rows[s]), ~ Stored(rows'[s])
      PROVE  Completed(rows[s].payload) \/ rows[s].expires <= now
  <2>1. RowChange(s)
    BY <1>1, <1>2, RowsOnlyChange
  <2> QED
    BY <1>2, <2>1 DEF RowChange
<1>3. ASSUME IInv, [Next]_vars
      PROVE  Cardinality({s \in Sessions : Stored(rows'[s])}) <= maxCount
  <2>1. IInv' /\ maxCount' = maxCount
    BY <1>3, StepInv, MaxCountStays
  <2>2. Cardinality(StoredSessions') <= maxCount
    BY <2>1 DEF IInv
  <2> QED
    BY <2>2 DEF StoredSessions
<1>4. IInv /\ [Next]_vars =>
          /\ [\A s \in Sessions : Stored(rows[s]) /\ Stored(rows'[s]) =>
                Extends(rows[s].payload, rows'[s].payload)]_vars
          /\ [/\ Cardinality({s \in Sessions : Stored(rows'[s])}) <= maxCount
              /\ \A s \in Sessions : Stored(rows[s]) /\ ~ Stored(rows'[s]) =>
                    Completed(rows[s].payload) \/ rows[s].expires <= now]_vars
  BY <1>1, <1>2, <1>3
<1> QED
  BY <1>4, Invariance, PTL DEF Spec, WorkIsKept, NothingStoredIsLost, ActiveSessionsStay
=============================================================================
