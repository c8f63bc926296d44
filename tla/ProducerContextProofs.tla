------------------------- MODULE ProducerContextProofs -------------------------
(***************************************************************************)
(* Proofs about ProducerOutput, for any answer of the provider, and about  *)
(* ProducerContext, for any packages and any answers to them.              *)
(***************************************************************************)
EXTENDS ProducerContext, ContextEngineProofs, WellFoundedInduction

-------------------------------------------------------------------------------
\* Induction, over sets of natural numbers.

LEMMA LeastLemma ==
    ASSUME NEW T, T \subseteq Nat, T # {}
    PROVE  \E n \in T : \A m \in T : n <= m
<1>1. PICK R : R = OpToRel(<, Nat)
  BY Zenon
<1>2. R = {pair \in Nat \X Nat : pair[1] < pair[2]}
  BY Zenon, <1>1 DEF OpToRel
<1>3. PICK n \in T : \A m \in T : ~ (<<m, n>> \in R)
  BY Zenon, <1>1, NatLessThanWellFounded, WFMin
<1>4. ASSUME NEW m \in T PROVE n <= m
  <2>1. <<m, n>> \in R <=> m < n
    BY <1>2
  <2> QED BY <1>3, <2>1
<1> QED BY <1>4

LEMMA InductionLemma ==
    ASSUME NEW T, 0 \in T, \A n \in Nat : n \in T => n + 1 \in T
    PROVE  \A n \in Nat : n \in T
<1>1. PICK U : U = {n \in Nat : n \notin T}
  OBVIOUS
<1>2. ASSUME U # {} PROVE FALSE
  <2>1. PICK n \in U : \A m \in U : n <= m
    BY <1>1, <1>2, LeastLemma
  <2>2. n \in Nat /\ n # 0 /\ n - 1 \in Nat /\ ~ (n <= n - 1)
    BY <1>1, <2>1
  <2>3. n - 1 \in T
    BY <1>1, <2>1, <2>2
  <2>4. (n - 1) + 1 = n
    BY <2>2
  <2> QED BY <1>1, <2>2, <2>3, <2>4
<1> QED BY <1>1, <1>2

-------------------------------------------------------------------------------
\* The texts of an answer, joined.

\* The text up to block i, with the text up to the block before it.
Longer(content, i, text) == IF content[i] = << >> THEN text ELSE text \o content[i]

\* The function that ResponseText defines, and the one that FlattenSeq does.
Joins(g, content, n) == g = [i \in 0..n |-> IF i = 0 THEN << >> ELSE Longer(content, i, g[i - 1])]
Flattens(f, content, n) == f = [i \in 1..n |-> IF i = 1 THEN content[i] ELSE f[i - 1] \o content[i]]

\* There is one, of any length.
LEMMA JoinsExist ==
    ASSUME NEW content
    PROVE  \A n \in Nat : \E g : Joins(g, content, n)
<1>1. PICK T : T = {n \in Nat : \E g : Joins(g, content, n)}
  OBVIOUS
<1>2. 0 \in T
  <2>1. PICK g : g = [i \in 0..0 |-> << >>]
    OBVIOUS
  <2>2. Joins(g, content, 0)
    BY <2>1 DEF Joins
  <2> QED BY <1>1, <2>2
<1>3. ASSUME NEW n \in Nat, n \in T PROVE n + 1 \in T
  <2>1. PICK g : Joins(g, content, n)
    BY <1>1, <1>3
  <2>2. PICK h : h = [i \in 0..n + 1 |-> IF i <= n THEN g[i] ELSE Longer(content, i, g[n])]
    OBVIOUS
  <2>3. ASSUME NEW i \in 0..n + 1 PROVE h[i] = IF i = 0 THEN << >> ELSE Longer(content, i, h[i - 1])
    <3>1. CASE i = 0
      BY <2>1, <2>2, <3>1 DEF Joins
    <3>2. CASE i \in 1..n
      <4>1. i - 1 \in 0..n + 1 /\ i - 1 <= n /\ i <= n /\ i \in 0..n /\ i # 0
        BY <3>2
      <4>2. h[i] = g[i] /\ h[i - 1] = g[i - 1]
        BY <2>2, <4>1
      <4>3. g[i] = Longer(content, i, g[i - 1])
        BY <2>1, <4>1 DEF Joins
      <4> QED BY <4>1, <4>2, <4>3
    <3>3. CASE i = n + 1
      <4>1. h[i] = Longer(content, i, g[n]) /\ h[n] = g[n] /\ i - 1 = n /\ i # 0
        BY <2>2, <3>3
      <4> QED BY <4>1
    <3> QED BY <3>1, <3>2, <3>3
  <2>4. Joins(h, content, n + 1)
    BY <2>2, <2>3 DEF Joins
  <2> QED BY <1>1, <2>4
<1>4. \A n \in Nat : n \in T
  BY <1>2, <1>3, InductionLemma
<1> QED BY <1>1, <1>4

LEMMA ConcatLemma ==
    ASSUME NEW S, NEW s \in Seq(S), NEW t \in Seq(S)
    PROVE  s \o t \in Seq(S) /\ s \o << >> = s /\ << >> \o s = s /\ << >> \in Seq(S)
OBVIOUS

\* What both give of the first blocks is the same text, and no text if all of them are empty.
Agrees(S, content, n, g) ==
    /\ \A i \in 0..n : g[i] \in Seq(S)
    /\ (\A i \in 1..n : content[i] = << >>) => g[n] = << >>
    /\ \A f : Flattens(f, content, n) => \A i \in 1..n : f[i] = g[i]
    /\ \E f : Flattens(f, content, n)

LEMMA JoinsAgree ==
    ASSUME NEW S, NEW content \in Seq(Seq(S)), NEW n, n = Len(content),
           NEW g, Joins(g, content, n)
    PROVE  Agrees(S, content, n, g)
<1>1. n \in Nat /\ \A i \in 1..n : content[i] \in Seq(S)
  OBVIOUS
<1>2. /\ g[0] = << >>
      /\ \A i \in 1..n : g[i] = Longer(content, i, g[i - 1])
  <2>1. 0 \in 0..n /\ \A i \in 1..n : i \in 0..n /\ i # 0
    BY <1>1
  <2> QED BY <2>1 DEF Joins
<1>3. \A i \in 0..n : g[i] \in Seq(S)
  <2>1. PICK T : T = {i \in Nat : i <= n => g[i] \in Seq(S)}
    OBVIOUS
  <2>2. 0 \in T
    <3>1. << >> \in Seq(S)
      OBVIOUS
    <3> QED BY <1>2, <2>1, <3>1
  <2>3. ASSUME NEW i \in Nat, i \in T PROVE i + 1 \in T
    <3> SUFFICES ASSUME i + 1 <= n PROVE g[i + 1] \in Seq(S)
      BY <2>1
    <3>1. i + 1 \in 1..n /\ i <= n /\ (i + 1) - 1 = i
      BY <1>1
    <3>2. g[i] \in Seq(S) /\ content[i + 1] \in Seq(S)
      BY <1>1, <2>1, <2>3, <3>1
    <3>3. g[i + 1] = Longer(content, i + 1, g[i])
      BY <1>2, <3>1
    <3> QED BY <3>2, <3>3, ConcatLemma DEF Longer
  <2>4. \A i \in Nat : i \in T
    BY <2>2, <2>3, InductionLemma
  <2> QED BY <1>1, <2>1, <2>4
<1>4. \A i \in 1..n : g[i] = g[i - 1] \o content[i]
  <2> SUFFICES ASSUME NEW i \in 1..n PROVE g[i] = g[i - 1] \o content[i]
    OBVIOUS
  <2>1. i - 1 \in 0..n /\ g[i - 1] \in Seq(S)
    BY <1>1, <1>3
  <2> QED BY <1>2, <2>1, ConcatLemma DEF Longer
<1>5. ASSUME \A i \in 1..n : content[i] = << >> PROVE g[n] = << >>
  <2>1. PICK T : T = {i \in Nat : i <= n => g[i] = << >>}
    OBVIOUS
  <2>2. 0 \in T
    BY <1>2, <2>1
  <2>3. ASSUME NEW i \in Nat, i \in T PROVE i + 1 \in T
    <3> SUFFICES ASSUME i + 1 <= n PROVE g[i + 1] = << >>
      BY <2>1
    <3>1. i + 1 \in 1..n /\ i <= n /\ (i + 1) - 1 = i
      BY <1>1
    <3>2. g[i] = << >> /\ content[i + 1] = << >>
      BY <1>5, <2>1, <2>3, <3>1
    <3> QED BY <1>2, <3>1, <3>2 DEF Longer
  <2>4. n \in T
    BY <1>1, <2>2, <2>3, InductionLemma
  <2> QED BY <1>1, <2>1, <2>4
<1>6. ASSUME n # 0 PROVE g[1] = content[1]
  <2>1. 1 \in 1..n /\ 1 - 1 = 0 /\ content[1] \in Seq(S)
    BY <1>1, <1>6
  <2>2. g[1] = << >> \o content[1]
    BY <1>2, <1>4, <2>1
  <2> QED BY <2>1, <2>2, ConcatLemma
<1>7. ASSUME NEW f, Flattens(f, content, n), NEW j \in 1..n PROVE f[j] = g[j]
  <2>0. \A i \in 1..n : f[i] = IF i = 1 THEN content[i] ELSE f[i - 1] \o content[i]
    BY <1>7 DEF Flattens
  <2>1. PICK T : T = {i \in Nat : i \in 1..n => f[i] = g[i]}
    OBVIOUS
  <2>2. 0 \in T
    BY <2>1
  <2>3. ASSUME NEW i \in Nat, i \in T PROVE i + 1 \in T
    <3> SUFFICES ASSUME i + 1 \in 1..n PROVE f[i + 1] = g[i + 1]
      BY <2>1
    <3>1. CASE i = 0
      BY <1>6, <2>0, <3>1
    <3>2. CASE i # 0
      <4>1. i \in 1..n /\ (i + 1) - 1 = i /\ i + 1 # 1
        BY <1>1, <3>2
      <4>2. f[i] = g[i]
        BY <2>1, <2>3, <4>1
      <4>3. g[i + 1] = g[i] \o content[i + 1]
        BY <1>4, <4>1
      <4>4. f[i + 1] = f[i] \o content[i + 1]
        BY <2>0, <4>1
      <4> QED BY <4>2, <4>3, <4>4
    <3> QED BY <3>1, <3>2
  <2>4. \A i \in Nat : i \in T
    BY <2>2, <2>3, InductionLemma
  <2>5. j \in Nat
    BY <1>1
  <2> QED BY <2>1, <2>4, <2>5
<1>8. \E f : Flattens(f, content, n)
  <2>1. PICK f : f = [i \in 1..n |-> g[i]]
    OBVIOUS
  <2>2. ASSUME NEW i \in 1..n PROVE f[i] = IF i = 1 THEN content[i] ELSE f[i - 1] \o content[i]
    <3>1. CASE i = 1
      BY <1>1, <1>6, <2>1, <3>1
    <3>2. CASE i # 1
      <4>1. i - 1 \in 1..n
        BY <1>1, <3>2
      <4>2. f[i] = g[i] /\ f[i - 1] = g[i - 1]
        BY <2>1, <4>1
      <4> QED BY <1>4, <3>2, <4>2
    <3> QED BY <3>1, <3>2
  <2>3. Flattens(f, content, n)
    BY <2>1, <2>2 DEF Flattens
  <2> QED BY <2>3
<1> QED BY <1>3, <1>5, <1>7, <1>8 DEF Agrees

\* The text that is extracted is the blocks put end to end: the empty ones make no difference.
LEMMA ResponseLemma ==
    ASSUME NEW S, NEW answer, answer.content \in Seq(Seq(S))
    PROVE  /\ ResponseText(answer) \in Seq(S)
           /\ ResponseText(answer) = FlattenSeq(answer.content)
           /\ ResponseText(answer) # << >> => \E i \in DOMAIN answer.content : answer.content[i] # << >>
<1>1. PICK content : content = answer.content
  OBVIOUS
<1>2. PICK n : n = Len(content)
  OBVIOUS
<1>3. content \in Seq(Seq(S)) /\ n \in Nat /\ DOMAIN content = 1..n
  BY <1>1, <1>2
<1>4. PICK g : g = CHOOSE h : Joins(h, content, n)
  OBVIOUS
<1>5. Joins(g, content, n)
  BY <1>3, <1>4, JoinsExist
<1>6. ResponseText(answer) = g[n]
  <2>1. g = CHOOSE h : h = [i \in 0..n |-> IF i = 0 THEN << >>
                                            ELSE IF content[i] = << >> THEN h[i - 1]
                                            ELSE h[i - 1] \o content[i]]
    BY <1>4 DEF Joins, Longer
  <2> QED BY <1>1, <1>2, <2>1 DEF ResponseText
<1>7. Agrees(S, content, n, g)
  BY <1>2, <1>3, <1>5, JoinsAgree
<1>8. FlattenSeq(content) = g[n]
  <2>1. CASE n = 0
    <3>1. content = << >>
      BY <1>2, <1>3, <2>1
    <3>2. FlattenSeq(content) = content
      BY <1>2, <2>1 DEF FlattenSeq
    <3>3. g[0] = << >>
      BY <2>1, <1>5 DEF Joins
    <3> QED BY <2>1, <3>1, <3>2, <3>3
  <2>2. CASE n # 0
    <3>1. PICK f : f = CHOOSE h : Flattens(h, content, n)
      OBVIOUS
    <3>2. Flattens(f, content, n)
      BY <1>7, <3>1 DEF Agrees
    <3>3. FlattenSeq(content) = f[n]
      <4>1. f = CHOOSE h : h = [i \in 1..n |-> IF i = 1 THEN content[i] ELSE h[i - 1] \o content[i]]
        BY <3>1 DEF Flattens
      <4> QED BY <1>2, <2>2, <4>1 DEF FlattenSeq
    <3>4. n \in 1..n
      BY <1>3, <2>2
    <3> QED BY <1>7, <3>2, <3>3, <3>4 DEF Agrees
  <2> QED BY <2>1, <2>2
<1>9. n \in 0..n
  BY <1>3
<1> QED BY <1>1, <1>3, <1>6, <1>7, <1>8, <1>9 DEF Agrees

-------------------------------------------------------------------------------
\* The validation and the prompt.

\* A JSON document as json.loads gives it, where the checks look at it: a length is a number, and
\* a string among the references is a string and nothing else.
WellTyped(output) ==
    /\ \A f \in {"title", "body"} \intersect DOMAIN output :
          output[f].kind = "string" => output[f].value \in Nat
    /\ "learning_outcome_refs" \in DOMAIN output /\ output["learning_outcome_refs"].kind = "list" =>
          \A r \in Range(output["learning_outcome_refs"].value) :
             r.kind = "string" => r = String(r.value)

\* validate_structural checks what the prompt asks for, and the length of the title.
LEMMA ValidLemma ==
    ASSUME NEW output, WellTyped(output), NEW type, NEW allowed
    PROVE  IsValid(output, type, allowed)
            <=> ObeysRules(output, SchemaVersion, type, allowed) /\ output["title"].value <= MaxTitleLength
<1>1. CASE DOMAIN output # RequiredFields
  BY <1>1 DEF IsValid, ObeysRules
<1>2. CASE DOMAIN output = RequiredFields
  <2>1. {"title", "body", "learning_outcome_refs"} \subseteq DOMAIN output
    BY <1>2 DEF RequiredFields
  <2>2. \A f \in {"title", "body"} :
           output[f].kind = "string" => (output[f].value # 0 <=> output[f].value > 0)
    BY <2>1 DEF WellTyped
  <2>3. ASSUME output["learning_outcome_refs"].kind = "list"
        PROVE  (\A r \in Range(output["learning_outcome_refs"].value) : r.kind = "string" /\ r.value \in allowed)
                <=> Range(output["learning_outcome_refs"].value) \subseteq {String(o) : o \in allowed}
    <3>1. PICK items : items = Range(output["learning_outcome_refs"].value)
      OBVIOUS
    <3>2. \A r \in items : r.kind = "string" => r = String(r.value)
      BY <2>1, <2>3, <3>1 DEF WellTyped
    <3>3. \A o : String(o).kind = "string" /\ String(o).value = o
      BY DEF String
    <3>4. (\A r \in items : r.kind = "string" /\ r.value \in allowed)
           <=> items \subseteq {String(o) : o \in allowed}
      BY <3>2, <3>3
    <3> QED BY <3>1, <3>4
  <2> QED BY <1>2, <2>2, <2>3 DEF IsValid, ObeysRules
<1> QED BY <1>1, <1>2

\* CODE-CR-67, of every answer there is: an answer in any number of blocks, of any documents cut in
\* any way, makes an attempt succeed if and only if it obeys the prompt, with the same references
\* on both sides, and its title is not too long.
THEOREM ProducerOutputAccepted ==
    ASSUME NEW S, NEW answer, answer.content \in Seq(Seq(S)),
           \A piece \in S : piece.of.kind = "object" => WellTyped(piece.of.value),
           NEW type, NEW allowed
    PROVE  AttemptOutcome(answer, type, allowed) = "SUCCESS"
            <=> /\ ObeysPrompt(answer, SchemaVersion, type, allowed)
                /\ StructuredOutput(answer)["title"].value <= MaxTitleLength
<1>1. PICK text : text = ResponseText(answer)
  OBVIOUS
<1>2. /\ text \in Seq(S) /\ text = FlattenSeq(answer.content)
      /\ text # << >> => \E i \in DOMAIN answer.content : answer.content[i] # << >>
  BY <1>1, ResponseLemma
<1>3. PICK document : document = text[1].of
  OBVIOUS
<1>4. HasStructuredOutput(answer) <=> text = Halves(document) /\ document.kind = "object"
  <2>1. Len(Halves(document)) = 2
    BY DEF Halves
  <2> QED BY <1>1, <1>3, <2>1 DEF HasStructuredOutput, IsJson
<1>5. StructuredOutput(answer) = document.value
  BY <1>1, <1>3 DEF StructuredOutput
<1>6. ObeysPrompt(answer, SchemaVersion, type, allowed)
       <=> /\ ~answer.raised
           /\ text = Halves(document) /\ document.kind = "object"
           /\ ObeysRules(document.value, SchemaVersion, type, allowed)
  <2>1. Halves(document) # << >>
    BY DEF Halves
  <2> QED BY <1>2, <1>3, <2>1 DEF ObeysPrompt
<1>7. AttemptOutcome(answer, type, allowed) = "SUCCESS"
       <=> /\ ~answer.raised /\ HasStructuredOutput(answer)
           /\ IsValid(StructuredOutput(answer), type, allowed)
  BY DEF AttemptOutcome
<1>8. ASSUME HasStructuredOutput(answer) PROVE WellTyped(document.value)
  <2>1. Len(text) = 2 /\ text[1] \in S
    <3>1. text = Halves(document)
      BY <1>4, <1>8
    <3>2. Len(text) = 2
      BY <3>1 DEF Halves
    <3> QED BY <1>2, <3>2
  <2> QED BY <1>3, <1>4, <1>8, <2>1
<1>9. CASE HasStructuredOutput(answer)
  BY <1>4, <1>5, <1>6, <1>7, <1>8, <1>9, ValidLemma
<1>10. CASE ~HasStructuredOutput(answer)
  BY <1>4, <1>6, <1>7, <1>10
<1> QED BY <1>9, <1>10

-------------------------------------------------------------------------------
\* The answers to compare the two on are of this kind.

\* What a document has in one of its fields.
FieldTyped(f, v) ==
    /\ f \in {"title", "body"} /\ v.kind = "string" => v.value \in Nat
    /\ f = "learning_outcome_refs" /\ v.kind = "list" =>
          \A r \in Range(v.value) : r.kind = "string" => r = String(r.value)

LEMMA GoodTyped ==
    ASSUME NEW type
    PROVE  /\ DOMAIN Good(type) = RequiredFields
           /\ \A f \in RequiredFields : FieldTyped(f, Good(type)[f])
<1>1. PICK good : good = Good(type)
  OBVIOUS
<1>2. DOMAIN good = RequiredFields
  BY <1>1 DEF Good
<1>3. /\ good["title"] = String(MaxTitleLength) /\ good["body"] = String(MaxTitleLength)
      /\ good["learning_outcome_refs"] = List(<< >>)
  BY <1>1 DEF Good, RequiredFields
<1>4. /\ FieldTyped("title", good["title"]) /\ FieldTyped("body", good["body"])
  BY <1>3 DEF FieldTyped, String, MaxTitleLength
<1>5. FieldTyped("learning_outcome_refs", good["learning_outcome_refs"])
  BY <1>3, EmptyLemma DEF FieldTyped, List
<1>6. \A f \in RequiredFields \ {"title", "body", "learning_outcome_refs"} : FieldTyped(f, good[f])
  BY DEF FieldTyped
<1>7. \A f \in RequiredFields : FieldTyped(f, good[f])
  BY <1>4, <1>5, <1>6
<1> QED BY <1>1, <1>2, <1>7

LEMMA SpoiltTyped ==
    ASSUME NEW objects, NEW f \in RequiredFields, NEW v \in Spoilt(f, objects)
    PROVE  FieldTyped(f, v)
<1>1. CASE f \in {"title", "body"}
  <2>1. v \in {String(0), String(MaxTitleLength + 1), ANumber}
    BY <1>1 DEF Spoilt
  <2> QED BY <1>1, <2>1 DEF FieldTyped, String, ANumber, MaxTitleLength
<1>2. CASE f = "learning_outcome_refs"
  <2>1. v \in {List(<<String(o)>>) : o \in objects} \union {List(<<ANumber>>), ANumber}
                \union {List(<<String(o), String(w)>>) : o, w \in objects}
    BY <1>2 DEF Spoilt
  <2>2. SUFFICES ASSUME v.kind = "list", NEW r \in Range(v.value), r.kind = "string"
                 PROVE  r = String(r.value)
    BY <1>2 DEF FieldTyped
  <2>3. \A o : String(o).value = o
    BY DEF String
  <2>4. CASE \E o \in objects : v = List(<<String(o)>>)
    <3>1. PICK o \in objects : v = List(<<String(o)>>)
      BY <2>4
    <3>2. Range(v.value) = {String(o)}
      BY <3>1, SingletonLemma DEF List
    <3> QED BY <2>2, <2>3, <3>2
  <2>5. CASE v = List(<<ANumber>>)
    <3>1. Range(v.value) = {ANumber}
      BY <2>5, SingletonLemma DEF List
    <3>2. ANumber.kind # "string"
      BY DEF ANumber
    <3> QED BY <2>2, <3>1, <3>2
  <2>6. CASE v = ANumber
    BY <2>2, <2>6 DEF ANumber
  <2>7. CASE \E o, w \in objects : v = List(<<String(o), String(w)>>)
    <3>1. PICK o \in objects, w \in objects : v = List(<<String(o), String(w)>>)
      BY <2>7
    <3>2. r \in {String(o), String(w)}
      <4>1. PICK a, b : a = String(o) /\ b = String(w)
        OBVIOUS
      <4>2. v.value = <<a, b>>
        BY <3>1, <4>1 DEF List
      <4> QED BY <2>2, <4>1, <4>2 DEF Range
    <3> QED BY <2>3, <3>2
  <2> QED BY <2>1, <2>4, <2>5, <2>6, <2>7
<1>3. CASE f \notin {"title", "body", "learning_outcome_refs"}
  BY <1>3 DEF FieldTyped
<1> QED BY <1>1, <1>2, <1>3

LEMMA OutputsTyped ==
    ASSUME NEW type, NEW objects, NEW output \in Outputs(type, objects)
    PROVE  WellTyped(output)
<1> DEFINE Typed(o) == \A f \in DOMAIN o : FieldTyped(f, o[f])
<1>1. PICK good : good = Good(type)
  OBVIOUS
<1>2. PICK named : named = {good} \union SpoiltValues(good, objects)
  OBVIOUS
<1>3. output \in named \/ \E o \in named : output \in SpoiltFields(o)
  BY <1>1, <1>2 DEF Outputs
<1>4. DOMAIN good = RequiredFields /\ Typed(good)
  BY <1>1, GoodTyped
<1>5. ASSUME NEW o \in named PROVE Typed(o)
  <2>1. CASE o = good
    BY <1>4, <2>1
  <2>2. CASE o \in SpoiltValues(good, objects)
    <3>1. PICK f \in DOMAIN good : o \in {[good EXCEPT ![f] = v] : v \in Spoilt(f, objects)}
      BY <2>2 DEF SpoiltValues
    <3>2. PICK v \in Spoilt(f, objects) : o = [good EXCEPT ![f] = v]
      BY <3>1
    <3>3. FieldTyped(f, v)
      BY <1>4, <3>1, <3>2, SpoiltTyped
    <3>4. DOMAIN o = DOMAIN good /\ \A g \in DOMAIN good : o[g] = IF g = f THEN v ELSE good[g]
      BY <3>2
    <3> QED BY <1>4, <3>3, <3>4
  <2> QED BY <1>2, <2>1, <2>2
<1>6. ASSUME NEW o \in named, output \in SpoiltFields(o) PROVE Typed(output)
  <2>1. CASE \E g \in DOMAIN o : output = [f \in DOMAIN o \ {g} |-> o[f]]
    BY <1>5, <2>1
  <2>2. CASE output = [f \in DOMAIN o \union {"reasoning"} |->
                          IF f = "reasoning" THEN String(1) ELSE o[f]]
    <3>1. FieldTyped("reasoning", output["reasoning"])
      BY DEF FieldTyped
    <3>2. DOMAIN output = DOMAIN o \union {"reasoning"}
          /\ \A f \in DOMAIN o \ {"reasoning"} : output[f] = o[f]
      BY <2>2
    <3> QED BY <1>5, <3>1, <3>2
  <2> QED BY <1>6, <2>1, <2>2 DEF SpoiltFields
<1>7. Typed(output)
  BY <1>3, <1>5, <1>6
<1> HIDE DEF Typed
<1>8. \A f \in DOMAIN output : FieldTyped(f, output[f])
  BY <1>7 DEF Typed
<1> QED BY <1>8 DEF WellTyped, FieldTyped

\* The pieces the answers are made of.
Documents(type, objects) == {ANumber, List(<< >>)} \union {JsonObject(o) : o \in Outputs(type, objects)}
Pieces(type, objects) == [half : 0..2, of : Documents(type, objects)]

LEMMA AnswersTyped ==
    ASSUME NEW type, NEW objects, NEW answer \in Answers(type, objects)
    PROVE  /\ answer.content \in Seq(Seq(Pieces(type, objects)))
           /\ \A piece \in Pieces(type, objects) : piece.of.kind = "object" => WellTyped(piece.of.value)
<1>1. PICK S : S = Pieces(type, objects)
  OBVIOUS
<1>2. ASSUME NEW d \in Documents(type, objects)
      PROVE  Halves(d) \in Seq(S) /\ <<Halves(d)[1]>> \in Seq(S) /\ <<Halves(d)[2]>> \in Seq(S)
  <2>0. [half |-> 1, of |-> d] \in S /\ [half |-> 2, of |-> d] \in S
    BY <1>1 DEF Pieces
  <2>1. PICK one \in S, two \in S : one = [half |-> 1, of |-> d] /\ two = [half |-> 2, of |-> d]
    BY <2>0
  <2>2. Halves(d) = <<one, two>>
    BY <2>1 DEF Halves
  <2> QED BY <2>2
<1>3. Prose \in S
  BY <1>1 DEF Pieces, Documents, Prose
<1>4. << >> \in Seq(S)
  OBVIOUS
<1>5. <<Prose>> \in Seq(S)
  BY <1>3
<1>6. JsonObject(Good(type)) \in Documents(type, objects) /\ List(<< >>) \in Documents(type, objects)
  BY DEF Documents, Outputs
<1>7. PICK texts : texts = Seq(S)
  OBVIOUS
<1>8. PICK good, list : good = Halves(JsonObject(Good(type))) /\ list = Halves(List(<< >>))
  OBVIOUS
<1>9. good \in texts /\ <<good[1]>> \in texts /\ <<good[2]>> \in texts /\ list \in texts
      /\ << >> \in texts /\ <<Prose>> \in texts
  BY <1>2, <1>4, <1>5, <1>6, <1>7, <1>8
<1>10. answer.content \in Seq(texts)
  <2>1. CASE \E o \in Outputs(type, objects) : answer = Answer(<<Halves(JsonObject(o))>>)
    <3>1. PICK o \in Outputs(type, objects) : answer = Answer(<<Halves(JsonObject(o))>>)
      BY <2>1
    <3>2. JsonObject(o) \in Documents(type, objects)
      BY DEF Documents
    <3>3. PICK text \in texts : text = Halves(JsonObject(o))
      BY <1>2, <1>7, <3>2
    <3>4. answer.content = <<text>>
      BY <3>1, <3>3 DEF Answer
    <3> QED BY <3>4
  <2>2. CASE answer \in {Raised, Answer(<< >>)}
    <3>1. answer.content = << >>
      BY <2>2 DEF Raised, Answer
    <3> QED BY <3>1
  <2>3. CASE answer \in {Answer(<<<< >>>>), Answer(<<<<Prose>>>>), Answer(<<list>>), Answer(<<<<good[1]>>>>)}
    <3>1. \E text \in texts : answer.content = <<text>>
      BY <1>9, <2>3 DEF Answer
    <3> QED BY <3>1
  <2>4. CASE answer \in {Answer(<<<<Prose>>, good>>), Answer(<<good, <<Prose>>>>), Answer(<<good, good>>)}
    <3>1. \E x \in texts, y \in texts : answer.content = <<x, y>>
      BY <1>9, <2>4 DEF Answer
    <3> QED BY <3>1
  <2>5. CASE answer = Answer(<<<<good[1]>>, << >>, <<good[2]>>>>)
    <3>1. \E x \in texts, y \in texts, z \in texts : answer.content = <<x, y, z>>
      BY <1>9, <2>5 DEF Answer
    <3> QED BY <3>1
  <2>6. \/ \E o \in Outputs(type, objects) : answer = Answer(<<Halves(JsonObject(o))>>)
        \/ answer \in {Raised, Answer(<< >>), Answer(<<<< >>>>), Answer(<<<<Prose>>>>), Answer(<<list>>),
                       Answer(<<<<good[1]>>, << >>, <<good[2]>>>>), Answer(<<<<good[1]>>>>),
                       Answer(<<<<Prose>>, good>>), Answer(<<good, <<Prose>>>>), Answer(<<good, good>>)}
    BY <1>8 DEF Answers
  <2> QED BY <2>1, <2>2, <2>3, <2>4, <2>5, <2>6
<1>11. ASSUME NEW piece \in S, piece.of.kind = "object" PROVE WellTyped(piece.of.value)
  <2>1. piece.of \in Documents(type, objects)
    BY <1>1 DEF Pieces
  <2>2. ANumber.kind # "object" /\ List(<< >>).kind # "object"
    BY DEF ANumber, List
  <2>3. PICK o \in Outputs(type, objects) : piece.of = JsonObject(o)
    BY <1>11, <2>1, <2>2 DEF Documents
  <2>4. piece.of.value = o
    BY <2>3 DEF JsonObject
  <2> QED BY <2>3, <2>4, OutputsTyped
<1> QED BY <1>1, <1>7, <1>10, <1>11

-------------------------------------------------------------------------------
\* The references.

\* A relation that is satisfied leads to an approved object of the type it asks for.
LEMMA SatisfiedLemma ==
    ASSUME NEW c \in Content, NEW object, NEW required, NEW r, r = Resolution(c, object, required),
           r.satisfied
    PROVE  r.to \in Registered /\ TypeOf[r.to] = required.target /\ c.pointer[r.to] # Null
<1>1. PICK found : found = {x \in c.relation : x.from = object /\ x.type = required.type}
  OBVIOUS
<1>2. r.to # Null /\ TypeOf[r.to] = required.target /\ c.pointer[r.to] # Null
      /\ r.to = IF found = {} THEN Null ELSE (CHOOSE x \in found : TRUE).to
  BY <1>1 DEF Resolution
<1>3. c.relation \subseteq [from : Registered, type : STRING, to : Registered]
  BY ContextAssumption DEF Content
<1> QED BY <1>1, <1>2, <1>3

\* What one content gives for a request: the outcomes among the approved objects of its package
\* are the outcomes it links to the object.
LEMMA ReferencesLemma ==
    ASSUME NEW c \in Content, Consistent(c), NEW q \in Payload, q.object \in Registered,
           OutcomeAt(c, q) = "COMMITTED", NEW approved, Range(approved) = PackageAt(c, q).approved
    PROVE  AllowedOutcomes(approved) = LinkedOutcomes(c, q)
<1>1. PICK effective : effective = Effective(c, q)
  OBVIOUS
<1>2. PICK resolutions : resolutions = {Resolution(c, q.object, r) : r \in Range(RequiredRelations)}
  OBVIOUS
<1>3. PICK entries : entries = Range(approved)
  OBVIOUS
<1>4. entries = {Entry(c, v) : v \in ({effective} \ {Null})
                                      \union {c.pointer[r.to] : r \in {x \in resolutions : x.satisfied}}}
  BY <1>1, <1>2, <1>3 DEF PackageAt, Effective
<1>5. /\ q.object \in Object /\ q.pinned \in Version \union {Null}
      /\ c.pointer \in [Object -> Version \union {Null}] /\ c.relation \subseteq Link
      /\ Null \notin Version /\ Registered \subseteq Object
      /\ Link \subseteq [from : Registered, type : STRING, to : Registered]
      /\ \A o \in Object : c.pointer[o] # Null => ObjectOf[c.pointer[o]] = o
  BY ContextAssumption DEF Content, Consistent
<1>6. effective # Null => ObjectOf[effective] = q.object
  <2>1. q.pinned # Null => ObjectOf[q.pinned] = q.object
    BY DEF OutcomeAt
  <2> QED BY <1>1, <1>5, <2>1 DEF Effective
<1>7. PICK outcome : outcome = Resolution(c, q.object, [type |-> "LEARNING_OUTCOME", target |-> "LEARNING_OUTCOME"])
  OBVIOUS
<1>8. /\ outcome \in resolutions
      /\ \A r \in resolutions : r.satisfied =>
            /\ r.to \in Registered /\ c.pointer[r.to] # Null
            /\ r = outcome \/ TypeOf[r.to] = "ACTIVITY"
  <2>1. PICK parent : parent = Resolution(c, q.object, [type |-> "PARENT_ACTIVITY", target |-> "ACTIVITY"])
    OBVIOUS
  <2>2. resolutions = {parent, outcome}
    <3>1. PICK a, b : /\ a = [type |-> "PARENT_ACTIVITY", target |-> "ACTIVITY"]
                      /\ b = [type |-> "LEARNING_OUTCOME", target |-> "LEARNING_OUTCOME"]
      OBVIOUS
    <3>2. Range(RequiredRelations) = {a, b}
      BY <3>1 DEF RequiredRelations, Range
    <3> QED BY <1>2, <1>7, <2>1, <3>1, <3>2
  <2>3. parent.satisfied =>
          parent.to \in Registered /\ TypeOf[parent.to] = "ACTIVITY" /\ c.pointer[parent.to] # Null
    BY <2>1, SatisfiedLemma
  <2>4. outcome.satisfied => outcome.to \in Registered /\ c.pointer[outcome.to] # Null
    BY <1>7, SatisfiedLemma
  <2> QED BY <2>2, <2>3, <2>4
<1>9. PICK found : found = {r \in c.relation : r.from = q.object /\ r.type = "LEARNING_OUTCOME"}
  OBVIOUS
<1>10. PICK to : to = IF found = {} THEN Null ELSE (CHOOSE r \in found : TRUE).to
  OBVIOUS
<1>11. /\ outcome.to = to
       /\ outcome.satisfied <=> to # Null /\ TypeOf[to] = "LEARNING_OUTCOME" /\ c.pointer[to] # Null
  BY <1>7, <1>9, <1>10 DEF Resolution
<1>12. Null \notin Registered
  BY ContextAssumption
<1>13. ASSUME to # Null
       PROVE  to \in Registered /\ [from |-> q.object, type |-> "LEARNING_OUTCOME", to |-> to] \in c.relation
  <2>1. PICK r \in found : r = CHOOSE x \in found : TRUE
    BY <1>10, <1>13
  <2>2. r \in c.relation /\ r.from = q.object /\ r.type = "LEARNING_OUTCOME" /\ r.to = to
    BY <1>9, <1>10, <1>13, <2>1
  <2>3. r \in [from : Registered, type : STRING, to : Registered]
    BY <1>5, <2>2
  <2>4. r = [from |-> q.object, type |-> "LEARNING_OUTCOME", to |-> to]
    BY <2>2, <2>3
  <2> QED BY <2>2, <2>3, <2>4
<1>14. ASSUME NEW o \in Registered,
              [from |-> q.object, type |-> "LEARNING_OUTCOME", to |-> o] \in c.relation
       PROVE  to = o
  <2>1. PICK link : link = [from |-> q.object, type |-> "LEARNING_OUTCOME", to |-> o]
    OBVIOUS
  <2>2. link \in found /\ link.to = o
    BY <1>9, <1>14, <2>1
  <2>3. \A r \in found : r = link
    BY <1>9, <2>2 DEF Consistent
  <2> QED BY <1>10, <2>2, <2>3
<1>15. ASSUME NEW o \in AllowedOutcomes(approved) PROVE o \in LinkedOutcomes(c, q)
  <2>1. PICK e \in entries : e.type = "LEARNING_OUTCOME" /\ e.object = o
    BY <1>3, <1>15 DEF AllowedOutcomes
  <2>2. PICK v : /\ e = Entry(c, v)
                 /\ v \in ({effective} \ {Null}) \union {c.pointer[r.to] : r \in {x \in resolutions : x.satisfied}}
    BY <1>4, <2>1
  <2>3. o = ObjectOf[v] /\ TypeOf[o] = "LEARNING_OUTCOME"
    BY <2>1, <2>2 DEF Entry
  <2>4. CASE v = effective /\ v # Null
    <3>1. o = q.object
      BY <1>6, <2>3, <2>4
    <3>2. e \in PackageAt(c, q).approved
      BY <1>3, <2>1
    <3> QED BY <2>1, <2>3, <3>1, <3>2 DEF LinkedOutcomes
  <2>5. CASE \E r \in resolutions : r.satisfied /\ v = c.pointer[r.to]
    <3>1. PICK r \in resolutions : r.satisfied /\ v = c.pointer[r.to]
      BY <2>5
    <3>2. r.to \in Registered /\ c.pointer[r.to] # Null
      BY <1>8, <3>1
    <3>3. o = r.to
      BY <1>5, <2>3, <3>1, <3>2
    <3>4. r = outcome
      BY <1>8, <2>3, <3>1, <3>3
    <3> QED BY <1>11, <1>13, <2>3, <3>1, <3>3, <3>4 DEF LinkedOutcomes
  <2> QED BY <2>2, <2>4, <2>5
<1>16. ASSUME NEW o \in LinkedOutcomes(c, q) PROVE o \in AllowedOutcomes(approved)
  <2>1. o \in Registered /\ TypeOf[o] = "LEARNING_OUTCOME"
    BY <1>16 DEF LinkedOutcomes
  <2>2. \E e \in entries : e.object = o
    <3>1. CASE \E e \in PackageAt(c, q).approved : e.object = o
      BY <1>3, <3>1
    <3>2. CASE [from |-> q.object, type |-> "LEARNING_OUTCOME", to |-> o] \in c.relation /\ c.pointer[o] # Null
      <4>1. outcome.satisfied /\ outcome.to = o
        BY <1>11, <1>12, <1>14, <2>1, <3>2
      <4>2. Entry(c, c.pointer[o]) \in entries
        BY <1>4, <1>8, <4>1
      <4>3. Entry(c, c.pointer[o]).object = o
        BY <1>5, <2>1, <3>2 DEF Entry
      <4> QED BY <4>2, <4>3
    <3> QED BY <1>16, <3>1, <3>2 DEF LinkedOutcomes
  <2>3. \A e \in entries : e.type = TypeOf[e.object]
    BY <1>4 DEF Entry
  <2> QED BY <1>3, <2>1, <2>2, <2>3 DEF AllowedOutcomes
<1> QED BY <1>15, <1>16

-------------------------------------------------------------------------------
\* The composition.

\* A package that is committed is the last one there is.
LEMMA NewPackageLemma ==
    ASSUME IndInv, NEW p \in Proc, CommitPackage(p), NEW package, package = Last(packages')
    PROVE  /\ package.approved = draft[p].approved /\ package.relations = draft[p].relations
           /\ package.evidence = draft[p].evidence /\ package.gaps = draft[p].gaps
<1>1. PICK new : new = [key |-> ask[p].key, payload |-> ask[p].payload, approved |-> draft[p].approved,
                        relations |-> draft[p].relations, evidence |-> draft[p].evidence,
                        gaps |-> draft[p].gaps]
  OBVIOUS
<1>2. packages' = Append(packages, new)
  BY <1>1 DEF CommitPackage
<1>3. IsSeq(packages)
  BY DEF IndInv, Rows
<1>4. Len(packages') = Len(packages) + 1 /\ packages'[Len(packages) + 1] = new
  BY <1>2, <1>3, AppendLemma
<1>5. package = new
  BY <1>4 DEF Last
<1> QED BY <1>1, <1>5

\* A package that is new, and an outcome of p that is new, are of p's own commit.
LEMMA OwnCommitLemma ==
    ASSUME IndInv, Next, NEW p \in Proc, pc[p] = "commit", packages' # packages, result'[p] # result[p]
    PROVE  CommitPackage(p)
<1>1. PICK x \in Proc : CommitPackage(x)
  <2>1. ASSUME Environment PROVE FALSE
    BY <2>1 DEF Environment, Approve, CreateVersion, Transition, InsertRelation, InsertEvidence, Change
  <2>2. ASSUME NEW x \in Proc, Request(x) \/ RequestInVain(x) \/ Step(x) \/ Crash(x), ~CommitPackage(x)
        PROVE FALSE
    <3>1. CASE Request(x) \/ RequestInVain(x) \/ TakeSnapshot(x) \/ Insert(x) \/ Replay(x)
      BY <3>1 DEF Request, RequestInVain, TakeSnapshot, Insert, WinReservation, FindReservation,
         SerializationFailure, Replay, rows
    <3>2. CASE Read(x)
      BY <3>2 DEF Read, ReadTarget, RejectPinned, AcceptPinned, ReadVersion, ResolveRelation,
         NoteDependency, RetrieveEvidence, Reads, rows
    <3>3. CASE FailToInsert(x) \/ Reject(x) \/ Receive(x) \/ Crash(x)
      BY <3>3 DEF FailToInsert, Reject, Receive, Crash, rows
    <3> QED BY <2>2, <3>1, <3>2, <3>3 DEF Step
  <2> QED BY <2>1, <2>2 DEF Next
<1>2. \E s : result' = [result EXCEPT ![x] = s]
  BY <1>1 DEF CommitPackage, Result
<1>3. x = p
  BY <1>2 DEF IndInv, Functions
<1> QED BY <1>1, <1>3

\* The references of the prompt are those of the snapshot, a content that was current between the
\* request for the context and its commit.
LEMMA GroundedLemma ==
    ASSUME IndInv, NEW p \in Proc, CommitPackage(p), NEW approved, approved = Last(packages').approved
    PROVE  /\ snapshot[p].content \in since[p]..Len(history)
           /\ AllowedOutcomes(approved) = LinkedOutcomes(history[snapshot[p].content], ask[p].payload)
<1>1. pc[p] = "commit" /\ Owns(p) /\ ask[p].payload.object \in Registered
  BY DEF CommitPackage, Owns
<1>2. PICK q \in Payload : q = ask[p].payload
  BY <1>1, AskLemma
<1>3. PICK i : i = snapshot[p].content
  OBVIOUS
<1>4. i \in since[p]..Len(history) /\ i \in 1..Len(history)
  BY <1>1, <1>3 DEF IndInv, Caller
<1>5. PICK c \in Content : c = history[i]
  BY <1>4, ElementLemma DEF IndInv, Contents
<1>6. Consistent(c) /\ c = Visible(p)
  BY <1>3, <1>4, <1>5 DEF IndInv, Contents, Visible
<1>7. PICK package : package = Last(packages')
  OBVIOUS
<1>8. OutcomeAt(c, q) = "COMMITTED" /\ Canonical(package) = PackageAt(c, q)
  BY <1>1, <1>2, <1>6, <1>7, NewPackageLemma, CollectedLemma
<1>9. Range(approved) = PackageAt(c, q).approved
  BY <1>7, <1>8 DEF Canonical
<1> QED BY <1>1, <1>2, <1>3, <1>4, <1>5, <1>6, <1>8, <1>9, ReferencesLemma

\* D10.5, CODE-CR-67: the references the prompt allows are the learning outcomes approved and
\* linked to the object at one moment between the request for the context and its commit, whatever
\* was approved and linked meanwhile, and an answer makes an attempt succeed if and only if it
\* obeys the prompt with these, within the length of a title.
THEOREM ProducerGrounded == Spec => AcceptedIffGrounded
<1> DEFINE Grounded ==
      \A p \in Proc :
         LET q == ask[p].payload
             package == Last(packages')
             type == TypeOf[q.object] IN
         pc[p] = "commit" /\ packages' # packages /\ result'[p] # result[p] =>
           \E i \in since[p]..Len(history) : \A answer \in AnswersOf[type] :
              AttemptOutcome(answer, type, AllowedOutcomes(package.approved)) = "SUCCESS"
              <=> /\ ObeysPrompt(answer, SchemaVersion, type, LinkedOutcomes(history[i], q))
                  /\ StructuredOutput(answer)["title"].value <= MaxTitleLength
<1>1. ASSUME IndInv, [Next]_vars PROVE [Grounded]_vars
  <2> SUFFICES ASSUME Next, NEW p \in Proc, pc[p] = "commit", packages' # packages, result'[p] # result[p]
               PROVE  LET q == ask[p].payload
                          package == Last(packages')
                          type == TypeOf[q.object] IN
                      \E i \in since[p]..Len(history) : \A answer \in AnswersOf[type] :
                         AttemptOutcome(answer, type, AllowedOutcomes(package.approved)) = "SUCCESS"
                         <=> /\ ObeysPrompt(answer, SchemaVersion, type, LinkedOutcomes(history[i], q))
                             /\ StructuredOutput(answer)["title"].value <= MaxTitleLength
    BY <1>1
  <2>1. CommitPackage(p)
    BY <1>1, OwnCommitLemma
  <2>2. PICK i, q, approved, type : /\ i = snapshot[p].content /\ q = ask[p].payload
                                    /\ approved = Last(packages').approved /\ type = TypeOf[q.object]
    OBVIOUS
  <2>3. PICK references : references = AllowedOutcomes(approved)
    OBVIOUS
  <2>4. i \in since[p]..Len(history) /\ references = LinkedOutcomes(history[i], q)
    BY <1>1, <2>1, <2>2, <2>3, GroundedLemma
  <2>5. AnswersOf[type] = Answers(type, Registered)
    <3>1. q.object \in DOMAIN TypeOf
      BY <2>1, <2>2, ContextAssumption DEF CommitPackage
    <3>2. type \in Range(TypeOf)
      BY <2>2, <3>1 DEF Range
    <3> QED BY <3>2 DEF AnswersOf
  <2>6. ASSUME NEW answer \in AnswersOf[type]
        PROVE  AttemptOutcome(answer, type, references) = "SUCCESS"
                <=> /\ ObeysPrompt(answer, SchemaVersion, type, references)
                    /\ StructuredOutput(answer)["title"].value <= MaxTitleLength
    <3>1. PICK S : S = Pieces(type, Registered)
      OBVIOUS
    <3>2. /\ answer.content \in Seq(Seq(S))
          /\ \A piece \in S : piece.of.kind = "object" => WellTyped(piece.of.value)
      BY <2>5, <2>6, <3>1, AnswersTyped
    <3> QED BY <3>2, ProducerOutputAccepted
  <2> QED BY <2>2, <2>3, <2>4, <2>6
<1> QED BY <1>1, Invariance, PTL DEF Spec, AcceptedIffGrounded
================================================================================
