--------------------------- MODULE ProducerContext ---------------------------
(***************************************************************************)
(* The package and the producer together: what ContextEngine commits is    *)
(* what orchestrator.py gives the provider in the prompt and what it       *)
(* validates the answer against.  The package is read once for all the     *)
(* attempts of an execution and never changes, so the moment to judge both *)
(* is the commit of the package.                                           *)
(***************************************************************************)
EXTENDS ContextEngine, ProducerOutput

\* The learning outcomes a content links to an object: its approved ones, and the object
\* itself if it is one and the request resolves to a version of it.
LinkedOutcomes(c, q) ==
    {o \in Registered :
        /\ TypeOf[o] = "LEARNING_OUTCOME"
        /\ \/ o = q.object /\ \E e \in PackageAt(c, q).approved : e.object = o
           \/ /\ [from |-> q.object, type |-> "LEARNING_OUTCOME", to |-> o] \in c.relation
              /\ c.pointer[o] # Null}

AnswersOf == [type \in Range(TypeOf) |-> Answers(type, Registered)]

\* D10.5, CODE-CR-67: an answer makes an attempt succeed if and only if it obeys the prompt,
\* within the length of a title, and the references the prompt allows are the learning
\* outcomes that were approved and linked to the object at one moment between the request
\* for the context and its commit, whatever was approved and linked meanwhile.
AcceptedIffGrounded ==
    [][\A p \in Proc :
         LET q == ask[p].payload
             package == Last(packages')
             type == TypeOf[q.object] IN
         pc[p] = "commit" /\ packages' # packages /\ result'[p] # result[p] =>
           \E i \in since[p]..Len(history) : \A answer \in AnswersOf[type] :
              AttemptOutcome(answer, type, AllowedOutcomes(package.approved)) = "SUCCESS"
              <=> /\ ObeysPrompt(answer, SchemaVersion, type, LinkedOutcomes(history[i], q))
                  /\ StructuredOutput(answer)["title"].value <= MaxTitleLength]_vars
===============================================================================
