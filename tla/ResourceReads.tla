------------------------------ MODULE ResourceReads ------------------------------
(***************************************************************************)
(* What every read handler has to be like for an import to be faithful:    *)
(* terraform import records the identity of an object and nothing else,    *)
(* and the read handler that follows has to find out all the rest.  A read *)
(* handler that keeps what is known (preserveKnown) keeps the nulls of an  *)
(* import for ever; Unread lists the attributes of which that is known.    *)
(***************************************************************************)
EXTENDS Resource

Looks(step) == step.op \in {"get", "list"} /\ Unconditional(step)

\* The step leaves nothing but the answer of the API in an attribute.  One that
\* takes only an answer that is not null, or fills the attribute only where it has
\* no value, does so if the import has recorded nothing for it.
Learns(k, step, a) ==
    /\ a \in step.attrs
    /\ \/ step.op = "refresh" /\ Unconditional(step)
       \/ /\ a \notin k.imports
          /\ \/ step.op = "refreshSet" /\ Unconditional(step)
             \/ /\ step.op = "refresh" /\ step.unless = {a}
                /\ Unconditional([step EXCEPT !.unless = {}])

\* And it comes after the handler has asked the API for the object.
LearnsAt(k, j, a) ==
    Learns(k, k.read[j], a) /\ \E i \in 1 .. (j - 1) : Looks(k.read[i])

\* The step gives an attribute a value that is the handler's own.
MakesUp(step, a) == step.op \in {"compute", "without"} /\ a \in step.attrs

\* What some handler takes from the API, as far as a configuration gives it.
ToLearn(k) ==
    LET steps == {k.create[i] : i \in DOMAIN k.create}
                 \union {k.read[i] : i \in DOMAIN k.read}
                 \union {k.update[i] : i \in DOMAIN k.update}
        shown == UNION {s.attrs : s \in {t \in steps : t.op \in {"refresh", "refreshSet", "preserve"}}}
    IN  {a \in GivenOf(k) \intersect shown : <<k.name, a>> \notin Unread}

ReadsAll(k) ==
    /\ \A i \in DOMAIN k.read : k.read[i].op # "forgetUnless"
    /\ k.framework => /\ Len(k.read) > 0
                      /\ k.read[Len(k.read)].op = "save"
                      /\ Unconditional(k.read[Len(k.read)])
    /\ \A a \in k.schema.key, i \in DOMAIN k.read : ~MakesUp(k.read[i], a)
    /\ \A a \in ToLearn(k) :
          /\ \A i \in DOMAIN k.read : ~MakesUp(k.read[i], a)
          /\ \E j \in DOMAIN k.read : LearnsAt(k, j, a)

ASSUME ReadAssumption == \A k \in Kinds : k.importable => ReadsAll(k)
================================================================================
