------------------------------ MODULE MCEvents ------------------------------
(* Instances of EventPublication for TLC. *)
EXTENDS EventPublicationProps

Handler(on, phase) == [decorator |-> "transactional", on |-> on, phase |-> phase,
                       async |-> FALSE, fallback |-> FALSE, bound |-> TRUE]

\* A before-commit listener that may publish while the pass runs, a detached
\* one, listeners of each outcome, one of another data source, and an
\* integration handler listed before the others.
Reactions ==
  << [Handler({"shipped"}, None) EXCEPT !.decorator = "integration"],
     Handler({"placed"}, "BEFORE_COMMIT"), Handler({"placed"}, "AFTER_COMPLETION"),
     Handler({"shipped"}, None), Handler({"shipped"}, "AFTER_ROLLBACK"),
     [Handler({"shipped"}, "BEFORE_COMMIT") EXCEPT !.async = TRUE, !.fallback = TRUE],
     [Handler({"placed"}, "AFTER_COMPLETION") EXCEPT !.bound = FALSE, !.fallback = TRUE] >>

NoHandlers == <<>>
===============================================================================
