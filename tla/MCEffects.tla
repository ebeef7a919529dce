----------------------------- MODULE MCEffects -----------------------------
(***************************************************************************)
(* A form with a tab's content in it, hidden by the stylesheet; a handler  *)
(* of clicks on the content and one of the form delegated to its content.  *)
(***************************************************************************)
EXTENDS Effects

CONSTANTS form, content, f

MCParent    == [e \in {form, content} |-> IF e = form THEN Document ELSE form]
MCBindings  == {<<form, Handler(f, content, FALSE)>>, <<form, Handler(f, Nobody, TRUE)>>}
MCJobs      == {[kind |-> "show", ticks |-> 1], [kind |-> "show", ticks |-> 2],
                [kind |-> "hide", ticks |-> 1], [kind |-> "toggle", ticks |-> 2]}
MCStops     == BOOLEAN \X BOOLEAN
=============================================================================
