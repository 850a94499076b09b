--------------------------- MODULE MCPagePipeline ---------------------------
(* Small instances of PagePipeline for TLC: a button that opens a panel with an input, which
   once filled in shows a file input; a login form of a field and a button. *)
EXTENDS PagePipeline

CONSTANTS button, field, file

PanelForm == << [kind |-> "click", target |-> button], [kind |-> "type", target |-> field],
                [kind |-> "upload", target |-> file] >>
LoginForm == << [kind |-> "type", target |-> field], [kind |-> "click", target |-> button] >>

\* The file input is in the document, not displayed, or is put there later.
PanelLooks == {[e \in {button, field, file} |->
                  IF e = button THEN "shown" ELSE IF e = file THEN f ELSE "absent"] :
                 f \in {"hidden", "absent"}}
LoginLooks == {[e \in {button, field, file} |-> IF e = file THEN "absent" ELSE "shown"]}

PanelReveals == [e \in {button, field, file} |->
                   IF e = button THEN {field} ELSE IF e = field THEN {file} ELSE {}]
\* What the two inputs wait for, and a wait of every other kind.
W(kind, e) == [kind |-> kind, target |-> e]
PanelWaits == {<<W("element_ready", file), W("selector", field), W("app_flag", "nothing"),
                 W("fonts_loaded", "nothing"), W("network_idle", "nothing"), W("delay", "nothing")>>}
NoWaits    == {<< >>}

NoReveals    == [e \in {button, field, file} |-> {}]
=============================================================================
