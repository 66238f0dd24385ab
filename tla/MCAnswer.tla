------------------------------ MODULE MCAnswer ------------------------------
(* An instance of Answer for TLC.                                          *)
EXTENDS Answer

Plain == [kind |-> "text", owner |-> FALSE, ownerOnly |-> FALSE,
          unasked |-> FALSE, claims |-> FALSE, sensitive |-> FALSE]

(* Ordinary text; what only an owner may do, from an owner and from a user; *)
(* what nobody may; and commands that are turned away.                      *)
MCMessages ==
    {Plain, [Plain EXCEPT !.owner = TRUE],
     [Plain EXCEPT !.sensitive = TRUE],
     [Plain EXCEPT !.owner = TRUE, !.claims = TRUE],
     [Plain EXCEPT !.kind = "help"], [Plain EXCEPT !.kind = "unknown"],
     [Plain EXCEPT !.kind = "prompt", !.unasked = TRUE],
     [Plain EXCEPT !.kind = "prompt", !.ownerOnly = TRUE, !.owner = TRUE]}
    \cup
    {[Plain EXCEPT !.kind = k, !.owner = o, !.claims = c] :
        k \in {"identity", "shell", "exec"}, o \in BOOLEAN, c \in BOOLEAN}

Sandbox == [mode |-> "sandbox", fullForOwnersOnly |-> TRUE,
            allowSensitive |-> FALSE, routed |-> FALSE,
            persistent |-> FALSE, requirePersistent |-> FALSE]

(* All modes; with and without routing; and the ways to ask Hermes.        *)
MCConfigs ==
    {Sandbox, [Sandbox EXCEPT !.mode = "full", !.routed = TRUE],
     [Sandbox EXCEPT !.mode = "full", !.fullForOwnersOnly = FALSE,
                     !.allowSensitive = TRUE, !.persistent = TRUE],
     [Sandbox EXCEPT !.mode = "other", !.routed = TRUE, !.persistent = TRUE,
                     !.requirePersistent = TRUE]}
=============================================================================
