---------------------------- MODULE MCWebClient ----------------------------
(* Instances of WebClient for TLC.                                         *)
EXTENDS WebClient

CONSTANTS b1, b2, plain, chosen, nil

\* One user is at work on a project, one sets up the page, one keeps to-dos.
Users == {{"reorder", "edit", "view"}, {"choose", "reorder", "reset", "reload"},
          {"todos", "view"}}

\* There is a second tab, and configs differ, where they are at work on them.
MCInit ==
    /\ Init
    /\ \/ "choose" \in activities /\ DOMAIN tab \in {{b1}, {b1, b2}}
       \/ DOMAIN tab = {b1} /\ config = Default /\ tab[b1] = Fresh(Default)

MCSpec == MCInit /\ [][Next]_vars /\ Fairness
=============================================================================
