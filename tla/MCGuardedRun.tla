---------------------------- MODULE MCGuardedRun ----------------------------
(* Instance of GuardedRun for TLC: secrets that overlap, one within        *)
(* another, one that is too short to be looked for, and texts that         *)
(* complete one or only begin one; one that is split over the two streams  *)
(* is not looked for.                                                      *)
EXTENDS GuardedRun

MCChar == {"a", "b", "c"}
MCValues == {<<"b">>, <<"b", "a">>, <<"a", "b", "a">>}
MCMinLeakLength == 2
MCTexts == {[stdout |-> <<"c">>, stderr |-> <<"b", "a">>],
            [stdout |-> <<"a", "b", "a">>, stderr |-> <<>>],
            [stdout |-> <<"b">>, stderr |-> <<"a">>]}

Plain == {"group", "pipes", "signallable", "obeys"}
MCKinds == {Plain,
            Plain \ {"obeys"},              \* ignores SIGTERM
            Plain \ {"pipes"},              \* its output is elsewhere
            Plain \ {"signallable"},        \* changed its privileges
            Plain \ {"group"}}              \* in a session of its own
=============================================================================
