--------------------------- MODULE AtomicReplace ---------------------------
(***************************************************************************)
(* What a managed restore promises to the owner of a vault, with no        *)
(* journal, directory or process in sight: the vault is one image, a       *)
(* restore replaces the whole of it in one step, and until the restore has *)
(* completed that step may be undone as a whole.  ManagedRestore is shown  *)
(* to implement this specification.                                        *)
(***************************************************************************)
CONSTANTS
    Files,      \* names of the files of a vault
    Database,   \* the one file an external SQLite client can change
    Content,    \* what a file may hold
    Absent      \* what the image of a missing file is

VARIABLES
    vault,      \* the image a reader of the recovered vault would see
    prior,      \* the image an undone restore gives back; the vault itself when idle
    stage       \* "idle", "open" (undecided) or "replaced"

vars == <<vault, prior, stage>>

Image == [Files -> Content \cup {Absent}]

Init ==
    /\ vault \in Image
    /\ prior = vault
    /\ stage = "idle"

Open ==
    /\ stage = "idle"
    /\ stage' = "open"
    /\ prior' = vault
    /\ UNCHANGED vault

Replace ==
    /\ stage = "open"
    /\ stage' = "replaced"
    /\ vault' \in Image
    /\ UNCHANGED prior

Undo ==
    /\ stage = "replaced"
    /\ stage' = "open"
    /\ vault' = prior
    /\ UNCHANGED prior

Close ==
    /\ stage \in {"open", "replaced"}
    /\ stage' = "idle"
    /\ prior' = vault
    /\ UNCHANGED vault

\* A client outside Keyclasp changes the database.
External ==
    /\ \E c \in Content : vault' = [vault EXCEPT ![Database] = c]
    /\ prior' = IF stage = "replaced" THEN prior ELSE vault'
    /\ UNCHANGED stage

Next == Open \/ Replace \/ Undo \/ Close \/ External

Spec == Init /\ [][Next]_vars
============================================================================
