------------------------------- MODULE Drafts -------------------------------
(***************************************************************************)
(* The drafts of a user's code, which the tabs of a browser keep in one    *)
(* localStorage.  The store of a tab reads it when the tab opens and never *)
(* again, and writes the whole of its own copy at every change.            *)
(***************************************************************************)
EXTENDS Naturals

CONSTANTS
  Tabs,
  Codes,     \* a problem in a language; the pages of contests share them
  MaxEdits   \* bound: changes of any draft

VARIABLES
  open,
  savedCodes,  \* of each tab: the change that made its draft, 0 for none
  storage,     \* code-editor-storage
  edits,
  latest,      \* ghost: the last change of each draft since a logout
  behind,      \* ghost: drafts changed elsewhere since a tab opened
  overwritten  \* ghost: drafts written by a tab that was behind
vars == <<open, savedCodes, storage, edits, latest, behind, overwritten>>

NoDrafts == [c \in Codes |-> 0]
Drafts == [Codes -> 0..MaxEdits]
TypeOK ==
  /\ open \subseteq Tabs /\ savedCodes \in [Tabs -> Drafts] /\ storage \in Drafts
  /\ edits \in 0..MaxEdits /\ latest \in Drafts
  /\ behind \in [Tabs -> SUBSET Codes] /\ overwritten \subseteq Codes

Init ==
  /\ open = {} /\ savedCodes = [t \in Tabs |-> NoDrafts]
  /\ storage = NoDrafts /\ latest = NoDrafts /\ edits = 0
  /\ behind = [t \in Tabs |-> {}] /\ overwritten = {}

\* The page is loaded, or loaded again.
Open(t) ==
  /\ open' = open \cup {t}
  /\ savedCodes' = [savedCodes EXCEPT ![t] = storage]
  /\ behind' = [behind EXCEPT ![t] = overwritten]
  /\ UNCHANGED <<storage, edits, latest, overwritten>>

Close(t) ==
  /\ t \in open /\ open' = open \ {t}
  /\ savedCodes' = [savedCodes EXCEPT ![t] = NoDrafts]
  /\ behind' = [behind EXCEPT ![t] = {}]
  /\ UNCHANGED <<storage, edits, latest, overwritten>>

Others(t) == open \ {t}
SaveCode(t, c) ==
  LET codes == [savedCodes[t] EXCEPT ![c] = edits + 1] IN
  /\ t \in open /\ edits < MaxEdits /\ edits' = edits + 1
  /\ savedCodes' = [savedCodes EXCEPT ![t] = codes] /\ storage' = codes
  /\ latest' = [latest EXCEPT ![c] = edits + 1]
  /\ behind' = [o \in Tabs |-> CASE o = t -> behind[t] \ {c}
                                 [] o \in Others(t) -> behind[o] \cup {c}
                                 [] OTHER -> {}]
  /\ overwritten' = (overwritten \cup behind[t]) \ {c}
  /\ UNCHANGED open

\* clearAll, then localStorage.clear.
Logout(t) ==
  /\ t \in open
  /\ savedCodes' = [savedCodes EXCEPT ![t] = NoDrafts] /\ storage' = NoDrafts
  /\ latest' = NoDrafts /\ overwritten' = {}
  /\ behind' = [o \in Tabs |-> IF o \in Others(t) THEN Codes ELSE {}]
  /\ UNCHANGED <<open, edits>>

Next == \E t \in Tabs : Open(t) \/ Close(t) \/ Logout(t) \/ \E c \in Codes : SaveCode(t, c)
Spec == Init /\ [][Next]_vars
-----------------------------------------------------------------------------
(* The storage has the last draft of each code, and nothing of before a     *)
(* logout, unless a tab wrote that was open when another tab changed the    *)
(* draft or logged out; and a tab shows the last draft unless it is behind. *)
DraftsAreLatest ==
  /\ \A c \in Codes : storage[c] # latest[c] => c \in overwritten
  /\ \A t \in open, c \in Codes : savedCodes[t][c] # latest[c] => c \in behind[t]
=============================================================================
