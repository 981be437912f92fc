------------------------------- MODULE MCWeb -------------------------------
(***************************************************************************)
(* Small instances of Session, Pages and Drafts for TLC.  Init chooses     *)
(* which of them a behaviour is about; the others stay where they start.   *)
(* The second tab of a session only ever asks for /auth/me; a user who     *)
(* goes to another problem of a contest submits once; one who submits      *)
(* again has the problem's details, nothing crosses and nothing hangs, and *)
(* one who submits a third time is in a contest and stays.                 *)
(***************************************************************************)
EXTENDS Naturals
CONSTANTS Tabs, FirstTab, Calls, Me, Deployments, MaxTurns, Problems, MaxAttempts, MaxPolls, MaxVisits,
  Codes, MaxEdits
VARIABLES part,
  readable, access, jar, page, refreshing, queue, call, refresh, turns,
  kind, mounted, shown, visits, home, running, attempts, pollRef, result, fetches, lists,
  hung, overlapped, crossed,
  open, savedCodes, storage, edits, latest, behind, overwritten
session == <<readable, access, jar, page, refreshing, queue, call, refresh, turns>>
pages == <<kind, mounted, shown, visits, home, running, attempts, pollRef, result, fetches, lists,
           hung, overlapped, crossed>>
drafts == <<open, savedCodes, storage, edits, latest, behind, overwritten>>

ASSUME WebAssumption ==
  /\ Deployments \subseteq BOOLEAN /\ Problems # {} /\ FirstTab \in Tabs /\ "refresh" \notin Calls
  /\ {MaxTurns, MaxAttempts, MaxPolls, MaxVisits, MaxEdits} \subseteq Nat

Session == INSTANCE Session
Pages == INSTANCE Pages
Drafts == INSTANCE Drafts

Init ==
  /\ part \in {"session", "pages", "drafts"} /\ Session!Init /\ Pages!Init /\ Drafts!Init
  /\ part # "session" => ~readable /\ jar = "none"
  /\ part # "pages" => kind = "contest" /\ shown = CHOOSE p \in Problems : TRUE
Next ==
  \/ /\ part = "session" /\ Session!Next /\ UNCHANGED <<part, pages, drafts>>
     /\ \A t \in Tabs \ {FirstTab}, c \in Calls \ {Me} : call'[t][c] = Session!Idle
  \/ /\ part = "pages" /\ Pages!Next /\ UNCHANGED <<part, session, drafts>>
     /\ visits' > 0 => DOMAIN attempts' \subseteq {1}
     /\ 2 \in DOMAIN attempts' => ~hung' /\ ~crossed' /\ \A p \in Problems : <<"details", p>> \notin fetches'
     /\ 3 \in DOMAIN attempts' => kind = "contest" /\ mounted'
  \/ part = "drafts" /\ Drafts!Next /\ UNCHANGED <<part, session, pages>>
Spec == Init /\ [][Next]_<<part, session, pages, drafts>> /\ Session!Fairness /\ Pages!Fairness

(* Every variable of the components has its type.                          *)
TypeOK == Session!TypeOK /\ Pages!TypeOK /\ Drafts!TypeOK

(* Nobody waits for a refresh that is over.                                *)
WaitersHaveARefresh == Session!WaitersHaveARefresh

(* A request ends unless the refresh in front of it waits for itself.      *)
RequestsEnd == Session!RequestsEnd

(* A page shows the last outcome and its own lists, but for named races,   *)
(* and whatever it polls for keeps its buttons disabled; its draft is the  *)
(* last one unless another tab is ahead.                                   *)
PageIsUpToDate == Pages!PageIsUpToDate /\ Drafts!DraftsAreLatest

(* Every run and submission ends, unless it stays pending for ever or the  *)
(* session is stuck.                                                       *)
AttemptsEnd == Pages!AttemptsEnd
=============================================================================
