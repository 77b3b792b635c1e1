---------------------------- MODULE FrameViewer ----------------------------
(***************************************************************************)
(* The dashboard's view of one store (useStorePolling.js): a poll asks for  *)
(* the occupancy frame and, when that is a new one, for the state, and      *)
(* shows both.  A poll is started by the timer whether or not the last one  *)
(* has ended.  The picture and its headers are asked for by themselves.     *)
(***************************************************************************)
EXTENDS FrameStore

CONSTANT Poll   \* polls that may be under way at once

VARIABLES
  polls,     \* each poll: idle, or what it has read and is to show
  shown      \* the occupancy frame on the screen

viewVars == <<polls, shown>>

NoPoll == [at |-> "idle", read |-> NoFrame]

ViewInit ==
    /\ polls = [p \in Poll |-> NoPoll]
    /\ shown = NoFrame

Reads(p, next, what) ==
    /\ polls[p].at = "idle"
    /\ polls' = [polls EXCEPT ![p] = [at |-> next, read |-> what]]
    /\ UNCHANGED shown

\* The frame shown already: nothing is asked for.  There is none: the state is.
New(frame) == frame = NoFrame \/ frame # shown

\* loadStateOnly: the frame comes from memory, ...
PollOccupancy(p) ==
    /\ memory # NoFrame \/ row = NoFrame
    /\ New(memory) /\ Reads(p, "state", memory)
    /\ UNCHANGED <<apiVars, faults>>

\* ... or from the database, after a restart of the API.
PollLoads(p, t) ==
    /\ Load(t)
    /\ New(row) /\ Reads(p, "state", row)
    /\ UNCHANGED faults

\* The state read then is shown beside it.
PollState(p) ==
    /\ polls[p].at = "state"
    /\ shown' = IF polls[p].read = NoFrame THEN shown ELSE polls[p].read
    /\ polls' = [polls EXCEPT ![p] = NoPoll]
    /\ UNCHANGED <<apiVars, faults>>

\* vision_snapshot_response reads the description; the file is opened for the
\* answer later, when it may be a newer one.
ReadHeaders(p) ==
    /\ image # 0 /\ Reads(p, "image", meta)
    /\ UNCHANGED <<apiVars, faults>>

SendImage(p) ==
    /\ polls[p].at = "image"
    /\ polls' = [polls EXCEPT ![p] = NoPoll]
    /\ UNCHANGED <<shown, apiVars, faults>>

ViewNext ==
    \E p \in Poll :
        \/ PollOccupancy(p) \/ PollState(p) \/ ReadHeaders(p) \/ SendImage(p)
        \/ \E t \in Thread : PollLoads(p, t)

-----------------------------------------------------------------------------
\* The headers of an answer never describe a later picture than the one sent,
\* and once no upload is under way the description on disk is the picture's.
HeadersNotAhead ==
    /\ \A p \in Poll : polls[p].at = "image" => polls[p].read <= image
    /\ loop = 0 /\ ~ torn => meta = image
=============================================================================
