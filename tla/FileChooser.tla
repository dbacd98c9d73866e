---------------------------- MODULE FileChooser ----------------------------
(* scripts/c7shell-filechooser.py: one call of the portal's file chooser.   *)
(* The helper subscribes to the Response of a request whose path it can     *)
(* predict, calls OpenFile, and waits in its main loop.  A portal older     *)
(* than version 2 chooses the path itself and tells it in the reply.        *)
(*                                                                          *)
(* The portal is modelled from what the helper expects of it.               *)
EXTENDS Integers

CONSTANTS Pictures,    \* local files a person may pick
          Elsewhere,   \* a pick that is no local file
          None

Answers == Pictures \cup {Elsewhere, None}

VARIABLES
  helper,     \* the process: off, calling OpenFile, in its main loop, ended
  request,    \* at the portal: none, called, open on the screen, closed, lost with it
  ours,       \* the portal uses the path the helper predicted
  reply,      \* what OpenFile returns, on its way: none, handle, error
  heard,      \* the helper listens to the path the portal uses
  response,   \* a Response is in the helper's queue
  answer,     \* what the person picked; None for a cancelled dialog
  out         \* what the helper ended with: [code, path]

chooserVars == <<helper, request, ours, reply, heard, response, answer, out>>

Silent == [code |-> 1, path |-> None]

ChooserTypes ==
    /\ helper \in {"off", "calling", "waiting", "ended"}
    /\ request \in {"none", "called", "open", "closed", "lost"}
    /\ ours \in BOOLEAN /\ heard \in BOOLEAN /\ response \in BOOLEAN
    /\ reply \in {"none", "handle", "error"}
    /\ answer \in Answers
    /\ out \in [code : 0..2, path : Answers]

ChooserInit ==
    /\ helper = "off" /\ request = "none" /\ ours \in BOOLEAN /\ reply = "none"
    /\ heard = FALSE /\ response = FALSE /\ answer = None /\ out = Silent

\* OpenFile first, then the receiver.
Choose_slip ==
    /\ helper = "off"
    /\ helper' = "calling" /\ request' = "called" /\ reply' = "none"
    /\ heard' = FALSE /\ response' = FALSE /\ answer' = None /\ out' = Silent
    /\ UNCHANGED ours

\* choose() as far as the call: the receiver first, then OpenFile.
Choose ==
    /\ helper = "off"
    /\ helper' = "calling" /\ request' = "called" /\ reply' = "none"
    /\ heard' = ours /\ response' = FALSE /\ answer' = None /\ out' = Silent
    /\ UNCHANGED ours

\* The portal takes the call; or there is none, or it refuses.
PortalOpens ==
    /\ request = "called"
    /\ \/ request' = "open" /\ reply' = "handle"
       \/ request' = "closed" /\ reply' = "error"
    /\ UNCHANGED <<helper, ours, heard, response, answer, out>>

\* The person answers, and the portal says so to whoever listens; that may be
\* before the helper has seen the reply.
DialogEnds ==
    /\ request = "open"
    /\ request' = "closed"
    /\ answer' \in Answers
    /\ response' = heard
    /\ UNCHANGED <<helper, ours, reply, heard, out>>

\* The portal goes away with the dialog; no Response follows.
PortalLost ==
    /\ request = "open"
    /\ request' = "lost"
    /\ UNCHANGED <<helper, ours, reply, heard, response, answer, out>>

Ends(code, path) ==
    /\ helper' = "ended"
    /\ out' = [code |-> code, path |-> path]

\* OpenFile returns or raises.  With a handle of the portal's own the helper
\* listens there from now on.
Replied ==
    /\ helper = "calling" /\ reply # "none"
    /\ reply' = "none"
    /\ \/ reply = "error" /\ Ends(2, None) /\ UNCHANGED heard
       \/ reply = "handle" /\ helper' = "waiting" /\ heard' = TRUE /\ UNCHANGED out
    /\ UNCHANGED <<request, ours, response, answer>>

\* on_response(), and the rest of main().
OnResponse ==
    /\ helper = "waiting" /\ response
    /\ response' = FALSE
    /\ \/ answer \in Pictures /\ Ends(0, answer)
       \/ answer = None /\ Ends(1, None)
       \/ answer = Elsewhere /\ Ends(2, None)
    /\ UNCHANGED <<request, ours, reply, heard, answer>>

\* The process is gone, of itself or killed; a dialog goes with its caller.
Reaped ==
    /\ helper' = "off" /\ request' = "none" /\ reply' = "none"
    /\ heard' = FALSE /\ response' = FALSE /\ answer' = None /\ out' = Silent
    /\ UNCHANGED ours

Helper == Replied \/ OnResponse
=============================================================================
