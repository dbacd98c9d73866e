---------------------------- MODULE AuthOrphan ----------------------------
(* bin/c7-authd when the shell it talks to dies.  The shell has both ends   *)
(* of the daemon's pipes: stdin ends, and from then on every line written   *)
(* to stdout or stderr raises BrokenPipeError.  Nothing catches it.  The    *)
(* handler ends at its first line with what it has done so far, the GLib    *)
(* source it ran from is done with, and the main loop goes on, so a handler *)
(* here is the part of AuthDaemon's before its first line.                  *)
(*                                                                          *)
(* The end of file is dispatched once, after the commands read before it.   *)
(* With nobody queued the daemon leaves; else shutdown() refuses the head,  *)
(* and the "close" of that ends it: the others stay queued, and so does the *)
(* loop.  Whoever starts the next daemon reads it, so a shell is there      *)
(* again; two daemons side by side are not modelled.                        *)
EXTENDS AuthDaemon

VARIABLE shell  \* "here"; "gone", and the end of file not dispatched yet;
                \* "noticed", with the daemon still running

orphanVars == <<vars, shell>>

OrphanInit == Init /\ shell = "here"

(* As long as there is a shell. *)
Heard == shell = "here" /\ Next /\ UNCHANGED shell

ShellGoes ==
    /\ up /\ shell = "here"
    /\ shell' = "gone" /\ out' = <<>>
    /\ UNCHANGED <<up, queue, status, held, session, reader, pending, tries>>

(* A handler of a daemon that nobody hears. *)
Unheard == up /\ shell # "here" /\ UNCHANGED <<up, out, shell>>

----------------------------------------------------------------------------
(* Callers. *)

(* push(): queued, and its "request" line ends it before activate().        *)
QueuesUnheard(r) ==
    /\ Unheard /\ status[r] = "new" /\ ~held[r]
    /\ queue' = Append(queue, r)
    /\ status' = [status EXCEPT ![r] = "open"]
    /\ held' = [held EXCEPT ![r] = TRUE]
    /\ UNCHANGED <<session, reader, pending, tries>>

(* No identity: the log line comes before the reply, which is never sent.   *)
RefusesUnheard(r) ==
    /\ Unheard /\ r \in Polkit /\ status[r] = "new" /\ ~held[r]
    /\ held' = [held EXCEPT ![r] = TRUE]
    /\ UNCHANGED <<queue, status, session, reader, pending, tries>>

(* close() as far as its own line: nobody is activated.                     *)
CloseUnheard(r, outcome) ==
    /\ queue' = Left(r)
    /\ status' = [status EXCEPT ![r] = outcome]
    /\ session' = Dropped(r)
    /\ pending' = [pending EXCEPT ![r] = FALSE]

DenyUnheard(r) ==
    /\ Open(r)
    /\ Answer(r)
    /\ CloseUnheard(r, "refused")
    /\ reader' = [reader EXCEPT ![r] = FALSE]
    /\ UNCHANGED tries

CallerUnheard(r) ==
    \/ QueuesUnheard(r) \/ RefusesUnheard(r)
    \/ Unheard /\ AskpassDropped(r)
    \/ Unheard /\ r \in Polkit /\ DenyUnheard(r)

----------------------------------------------------------------------------
(* Commands that were read before the end of file, and that end of file.    *)

RespondSudoUnheard(r) ==
    /\ r \in Sudo /\ Open(r)
    /\ Answer(r)
    /\ CloseUnheard(r, "granted")
    /\ UNCHANGED <<reader, tries>>

CommandUnheard(r) ==
    /\ Unheard /\ shell = "gone"
    /\ DenyUnheard(r) \/ RespondSudoUnheard(r) \/ RespondPolkit(r)

(* shutdown(): the loop over the queue gets no further than its head.       *)
Eof ==
    /\ up /\ shell = "gone" /\ queue # <<>>
    /\ DenyUnheard(queue[1])
    /\ shell' = "noticed"
    /\ UNCHANGED <<up, out>>

EofOnNobody == shell = "gone" /\ queue = <<>> /\ Gone("refused") /\ shell' = "here"

OrphanDies == shell # "here" /\ Crash /\ shell' = "here"

----------------------------------------------------------------------------
(* PAM. *)

AsksUnheard(r) ==
    /\ session[r] \in {"started", "answered"}
    /\ session' = [session EXCEPT ![r] = "asking"]
    /\ pending' = [pending EXCEPT ![r] = TRUE]
    /\ UNCHANGED <<queue, status, held, reader, tries>>

(* It asks, fails, completes for nobody, or is collected.                   *)
ReaderEndsUnheard(r) ==
    /\ reader[r]
    /\ reader' = [reader EXCEPT ![r] = FALSE]
    /\ UNCHANGED <<queue, status, held, session, pending, tries>>

(* The "factor" line stands between the old session and the new one, unless *)
(* the sensor is out of reach and the line is not written.                  *)
FingerUnheard(r) ==
    /\ Talking(r) /\ ~reader[r]
    /\ reader' = [reader EXCEPT ![r] = TRUE]
    /\ pending' = [pending EXCEPT ![r] = FALSE]
    /\ \E hidden \in BOOLEAN : session' = IF hidden THEN Fresh(r) ELSE Dropped(r)
    /\ UNCHANGED <<queue, status, held, tries>>

AuthorizedUnheard(r) ==
    /\ MayWin(r)
    /\ Answer(r)
    /\ CloseUnheard(r, "granted")
    /\ reader' = [reader EXCEPT ![r] = FALSE]
    /\ UNCHANGED tries

(* The "failed" line stands before the next session.                        *)
WrongPasswordUnheard(r) ==
    /\ Counts(r) /\ MayRetry(r)
    /\ tries' = [tries EXCEPT ![r] = @ + 1]
    /\ session' = Dropped(r)
    /\ pending' = [pending EXCEPT ![r] = FALSE]
    /\ UNCHANGED <<queue, status, held, reader>>

OutOfTriesUnheard(r) ==
    /\ Counts(r) /\ ~MayRetry(r)
    /\ tries' = [tries EXCEPT ![r] = @ + 1]
    /\ Answer(r)
    /\ CloseUnheard(r, "refused")
    /\ UNCHANGED reader

PamUnheard(r) ==
    /\ Unheard
    /\ \/ AsksUnheard(r) \/ ReaderEndsUnheard(r) \/ FingerUnheard(r)
       \/ AuthorizedUnheard(r) \/ WrongPasswordUnheard(r) \/ OutOfTriesUnheard(r)

OrphanNext ==
    \/ Heard \/ ShellGoes
    \/ \E r \in Requests : CallerUnheard(r) \/ CommandUnheard(r) \/ PamUnheard(r)
    \/ Eof \/ EofOnNobody \/ OrphanDies

OrphanSpec == OrphanInit /\ [][OrphanNext]_orphanVars

----------------------------------------------------------------------------
(* Properties. *)

(* Whatever ends a prompt answers its caller first, wherever a broken pipe  *)
(* cuts the handler off: who has been granted, refused or lost waits no     *)
(* more, and who is queued has not been answered.  A caller waits outside   *)
(* the queue only when its refusal broke off, at a daemon without a shell.  *)
NobodyWaitsUnqueued ==
    \A r \in Requests :
        /\ Open(r) => held[r]
        /\ held[r] /\ ~Open(r) =>
              shell # "here" /\ r \in Polkit /\ status[r] = "new"

(* With a shell to hear it, the daemon always has a password conversation   *)
(* for a head that polkit is waiting on, whatever chain of retirements,     *)
(* retries and re-activations made it the head.                             *)
HeardHeadIsAsked == shell = "here" => HeadIsBeingAsked

OrphanInv ==
    /\ TypeOK /\ shell \in {"here", "gone", "noticed"}
    /\ QueueIsTheOpenRequests /\ OnlyTheHeadConverses /\ SecretsOnlyWhenAsked
    /\ TriesBounded /\ ClosedIsOver /\ NewIsUntouched /\ SudoHasNoPam
    /\ NobodyWaitsUnqueued /\ HeardHeadIsAsked

(* bin/c7-authd, _read_stdin(): "EOF: the shell went away. Every queued     *)
(* caller is left hanging otherwise, so refuse them all rather than leaking *)
(* them."                                                                   *)
EofFreesEverybody == [][shell' = "noticed" => queue' = <<>>]_orphanVars

(* tests/test-authd.sh: "the daemon neither outlives the shell nor leaves   *)
(* its socket behind".                                                      *)
OutlivesNoShell == shell # "noticed"
============================================================================
