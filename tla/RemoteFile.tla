----------------------------- MODULE RemoteFile -----------------------------
(***************************************************************************)
(* One remote file read and changed by many at once: an agent that pages    *)
(* through it and edits what it read (`read` and `edit` in fs_ops.rs), a    *)
(* download of it (download_file in the client's transfer.rs, and the       *)
(* sender process run_transfer_send in the server's), and any other program *)
(* on the host, which takes no lock.                                        *)
(*                                                                         *)
(* The write-ahead log of `edit`, its crashes and its retries are in        *)
(* WorkspaceServer.  Here is what that module takes as given: that the      *)
(* hash of a page names what the page was cut from, and that an edit builds *)
(* on it.                                                                   *)
(***************************************************************************)
EXTENDS TextFile

CONSTANTS
  Contents,    \* what the file holds at first, and others put in its place
  Limits,      \* page sizes the agent asks for
  EditLists,   \* lists of replacements the agent asks for
  Chunk,       \* bytes the sender reads at once
  Casts,       \* bound: which of {"agent", "download"} take part
  MaxChanges   \* bound: changes by others

VARIABLES
  file,      \* bytes at the path, or None
  version,   \* how often the file was changed
  agent,     \* the reading and editing agent, and the request it has under way
  sender,    \* the sender process of the download
  download,  \* download_file
  local      \* the local target of the download

vars == <<file, version, agent, sender, download, local>>

AgentPcs == {"ask", "open", "edit", "read", "stage", "verify", "install", "done"}
AgentOutcomes ==
  {"read", "edited", "missing", "past_end", "not_boundary", "not_text", "bad_request",
   "file_too_large", "no_match", "ambiguous", "too_large", "unchanged"}
SenderPcs == {"off", "stat", "open", "data", "trailer", "exited", "failed"}
DownloadPcs ==
  {"start", "header", "data", "trailer", "exit", "install", "record", "reap", "done"}
DownloadOutcomes == {"ok", "unrecorded", "failed", "cancelled"}
LocalState == {"theirs", "download"}

ASSUME FileAssumption ==
  /\ Contents \subseteq Bytes /\ EditLists \subseteq Seq(Replacement)
  /\ Limits \subseteq Nat \ {0} /\ Chunk \in Nat \ {0} /\ MaxChanges \in Nat
  /\ None \notin AgentOutcomes \cup DownloadOutcomes \cup LocalState

\* len: the size found by the last stat.  offset, text, hash: where the agent
\* is, what it has, the hash that came with it.  first: the version when it
\* began to read.  seen: the version at the last look of an edit.
TypeOK ==
  /\ file \in Bytes \cup {None} /\ version \in Nat
  /\ agent \in [pc : AgentPcs, limit : Nat, len : Nat, offset : Nat, text : Bytes,
                hash : Bytes \cup {None}, first : Nat, edits : Seq(Replacement),
                new : Bytes, seen : Nat, out : AgentOutcomes \cup {None}]
  /\ agent.first <= version /\ agent.seen <= version
  /\ agent.offset = Len(agent.text)
  /\ sender \in [pc : SenderPcs, size : Nat, sent : Bytes, linked : BOOLEAN,
                 fd : Bytes, whole : Bytes \cup {None}, header : BOOLEAN,
                 trailer : BOOLEAN]
  /\ Len(sender.sent) <= sender.size
  /\ download \in [pc : DownloadPcs, got : Nat, overwrite : BOOLEAN, proxy : BOOLEAN,
                   out : DownloadOutcomes \cup {None}]
  /\ download.got <= Len(sender.sent)
  /\ local \in [target : LocalState \cup {None}, theirs : {None, "theirs"},
                recorded : BOOLEAN]

StartReading ==
  [pc |-> "ask", limit |-> 0, len |-> 0, offset |-> 0, text |-> <<>>, hash |-> None,
   first |-> version, edits |-> <<>>, new |-> <<>>, seen |-> 0, out |-> None]

Init ==
  /\ file \in Contents /\ version = 0
  /\ \E cast \in Casts :
       /\ agent = [StartReading EXCEPT !.pc = IF "agent" \in cast THEN "ask" ELSE "done"]
       /\ \E o, p \in BOOLEAN :
            download = [pc |-> IF "download" \in cast THEN "start" ELSE "done",
                        got |-> 0, overwrite |-> o, proxy |-> p, out |-> None]
  /\ sender = [pc |-> "off", size |-> 0, sent |-> <<>>, linked |-> FALSE,
               fd |-> <<>>, whole |-> None,
               header |-> FALSE, trailer |-> FALSE]
  /\ \E t \in {None, "theirs"} :
       local = [target |-> t, theirs |-> t, recorded |-> FALSE]
-----------------------------------------------------------------------------
(***************************************************************************)
(* Changes of the file.  A rename or removal leaves the bytes of a file the *)
(* sender has open to the sender alone; a write in place does not.  Either  *)
(* way, what the sender found by its stat is no longer the file it sends.   *)
(***************************************************************************)
Renamed(new) ==
  /\ file' = new /\ version' = version + 1
  /\ sender' = [sender EXCEPT
                  !.linked = FALSE,
                  !.fd = IF sender.linked THEN file ELSE @,
                  !.whole = IF sender.trailer THEN @ ELSE None]

Written(new) ==
  /\ file' = new /\ version' = version + 1
  /\ sender' = [sender EXCEPT !.whole = IF sender.trailer THEN @ ELSE None]

OthersReplace(c) ==
  /\ version < MaxChanges /\ c # file
  /\ Renamed(c)
  /\ UNCHANGED <<agent, download, local>>

OthersRemove ==
  /\ version < MaxChanges /\ file # None
  /\ Renamed(None)
  /\ UNCHANGED <<agent, download, local>>

OthersAppend ==
  /\ version < MaxChanges /\ file # None
  /\ Written(Append(file, "a"))
  /\ UNCHANGED <<agent, download, local>>

OthersTruncate ==
  /\ version < MaxChanges /\ file \notin {None, <<>>}
  /\ Written(<<>>)
  /\ UNCHANGED <<agent, download, local>>
-----------------------------------------------------------------------------
(***************************************************************************)
(* The agent reads page after page.  Pages of different hashes, or a        *)
(* refused offset that an earlier page gave, make it begin again.           *)
(***************************************************************************)
AgentDone(why) == agent' = [agent EXCEPT !.pc = "done", !.out = why]

UnchangedByAgent == UNCHANGED <<file, version, sender, download, local>>

\* read: the stat.
StatToRead(limit) ==
  /\ agent.pc = "ask"
  /\ IF file = None
     THEN AgentDone("missing")
     ELSE agent' = [agent EXCEPT !.pc = "open", !.limit = limit, !.len = Len(file)]
  /\ UnchangedByAgent

\* What the agent makes of a page.
TakePage(page) ==
  LET text == agent.text \o page.content
  IN agent' = [agent EXCEPT
                 !.text = text, !.offset = Len(text), !.hash = page.hash,
                 !.limit = 0, !.len = 0,
                 !.pc = IF page.next # None THEN "ask"
                        ELSE IF page.hash # None THEN "edit" ELSE "done",
                 !.out = IF page.next = None /\ page.hash = None THEN "read" ELSE None]

\* read: open and what follows.
OpenAndRead ==
  /\ agent.pc = "open"
  /\ IF file = None
     THEN AgentDone("missing")
     ELSE \E page \in {ReadPage(agent.len, file, agent.offset, agent.limit)},
             begun \in {agent.offset > 0} :
             \/ /\ page.error = None /\ (begun => page.hash = agent.hash)
                /\ TakePage(page)
             \/ /\ begun
                /\ \/ page.error = None /\ page.hash # agent.hash
                   \/ page.error \in {"past_end", "not_boundary"}
                /\ agent' = StartReading
             \/ /\ page.error # None
                /\ ~begun \/ page.error = "not_text"
                /\ AgentDone(page.error)
  /\ UnchangedByAgent
-----------------------------------------------------------------------------
(***************************************************************************)
(* It edits what it has read, with the hash it was given as base_hash.  An  *)
(* edit refused as stale makes it read again.                               *)
(***************************************************************************)
\* edit: the arguments and the size cap.
CheckEdit(edits) ==
  /\ agent.pc = "edit"
  /\ IF ~WellFormed(edits) THEN AgentDone("bad_request")
     ELSE IF file = None THEN AgentDone("missing")
     ELSE IF Len(file) > MaxText THEN AgentDone("file_too_large")
     ELSE agent' = [agent EXCEPT !.pc = "read", !.edits = edits]
  /\ UnchangedByAgent

\* edit: the file is read, compared and the result built from the same bytes.
BuildEdit ==
  /\ agent.pc = "read"
  /\ IF file = None THEN AgentDone("missing")
     ELSE IF file # agent.hash THEN agent' = StartReading
     ELSE IF ~IsText(file) THEN AgentDone("not_text")
     ELSE \E built \in {ApplyEdits(file, agent.edits)} :
            IF built.error # None
            THEN AgentDone(built.error)
            ELSE agent' = [agent EXCEPT !.pc = "stage", !.new = built.text]
  /\ UnchangedByAgent

\* stage_write, which takes the mode of the target, and the prepared marker.
StageWrite ==
  /\ agent.pc = "stage"
  /\ IF file = None THEN AgentDone("missing")
                    ELSE agent' = [agent EXCEPT !.pc = "verify"]
  /\ UnchangedByAgent

\* Faulty variant: no last look.
AlwaysUnchanged == TRUE

verify_unchanged == file = agent.hash

LastLook ==
  /\ agent.pc = "verify"
  /\ agent' = IF verify_unchanged
              THEN [agent EXCEPT !.pc = "install", !.seen = version]
              ELSE StartReading
  /\ UnchangedByAgent

\* StagedWrite::install.
InstallEdit ==
  /\ agent.pc = "install"
  /\ Renamed(agent.new)
  /\ AgentDone("edited")
  /\ UNCHANGED <<download, local>>
-----------------------------------------------------------------------------
(***************************************************************************)
(* run_transfer_send.  The sender may be slow, or cut off, at any point.    *)
(***************************************************************************)
UnchangedBySender == UNCHANGED <<file, version, agent, download, local>>
SenderFails == sender' = [sender EXCEPT !.pc = "failed", !.linked = FALSE]

SenderStat ==
  /\ sender.pc = "stat"
  /\ IF file = None
     THEN SenderFails
     ELSE sender' = [sender EXCEPT !.pc = "open", !.size = Len(file),
                                   !.whole = file]
  /\ UnchangedBySender

\* The header follows the open.
SenderOpen ==
  /\ sender.pc = "open"
  /\ IF file = None
     THEN SenderFails
     ELSE sender' = [sender EXCEPT !.pc = "data", !.linked = TRUE, !.header = TRUE]
  /\ UnchangedBySender

SenderRead ==
  /\ sender.pc = "data" /\ Len(sender.sent) < sender.size
  /\ LET bytes == IF sender.linked THEN file ELSE sender.fd
         done == Len(sender.sent)
         n == Min({Chunk, sender.size - done, Max({0, Len(bytes) - done})})
     IN IF n = 0
        THEN SenderFails
        ELSE sender' = [sender EXCEPT !.sent = @ \o SubSeq(bytes, done + 1, done + n)]
  /\ UnchangedBySender

SenderTrailer ==
  /\ sender.pc = "data" /\ Len(sender.sent) = sender.size
  /\ sender' = [sender EXCEPT !.pc = "trailer", !.trailer = TRUE, !.linked = FALSE,
                              !.fd = <<>>]
  /\ UnchangedBySender

SenderExits ==
  /\ sender.pc = "trailer"
  /\ sender' = [sender EXCEPT !.pc = "exited"]
  /\ UnchangedBySender

SenderRunning == sender.pc \in {"stat", "open", "data", "trailer"}

SenderDies ==
  /\ SenderRunning /\ SenderFails
  /\ UnchangedBySender
-----------------------------------------------------------------------------
(***************************************************************************)
(* download_file.                                                           *)
(***************************************************************************)
Step(pc) == download' = [download EXCEPT !.pc = pc]
Ends(out) == download' = [download EXCEPT !.pc = "done", !.out = out]

UnchangedByDownload == UNCHANGED <<file, version, agent>>

\* The checks on the local target, the temp file and the sender.
StartDownload ==
  /\ download.pc = "start"
  /\ \/ /\ local.target # None => download.overwrite
        /\ sender' = [sender EXCEPT !.pc = "stat"]
        /\ Step("header")
     \/ Ends("failed") /\ UNCHANGED sender
  /\ UNCHANGED local /\ UnchangedByDownload

ReceiveHeader ==
  /\ download.pc = "header" /\ sender.header
  /\ Step(IF sender.size = 0 THEN "trailer" ELSE "data")
  /\ UNCHANGED <<sender, local>> /\ UnchangedByDownload

ReceiveBytes ==
  /\ download.pc = "data" /\ download.got < Len(sender.sent)
  /\ download' = [download EXCEPT
                    !.got = Len(sender.sent),
                    !.pc = IF Len(sender.sent) = sender.size THEN "trailer" ELSE "data"]
  /\ UNCHANGED <<sender, local>> /\ UnchangedByDownload

\* The trailer's hash is that of the bytes sent, in order and complete.
ReceiveTrailer ==
  /\ download.pc = "trailer" /\ sender.trailer
  /\ Step("exit")
  /\ UNCHANGED <<sender, local>> /\ UnchangedByDownload

\* Faulty variant: the sender is waited for as it is.
LeaveSender == UNCHANGED sender

KillSender == IF SenderRunning THEN SenderFails ELSE UNCHANGED sender

Receiving == download.pc \in {"header", "data", "trailer"}

MoreToRead ==
  \/ download.pc = "header" /\ sender.header
  \/ download.pc = "data" /\ download.got < Len(sender.sent)
  \/ download.pc = "trailer" /\ sender.trailer

\* The sender's output ends early.
StreamEnds ==
  /\ Receiving /\ sender.pc = "failed" /\ ~MoreToRead
  /\ Step("reap")
  /\ UNCHANGED <<sender, local>> /\ UnchangedByDownload

\* Nothing moved for the stall window, or the local file could not be written.
Stall ==
  /\ Receiving
  /\ KillSender
  /\ Step("reap")
  /\ UNCHANGED local /\ UnchangedByDownload

Reap ==
  /\ download.pc = "reap" /\ ~SenderRunning
  /\ Ends("failed")
  /\ UNCHANGED <<sender, local>> /\ UnchangedByDownload

\* finish_transfer_child.  A proxy is given two seconds and then killed.
FinishChild ==
  /\ download.pc = "exit"
  /\ \/ /\ sender.pc = "exited"
        /\ Step("install") /\ UNCHANGED sender
     \/ /\ sender.pc = "failed"
        /\ Ends("failed") /\ UNCHANGED sender
     \/ /\ download.proxy /\ SenderRunning
        /\ SenderFails /\ Step("install")
  /\ UNCHANGED local /\ UnchangedByDownload

\* Faulty variant: the rename replaces what is there.
PersistAnyway == TRUE

MayPersist == download.overwrite \/ local.target = None

InstallDownload ==
  /\ download.pc = "install"
  /\ \/ /\ MayPersist
        /\ local' = [local EXCEPT !.target = "download"]
        /\ Step("record")
     \/ Ends("failed") /\ UNCHANGED local
  /\ UNCHANGED sender /\ UnchangedByDownload

\* download_record, by a connection that may be gone, or go before the reply.
RecordDownload ==
  /\ download.pc = "record"
  /\ \/ /\ local' = [local EXCEPT !.recorded = TRUE]
        /\ Ends("ok")
     \/ /\ \E done \in BOOLEAN : local' = [local EXCEPT !.recorded = done]
        /\ Ends("unrecorded")
  /\ UNCHANGED sender /\ UnchangedByDownload

\* The call is dropped where it waits; the child is killed with it.  A record
\* that was asked for may still be made.
CancelDownload ==
  /\ download.pc \in {"header", "data", "trailer", "exit", "reap", "record"}
  /\ KillSender
  /\ Ends("cancelled")
  /\ \/ UNCHANGED local
     \/ download.pc = "record" /\ local' = [local EXCEPT !.recorded = TRUE]
  /\ UnchangedByDownload

\* Another program writes the local target, once.
OthersWriteLocal ==
  /\ local.theirs = None
  /\ local' = [local EXCEPT !.target = "theirs", !.theirs = "theirs"]
  /\ UNCHANGED <<sender, download>> /\ UnchangedByDownload
-----------------------------------------------------------------------------
Others ==
  \/ \E c \in Contents : OthersReplace(c)
  \/ OthersRemove \/ OthersAppend \/ OthersTruncate \/ OthersWriteLocal

Agent ==
  \/ \E n \in Limits : StatToRead(n)
  \/ OpenAndRead
  \/ \E e \in EditLists : CheckEdit(e)
  \/ BuildEdit \/ StageWrite \/ LastLook \/ InstallEdit

Sender ==
  SenderStat \/ SenderOpen \/ SenderRead \/ SenderTrailer \/ SenderExits \/ SenderDies

Receive == ReceiveHeader \/ ReceiveBytes \/ ReceiveTrailer \/ StreamEnds

Finish == StartDownload \/ Stall \/ Reap \/ FinishChild \/ InstallDownload \/ RecordDownload

Next == Others \/ Agent \/ Sender \/ Receive \/ Finish \/ CancelDownload

Spec == Init /\ [][Next]_vars

\* The agent goes on, the client is run and its stall window passes.  The
\* sender owes nothing until it has sent everything: then it exits, or ssh
\* ends on its own when the host no longer answers (ServerAliveCountMax).
FairSpec ==
  /\ Spec
  /\ WF_vars(Agent) /\ WF_vars(Receive) /\ WF_vars(Finish) /\ WF_vars(SenderExits)
-----------------------------------------------------------------------------
(***************************************************************************)
(* What readers and writers may rely on.                                    *)
(***************************************************************************)
\* Pages that came with one hash are the beginning of the bytes it names, and
\* all of them once no next offset is given; pages of a file too large for a
\* hash are the beginning of it unless it changed meanwhile.  A file that did
\* not change is refused as binary only if it is (read, "the hash of the bytes
\* this page came from").
PagesAgree ==
  /\ agent.hash # None => IsPrefix(agent.text, agent.hash)
  /\ agent.pc = "edit" => agent.text = agent.hash
  /\ agent.first = version /\ file # None =>
       /\ IsPrefix(agent.text, file)
       /\ agent.out = "read" => agent.text = file
       /\ agent.out \in {"not_text", "not_boundary"} => ~IsText(file)

\* What another program wrote between the agent's reading and the last look of
\* its edit is never overwritten by the edit (base_hash, verify_unchanged).
EditKeepsOthers ==
  [][InstallEdit => file = agent.hash \/ version > agent.seen]_vars

\* The contents a list of replacements goes through, without a bound.
Results(original, edits) ==
  LET after[n \in 0 .. Len(edits)] ==
        IF n = 0 THEN original ELSE Replaced(after[n - 1], edits[n])
  IN after

\* The size predicted before a replacement is made is the size it has: a list
\* is refused as too large exactly if some step of it would be ("The count is
\* exact", edit).  The text it starts from may be above the cap by then.
CapExact ==
  LET results == Results(agent.hash, agent.edits)
      sizes == {Len(results[n]) : n \in 1 .. Len(agent.edits)}
  IN /\ agent.out = "too_large" => \E n \in sizes : n > MaxText
     /\ agent.pc \in {"stage", "verify", "install"} =>
          /\ \A n \in sizes : n <= MaxText
          /\ agent.new = results[Len(agent.edits)]

\* The local target is what others left there, or one whole verified stream:
\* the file as it was, if it did not change while it was sent.  Without
\* overwrite nothing of others is replaced; a download that failed installed
\* nothing, only an installed one is recorded, and no sender outlives its call.
TargetSound ==
  /\ local.target = "download" =>
       /\ sender.trailer /\ Len(sender.sent) = sender.size
       /\ sender.whole # None => sender.sent = sender.whole
  /\ ~download.overwrite /\ local.theirs # None => local.target = "theirs"
  /\ download.out = "failed" => local.target # "download"
  /\ local.recorded => local.target = "download" \/ local.theirs # None
  /\ download.out = "ok" => local.recorded
  /\ download.pc = "done" => ~SenderRunning

\* Unless others never stop changing the file, the agent gets to the end of it
\* and its edit is made or refused: every page brings it on ("Rounding up
\* guarantees at least one codepoint", read).
AgentSettles == <>(agent.pc = "done")

\* Every download returns, also from a sender that stalls
\* (receive_from_sender, "Killing it first").
DownloadReturns == <>(download.pc = "done")
=============================================================================
