----------------------------- MODULE WriteProgress -----------------------------
(***************************************************************************)
(* What get_write_progress tells a caller whose write got no answer        *)
(* (mcp/tools/write_progress.py), and what the writer does with the retry  *)
(* (core/vault_writer.py: _check_request_replay).                          *)
(*                                                                         *)
(* Every caller wants to append one entry to the one note.  A content says *)
(* how often it holds each entry; it stands for its hash.  A caller acts   *)
(* on the advice it gets, with other writers busy in between.              *)
(***************************************************************************)
EXTENDS Naturals, Sequences

CONSTANTS
  Callers,
  Paths,       \* the note may move between these
  NoContent,   \* no expected_hash
  NoRequest, NoAnswer,
  MaxKeys,     \* bound: request ids of one caller
  MaxReverts, MaxMoves, MaxCuts  \* bounds

Contents == [Callers -> Nat]
Keys == 0..MaxKeys
Requests == [caller : Callers, key : Keys, path : Paths, expected : Contents \cup {NoContent}]

(* A record without a request key has key 0. *)
Receipts == [caller : Callers, key : Keys, path : Paths, before : Contents, after : Contents]
Advices == {"inspect target", "replay", "new request id", "do not repeat", "inspect request",
            "replay or inspect recovery"}

ASSUME ProgressAssumption ==
  /\ MaxKeys \in Nat \ {0} /\ MaxReverts \in Nat /\ MaxMoves \in Nat /\ MaxCuts \in Nat
  /\ NoContent \notin Contents /\ NoRequest \notin Requests

VARIABLES
  place,     \* where the note is
  content,   \* its bytes
  receipts,  \* the journal
  left,      \* manifests a crash left: the receipt to be
  sent,      \* requests on their way, those given up included
  last,      \* the last request each caller made
  call,      \* the get_write_progress call of each caller
  answer,    \* and what it answered
  quiet,     \* ghost: callers whose answer nothing has changed since
  reverts, moves, cuts

progress == <<place, content, receipts, left, sent, last, call, answer, quiet,
              reverts, moves, cuts>>

Listing == [step : {"none", "list", "read"}, at : Paths \cup {NoAnswer}, records : Seq(Receipts)]
NoCall == [step |-> "none", at |-> NoAnswer, records |-> <<>>]

ProgressTypeOK ==
  /\ place \in Paths /\ content \in Contents
  /\ receipts \in Seq(Receipts) /\ left \in Seq(Receipts)
  /\ sent \subseteq Requests
  /\ last \in [Callers -> Requests \cup {NoRequest}]
  /\ call \in [Callers -> Listing]
  /\ \A c \in Callers : answer[c] # NoAnswer =>
       /\ answer[c].advice \in Advices /\ answer[c].hash \in Contents
       /\ answer[c].path \in Paths
  /\ quiet \subseteq Callers

Empty == [c \in Callers |-> 0]

ProgressInit ==
  /\ place \in Paths /\ content = Empty /\ receipts = <<>> /\ left = <<>>
  /\ sent = {} /\ last = [c \in Callers |-> NoRequest]
  /\ call = [c \in Callers |-> NoCall] /\ answer = [c \in Callers |-> NoAnswer]
  /\ quiet = {} /\ reverts = 0 /\ moves = 0 /\ cuts = 0

--------------------------------------------------------------------------------
(* The writer.                                                             *)

(* The latest record of the request, or 0. *)
RecordOf(log, r) ==
  LET those == {k \in DOMAIN log : log[k].key # 0 /\ log[k].key = r.key /\ log[k].caller = r.caller}
  IN IF those = {} THEN 0 ELSE CHOOSE k \in those : \A m \in those : m <= k

(* Recovery comes first: what a crash left is recorded if the note shows   *)
(* its bytes, and dropped if not.                                          *)
Recovered(log) ==
  IF left # <<>> /\ content = left[1].after THEN Append(log, left[1]) ELSE log

(* Mutant: a note that has moved on is written again, whatever the call.   *)
VerdictGuessing(log, r) ==
  LET k == RecordOf(log, r)
  IN CASE r.path # place \/ (k # 0 /\ log[k].path # r.path) -> "refused"
       [] k # 0 /\ content = log[k].after /\ log[k].path = r.path /\ r.path = place -> "replayed"
       [] OTHER -> IF r.expected \in {NoContent, content} THEN "written" ELSE "refused"

(* _check_request_replay, then the compare-and-swap. *)
Verdict(log, r) ==
  LET k == RecordOf(log, r)
  IN CASE r.path # place \/ (k # 0 /\ log[k].path # r.path) -> "refused"
       [] k # 0 /\ content = log[k].after /\ log[k].path = r.path /\ r.path = place -> "replayed"
       [] OTHER -> IF r.expected = content \/ (r.expected = NoContent /\ k = 0)
                     THEN "written" ELSE "refused"

Appended(r) == [content EXCEPT ![r.caller] = @ + 1]

Receipt(r) == [caller |-> r.caller, key |-> r.key, path |-> place,
               before |-> content, after |-> Appended(r)]

(* A request reaches the server, perhaps again: it is done, or a crash     *)
(* cuts it off.                                                            *)
Perform(r) ==
  LET log == Recovered(receipts)
  IN /\ left' = <<>>
     /\ IF Verdict(log, r) = "written"
          THEN content' = Appended(r) /\ receipts' = Append(log, Receipt(r))
          ELSE receipts' = log /\ UNCHANGED content
     /\ sent' \in {sent, sent \ {r}}
     /\ quiet' = {}
     /\ UNCHANGED <<place, last, call, answer, reverts, moves, cuts>>

Cut(r) ==
  LET log == Recovered(receipts)
  IN /\ cuts < MaxCuts /\ cuts' = cuts + 1
     /\ IF Verdict(log, r) = "written"
          THEN left' = <<Receipt(r)>> /\ content' \in {content, Appended(r)} /\ receipts' = log
          ELSE UNCHANGED <<left, content, receipts>>
     /\ sent' = sent \ {r}
     /\ quiet' = {}
     /\ UNCHANGED <<place, last, call, answer, reverts, moves>>

(* Somebody brings back the bytes some record replaced, or wrote. *)
Revert ==
  LET log == Recovered(receipts)
  IN /\ reverts < MaxReverts /\ reverts' = reverts + 1
     /\ \E k \in DOMAIN log : \E to \in {log[k].before, log[k].after} \ {content} :
          /\ content' = to
          /\ receipts' = Append(log, [caller |-> log[k].caller, key |-> 0, path |-> place,
                                      before |-> content, after |-> to])
     /\ left' = <<>> /\ quiet' = {}
     /\ UNCHANGED <<place, sent, last, call, answer, moves, cuts>>

(* An organization batch moves the note; its receipts keep the old path.   *)
(* A batch names the bytes it expects of each member, and is refused as a  *)
(* whole, without effect, if it finds others.                              *)
Move ==
  /\ moves < MaxMoves /\ moves' = moves + 1
  /\ receipts' = Recovered(receipts) /\ left' = <<>>
  /\ place' \in Paths \ {place} /\ quiet' = {}
  /\ UNCHANGED <<content, sent, last, call, answer, reverts, cuts>>

--------------------------------------------------------------------------------
(* The tool.                                                               *)

(* Admission fixes the path: that of the request, or the one the ULID has. *)
Ask(c) ==
  /\ last[c] # NoRequest /\ call[c].step = "none" /\ answer[c] = NoAnswer
  /\ \E path \in {place, last[c].path} :
       call' = [call EXCEPT ![c] = [step |-> "list", at |-> path, records |-> <<>>]]
  /\ UNCHANGED <<place, content, receipts, left, sent, last, answer, quiet, reverts, moves, cuts>>

List(c) ==
  /\ call[c].step = "list"
  /\ call' = [call EXCEPT ![c].step = "read", ![c].records = receipts]
  /\ UNCHANGED <<place, content, receipts, left, sent, last, answer, quiet, reverts, moves, cuts>>

(* Mutant: the write is taken for undone whenever its bytes are gone.      *)
AdviceLoose(log, r) ==
  LET k == RecordOf(log, r)
  IN IF k # 0
       THEN IF content # log[k].after
              THEN IF r.expected = NoContent THEN "new request id" ELSE "replay"
              ELSE "do not repeat"
       ELSE IF r.expected \notin {NoContent, content} THEN "inspect request"
            ELSE "replay or inspect recovery"

(* _inspect_target; the two statuses of a note that still holds what the   *)
(* write produced differ in the index only.                                *)
Advice(log, r) ==
  LET k == RecordOf(log, r)
  IN IF k # 0
       THEN IF content = log[k].before
              THEN IF r.expected = content THEN "replay" ELSE "new request id"
              ELSE "do not repeat"
       ELSE IF r.expected \notin {NoContent, content} THEN "inspect request"
            ELSE "replay or inspect recovery"

(* The note is read after the journal; it may be unreadable just then, or  *)
(* no longer there.                                                        *)
Answer(c) ==
  /\ call[c].step = "read"
  /\ \E advice \in {Advice(call[c].records, last[c]), "inspect target"} :
       /\ call[c].at # place => advice = "inspect target"
       /\ answer' = [answer EXCEPT ![c] = [advice |-> advice, path |-> place, hash |-> content]]
  /\ call' = [call EXCEPT ![c] = NoCall]
  /\ quiet' = IF receipts = call[c].records /\ left = <<>> /\ sent = {}
                THEN quiet \cup {c} ELSE quiet \ {c}
  /\ UNCHANGED <<place, content, receipts, left, sent, last, reverts, moves, cuts>>

--------------------------------------------------------------------------------
(* The callers.                                                            *)

Send(c, r) ==
  /\ sent' = sent \cup {r}
  /\ last' = [last EXCEPT ![c] = r] /\ answer' = [answer EXCEPT ![c] = NoAnswer]
  /\ quiet' = quiet \ {c}
  /\ UNCHANGED <<place, content, receipts, left, call, reverts, moves, cuts>>

First(c) ==
  /\ last[c] = NoRequest
  /\ \E expected \in {NoContent, content} :
       Send(c, [caller |-> c, key |-> 1, path |-> place, expected |-> expected])

(* The advice is followed: the identical request again, a new one, or      *)
(* nothing but another question.                                           *)
Follow(c) ==
  /\ answer[c] # NoAnswer
  /\ CASE answer[c].advice \in {"replay", "replay or inspect recovery"} -> Send(c, last[c])
       [] answer[c].advice = "new request id" ->
            /\ last[c].key < MaxKeys
            /\ Send(c, [caller |-> c, key |-> last[c].key + 1, path |-> answer[c].path,
                       expected |-> answer[c].hash])
       [] OTHER ->
            /\ answer' = [answer EXCEPT ![c] = NoAnswer] /\ quiet' = quiet \ {c}
            /\ UNCHANGED <<place, content, receipts, left, sent, last, call, reverts, moves, cuts>>

ProgressNext ==
  \/ \E c \in Callers :
       First(c) \/ Ask(c) \/ List(c) \/ Answer(c) \/ Follow(c)
  \/ \E r \in sent : Perform(r) \/ Cut(r)
  \/ Revert \/ Move

ProgressSpec == ProgressInit /\ [][ProgressNext]_progress

--------------------------------------------------------------------------------
(* A caller that follows the advice never appends its entry twice, however *)
(* late its requests arrive and whatever is reverted meanwhile.            *)
NoEntryTwice == \A c \in Callers : content[c] <= 1

(* When the answer is to replay the identical request, that request is     *)
(* accepted, as long as nothing changed since.                             *)
ReplayIsAccepted(c) ==
  (answer[c] # NoAnswer /\ answer[c].advice = "replay") =>
    Verdict(receipts, last[c]) = "written"

(* So it is for a note that never moved,                                   *)
ReplayAdviceWorks == moves = 0 => \A c \in quiet : ReplayIsAccepted(c)

(* and docs/en/daily-workflows.md says it of every committed_reverted.     *)
ReplayAdviceAlwaysWorks == \A c \in quiet : ReplayIsAccepted(c)
================================================================================
