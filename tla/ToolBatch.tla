----------------------------- MODULE ToolBatch -----------------------------
(***************************************************************************)
(* The tool calls of a session's runs, batch by batch: one goroutine per   *)
(* call goes through the registry ( tools/registry.go ) to a tool, all     *)
(* calls of a batch work on one workspace at the same time, and when they  *)
(* are back the reminder injector ( engine/reminder.go ) counts the        *)
(* failures ( engine/loop.go, execToolCalls ).                             *)
(*                                                                         *)
(* One atomic step is one system call on a file: a read of a whole file,   *)
(* the truncation and the write of os.WriteFile; or one event of a bash    *)
(* process.  The cancellation of a run is AgentRun's.                      *)
(***************************************************************************)
EXTENDS TextEdit

CONSTANTS Registered,  \* the names in DefaultRegistry.tools
          Guarded,     \* the tools a middleware may refuse to run
          Foreign,     \* paths that are not local to the workspace
          Sealed,      \* files that may be read but not written
          Hanging,     \* commands that do not end by themselves
          Daemons,     \* commands that leave a process that holds their output
          MaxLen,      \* what file_reader returns at most, in characters
          RemindAfter, \* ReminderInjector.threshold
          Scripts      \* bound: the workspaces and what the model asks for

Tools == {"file_reader", "file_writer", "file_editor", "bash"}
Names == Tools \cup STRING  \* what a model may call: these, or a name it invents
Keys  == {"read", "announced", "broken"}

\* What the model may ask for, also of a tool that is not there.
Calls ==
  [tool : {"file_reader"}, keys : Keys, path : STRING]
  \cup [tool : {"file_writer"}, keys : Keys, path : STRING, content : Text]
  \cup [tool : {"file_editor"}, keys : Keys, path : STRING, old : Text, new : Text]
  \cup [tool : {"bash"}, keys : Keys, command : STRING]
  \cup [tool : STRING \ Tools, keys : Keys, path : STRING]

ASSUME BatchAssumption ==
  /\ Registered \subseteq Tools
  /\ MaxLen \in Nat
  /\ RemindAfter \in Nat \ {0}
  /\ \A s \in Scripts :
       s.disk \in [DOMAIN s.disk -> Text] /\ s.runs \in Seq(Seq(Seq(Calls)))

VARIABLES todo,    \* the runs, each a sequence of batches, still to come
          pc,      \* "ask", "exec" or "done"
          batch,   \* the tool calls of the turn
          at,      \* where each goroutine of the batch is
          buf,     \* the content a goroutine is about to write, then has written
          proc,    \* the bash process of a call: [main, output, late]
          result,  \* the ToolCallResult of each call that is back
          disk,    \* the files of the workspace
          table,   \* ReminderInjector.consecutiveFailures
          notice,  \* the reminder that follows the results of the last batch
          base,    \* history: the files when the batch began
          failures \* history: the fingerprints that failed, turn by turn

workers == <<at, buf, proc, result, disk>>
vars == <<todo, pc, batch, table, notice, base, failures, workers>>

-----------------------------------------------------------------------------
(* Tool calls.  A call's fingerprint is its name with its arguments, here   *)
(* the whole record.  The arguments are broken JSON, or have the keys that  *)
(* the tool reads, or those its schema announces.                           *)

ReadCall(p)           == [tool |-> "file_reader", keys |-> "read", path |-> p]
WriteCall(p, c)       == [tool |-> "file_writer", keys |-> "read", path |-> p, content |-> c]
EditCall(p, o, n)     == [tool |-> "file_editor", keys |-> "read", path |-> p, old |-> o, new |-> n]
BashCall(c)           == [tool |-> "bash", keys |-> "read", command |-> c]
AsAnnounced(call)     == [call EXCEPT !.keys = "announced"]
Broken(call)          == [call EXCEPT !.keys = "broken"]

\* json.Unmarshal leaves a field empty whose key it does not find; the schema
\* of file_editor announces old_content and new_content, its struct reads
\* oldContent and newContent.
OldContent(c) == IF c.keys = "read" THEN c.old ELSE <<>>
NewContent(c) == IF c.keys = "read" THEN c.new ELSE <<>>

Mutates(c) == c.tool \in {"file_writer", "file_editor"}

\* RecoveryManager.AnalyzeAndInject: the codes whose output gets advice.
Advised == {"ERR_TOOL_NOT_FOUND", "ERR_FILE_NOT_FOUND", "ERR_PERMISSION_DENIED",
            "ERR_EDIT_NO_MATCH", "ERR_EDIT_AMBIGUOUS", "ERR_CMD_NOT_FOUND",
            "ERR_CMD_SYNTAX_ERROR", "ERR_CMD_TIMEOUT"}

Codes ==
  Advised \cup {"none", "", "ERR_CALL_INTERCEPTED", "ERR_INVALID_ARGS", "ERR_UNKNOWN",
                "ERR_PATH_ESCAPE", "ERR_IO_FAILURE", "ERR_CMD_FAILED"}

\* wrapSysError, for a file that is there but cannot be used: its permissions,
\* or anything else, as a directory, a full disk or a failing device.
SysErrors == {"ERR_PERMISSION_DENIED", "ERR_IO_FAILURE"}

\* Where a call is that is over; "torn" is one whose write failed on its way.
Over == {"back", "torn"}

Outcome(error, code, out) ==
  [error |-> error, code |-> code, out |-> out, hint |-> code \in Advised]

\* A hard failure is an error for the injector, a soft one only has a code.
Ok(out)    == Outcome(FALSE, "", out)
Hard(code) == Outcome(TRUE, code, <<>>)
Soft(code) == Outcome(FALSE, code, <<>>)
None       == Outcome(FALSE, "none", <<>>)

NoProc   == [main |-> "none", output |-> FALSE, late |-> FALSE]
NoNotice == [count |-> 0, tools |-> {}]

Init ==
  /\ \E s \in Scripts : disk = s.disk /\ todo = s.runs
  /\ pc = "ask"
  /\ batch = <<>> /\ at = <<>> /\ buf = <<>> /\ proc = <<>> /\ result = <<>>
  /\ table = <<>>
  /\ notice = NoNotice
  /\ base = disk
  /\ failures = <<>>

\* ReminderInjector.Reset.
Reset == table' = <<>>

\* The run is over; the next one starts with empty counters.
NextRun ==
  /\ pc = "ask"
  /\ todo # <<>> /\ Head(todo) = <<>>
  /\ todo' = Tail(todo)
  /\ Reset
  /\ failures' = <<>>
  /\ notice' = NoNotice
  /\ pc' = IF todo' = <<>> THEN "done" ELSE "ask"
  /\ UNCHANGED <<batch, base, workers>>

\* The model asks for a batch; execToolCalls starts its goroutines.
Ask ==
  /\ pc = "ask"
  /\ todo # <<>> /\ Head(todo) # <<>>
  /\ todo' = <<Tail(Head(todo))>> \o Tail(todo)
  /\ batch' = Head(Head(todo))
  /\ at' = [i \in DOMAIN batch' |-> "ready"]
  /\ buf' = [i \in DOMAIN batch' |-> <<>>]
  /\ proc' = [i \in DOMAIN batch' |-> NoProc]
  /\ result' = [i \in DOMAIN batch' |-> None]
  /\ base' = disk
  /\ pc' = "exec"
  /\ UNCHANGED <<disk, table, notice, failures>>

Goto(i, label) == at' = [at EXCEPT ![i] = label]

Answer(i, r) ==
  /\ Goto(i, "back")
  /\ result' = [result EXCEPT ![i] = r]

calm == <<todo, pc, batch, table, notice, base, failures>>

\* What keeps a call from its tool's work: the registry's route and its
\* middlewares, arguments that do not parse, a path out of the workspace.
Barriers(c) ==
  IF c.tool \notin Registered THEN {"ERR_TOOL_NOT_FOUND"}
  ELSE (IF c.tool \in Guarded THEN {"ERR_CALL_INTERCEPTED"} ELSE {})
       \cup (IF c.keys = "broken"
             THEN {IF c.tool = "bash" THEN "ERR_UNKNOWN" ELSE "ERR_INVALID_ARGS"}
             ELSE IF c.tool # "bash" /\ c.path \in Foreign THEN {"ERR_PATH_ESCAPE"}
             ELSE {""})

\* registry.execute up to the tool's first access to anything shared.
Enter(i) ==
  /\ at[i] = "ready"
  /\ \E code \in Barriers(batch[i]) :
       IF code # "" THEN Answer(i, Hard(code)) /\ UNCHANGED <<buf, proc>>
       ELSE /\ UNCHANGED result
            /\ Goto(i, CASE batch[i].tool = "file_writer" -> "create"
                         [] batch[i].tool = "bash"        -> "wait"
                         [] OTHER                         -> "read")
            /\ buf' = [buf EXCEPT ![i] = IF batch[i].tool = "file_writer"
                                         THEN batch[i].content ELSE <<>>]
            /\ proc' = [proc EXCEPT ![i] =
                 IF batch[i].tool # "bash" THEN NoProc
                 ELSE [main |-> "running", output |-> batch[i].command \in Daemons,
                       late |-> FALSE]]
  /\ UNCHANGED <<calm, disk>>

\* file_reader: of a long file the model gets the path, not the content.
Content(p) == IF Len(disk[p]) > MaxLen THEN <<p>> ELSE disk[p]

\* The whole file is read, or opening or reading it fails.
ReadFails(i) ==
  /\ at[i] = "read"
  /\ \E code \in SysErrors : Answer(i, Hard(code))
  /\ UNCHANGED <<calm, buf, proc, disk>>

\* The editor computes what it will write.
Read(i) ==
  /\ at[i] = "read"
  /\ LET c == batch[i] IN
       IF c.path \notin DOMAIN disk
       THEN Answer(i, Hard("ERR_FILE_NOT_FOUND")) /\ UNCHANGED buf
       ELSE IF c.tool = "file_reader"
       THEN Answer(i, Ok(Content(c.path))) /\ UNCHANGED buf
       ELSE LET e == FuzzyReplace(disk[c.path], OldContent(c), NewContent(c)) IN
            IF e.code # "" THEN Answer(i, Hard(e.code)) /\ UNCHANGED buf
            ELSE Goto(i, "create") /\ buf' = [buf EXCEPT ![i] = e.text] /\ UNCHANGED result
  /\ UNCHANGED <<calm, proc, disk>>

\* Mutation: opened without O_TRUNC.
OpenedKept(p) ==
  [q \in DOMAIN disk \cup {p} |-> IF q \in DOMAIN disk THEN disk[q] ELSE <<>>]

\* os.WriteFile opens with O_CREATE and O_TRUNC.
Opened(p) == [q \in DOMAIN disk \cup {p} |-> IF q = p THEN <<>> ELSE disk[q]]

\* The file, or the directory of a new one, cannot be opened or made.
CreateFails(i) ==
  /\ at[i] = "create"
  /\ \E code \in SysErrors : Answer(i, Hard(code))
  /\ UNCHANGED <<calm, buf, proc, disk>>

\* The file is empty until it is written.
CreateFile(i) ==
  /\ at[i] = "create"
  /\ batch[i].path \notin Sealed
  /\ disk' = Opened(batch[i].path)
  /\ Goto(i, "write")
  /\ UNCHANGED <<calm, buf, proc, result>>

Overlay(new, text) == new \o SubSeq(text, Len(new) + 1, Len(text))

\* The content is written from the start of the file, whatever is there by now.
WriteFile(i) ==
  /\ at[i] = "write"
  /\ disk' = [disk EXCEPT ![batch[i].path] = Overlay(buf[i], @)]
  /\ Answer(i, Ok(<<>>))
  /\ UNCHANGED <<calm, buf, proc>>

\* The write fails on its way: as much as has been written stays.
WriteFails(i) ==
  /\ at[i] = "write"
  /\ \E n \in 0..Len(buf[i]) : buf' = [buf EXCEPT ![i] = SubSeq(@, 1, n)]
  /\ disk' = [disk EXCEPT ![batch[i].path] = Overlay(buf'[i], @)]
  /\ Goto(i, "torn")
  /\ result' = [result EXCEPT ![i] = Hard("ERR_IO_FAILURE")]
  /\ UNCHANGED <<calm, proc>>

\* The command ends by itself, or is killed after its deadline.
CommandEnds(i) ==
  /\ at[i] = "wait" /\ proc[i].main = "running"
  /\ \E end \in IF batch[i].command \in Hanging THEN {} ELSE {"0", "1", "2", "2 syntax", "127"} :
       proc' = [proc EXCEPT ![i].main = end]
  /\ UNCHANGED <<calm, at, buf, result, disk>>

DeadlinePasses(i) ==
  /\ at[i] = "wait" /\ ~ proc[i].late
  /\ proc' = [proc EXCEPT ![i].late = TRUE]
  /\ UNCHANGED <<calm, at, buf, result, disk>>

\* Mutation: the context does not kill the process.
KillNever(i) ==
  at[i] = "wait" /\ proc[i].late /\ proc[i].main = "running" /\ UNCHANGED vars

Kill(i) ==
  /\ at[i] = "wait" /\ proc[i].late /\ proc[i].main = "running"
  /\ proc' = [proc EXCEPT ![i].main = "killed"]
  /\ UNCHANGED <<calm, at, buf, result, disk>>

\* The process a command left behind ends, some time or never.
DaemonEnds(i) ==
  /\ at[i] = "wait" /\ proc[i].output
  /\ proc' = [proc EXCEPT ![i].output = FALSE]
  /\ UNCHANGED <<calm, at, buf, result, disk>>

classifyCmdFailure(end) ==
  CASE end = "127"      -> "ERR_CMD_NOT_FOUND"
    [] end = "2 syntax" -> "ERR_CMD_SYNTAX_ERROR"
    [] OTHER            -> "ERR_CMD_FAILED"

\* CombinedOutput returns when the process is gone and its output closed.
Collect(i) ==
  /\ at[i] = "wait"
  /\ proc[i].main # "running" /\ ~ proc[i].output
  /\ Answer(i, IF proc[i].late THEN Soft("ERR_CMD_TIMEOUT")
               ELSE IF proc[i].main # "0" THEN Soft(classifyCmdFailure(proc[i].main))
               ELSE Ok(<<>>))
  /\ UNCHANGED <<calm, buf, proc, disk>>

Failing == {batch[i] : i \in {j \in DOMAIN batch : result[j].error}}

CountOf(fp) == IF fp \in DOMAIN table THEN table[fp] ELSE 0

\* Mutations: a fingerprint that did not fail keeps its count; its entry is
\* set to 0 and never leaves the table.
FailureCountsSticky ==
  [fp \in DOMAIN table \cup Failing |->
     IF fp \in Failing THEN CountOf(fp) + 1 ELSE CountOf(fp)]
FailureCountsZeroed ==
  [fp \in DOMAIN table \cup Failing |-> IF fp \in Failing THEN CountOf(fp) + 1 ELSE 0]

\* The new table: one more for a fingerprint that failed in this turn, however
\* often, and no entry for any other.
FailureCounts == [fp \in Failing |-> CountOf(fp) + 1]

\* Some fingerprint with the highest count at or over the threshold is named.
NoticeOf(counts) ==
  LET worst == Max({0} \cup {counts[fp] : fp \in DOMAIN counts}) IN
  IF worst < RemindAfter THEN NoNotice
  ELSE [count |-> worst, tools |-> {fp.tool : fp \in {f \in DOMAIN counts : counts[f] = worst}}]

\* Wait returns; CheckAndInject counts the turn.
Finish ==
  /\ pc = "exec"
  /\ \A i \in DOMAIN batch : at[i] \in Over
  /\ table' = FailureCounts
  /\ notice' = NoticeOf(FailureCounts)
  /\ failures' = Append(failures, Failing)
  /\ pc' = "ask"
  /\ UNCHANGED <<todo, batch, base, workers>>

Finished == pc = "done" /\ UNCHANGED vars

Call(i) ==
  \/ Enter(i) \/ Read(i) \/ CreateFile(i) \/ WriteFile(i)
  \/ ReadFails(i) \/ CreateFails(i) \/ WriteFails(i)
  \/ DeadlinePasses(i) \/ Kill(i) \/ Collect(i)

Next ==
  \/ NextRun \/ Ask \/ Finish \/ Finished
  \/ \E i \in DOMAIN batch : Call(i) \/ CommandEnds(i) \/ DaemonEnds(i)

Spec == Init /\ [][Next]_vars

Slots == UNION {UNION {DOMAIN b : b \in UNION {ToSet(r) : r \in ToSet(s.runs)}} : s \in Scripts}

(* Goroutines are scheduled, time passes and a kill is delivered; no command *)
(* and no process it leaves behind has to end.                               *)
FairSpec ==
  Spec /\ WF_vars(Finish) /\ \A i \in Slots : WF_vars(i \in DOMAIN batch /\ Call(i))

-----------------------------------------------------------------------------
(* Properties. *)

\* Every variable stays in its range; the table has no entry with count 0, so
\* it cannot grow beyond the last turn's failures ( reminder.go:30 ).
TypeOK ==
  /\ pc \in {"ask", "exec", "done"}
  /\ at \in [DOMAIN batch -> {"ready", "read", "create", "write", "wait"} \cup Over]
  /\ buf \in [DOMAIN batch -> Text]
  /\ proc \in [DOMAIN batch ->
       [main : {"none", "running", "killed", "0", "1", "2", "2 syntax", "127"},
        output : BOOLEAN, late : BOOLEAN]]
  /\ result \in [DOMAIN batch ->
       [error : BOOLEAN, code : Codes, out : Text, hint : BOOLEAN]]
  /\ disk \in [DOMAIN disk -> Text]
  /\ table \in [DOMAIN table -> Nat \ {0}]
  /\ notice \in [count : Nat, tools : SUBSET Names]

\* In how many of the last turns of the run a fingerprint failed without a
\* pause.
Streak(fp) ==
  Max({0} \cup {n \in 1..Len(failures) :
                  \A k \in (Len(failures) - n + 1)..Len(failures) : fp \in failures[k]})

\* After every turn the table counts, for each fingerprint, the consecutive
\* turns of this run in which it failed, and the model is reminded of a worst
\* one exactly when some fingerprint has failed so often ( CheckAndInject, Reset ).
ReminderIsExact ==
  pc = "ask" =>
    LET seen == UNION ToSet(failures)
        worst == Max({0} \cup {Streak(fp) : fp \in seen})
    IN  /\ \A fp \in seen \cup DOMAIN table : CountOf(fp) = Streak(fp)
        /\ notice.count = IF worst >= RemindAfter THEN worst ELSE 0
        /\ \A n \in notice.tools : \E fp \in seen : fp.tool = n /\ Streak(fp) = worst
        /\ notice.count > 0 => notice.tools # {}

Settled == pc = "ask" /\ batch # <<>>

CallsOn(p) == {i \in DOMAIN batch : Mutates(batch[i]) /\ batch[i].path = p}
Succeeded(i) == result[i].code = ""

\* An edit with no other change of its file in the batch keeps the editor's
\* promise: one region that reads like the old content is replaced and nothing
\* else changes, or the edit is refused and nothing changes ( fuzzyReplace ).
LoneEditsAreLocal ==
  Settled => \A i \in DOMAIN batch :
    LET c == batch[i] IN
      c.tool = "file_editor" /\ CallsOn(c.path) = {i}
      /\ result[i].code \in {"", "ERR_EDIT_NO_MATCH", "ERR_EDIT_AMBIGUOUS"}
      => /\ EditPromise(base[c.path], OldContent(c), NewContent(c),
              IF Succeeded(i) THEN Replaced(disk[c.path]) ELSE Failed(result[i].code))
         /\ ~ Succeeded(i) => disk[c.path] = base[c.path]

\* Of a file that no call has opened for writing the batch leaves all as it was,
\* however many calls on it are refused or fail.  Any other begins with all that
\* one of its writers has put there and holds nothing but what they have put
\* there, and a writer that is told of success has put all its content there;
\* so of a file with one writer only a write that fails on its way can leave
\* less than the content ( os.WriteFile of the writer and the editor ).
FilesHoldTheirWrites ==
  Settled =>
    /\ \A p \in DOMAIN disk \cup DOMAIN base :
         LET wrote == {i \in CallsOn(p) : Succeeded(i) \/ at[i] = "torn"} IN
           IF wrote = {}
           THEN p \in DOMAIN disk /\ p \in DOMAIN base /\ disk[p] = base[p]
           ELSE /\ \E i \in wrote : IsPrefix(buf[i], disk[p])
                /\ \A k \in DOMAIN disk[p] :
                     \E i \in wrote : k \in DOMAIN buf[i] /\ buf[i][k] = disk[p][k]
    /\ \A i \in DOMAIN batch :
         batch[i].tool = "file_writer" /\ Succeeded(i) => buf[i] = batch[i].content

\* Every batch ends, whatever its commands do, unless a process that a command
\* has left behind holds its output for ever ( exec.CommandContext, Wait ).
BatchesEnd ==
  pc = "exec" ~> (pc = "ask" \/ \E i \in DOMAIN batch : proc[i].output)

-----------------------------------------------------------------------------
(* What the repository says of its tools and the code does not keep. *)

\* bash_executor.go:99: a command that has timed out has been ended by force, so
\* the batch goes on; recovery.go:25 advises to start servers in the background.
TimeoutsEndBatches == pc = "exec" ~> pc = "ask"

\* file_editor.go:36,46: an edit as announced, whose old content is in the file
\* once, is made.
AnnouncedEditsWork ==
  Settled => \A i \in DOMAIN batch :
    LET c == batch[i] IN
      c.tool = "file_editor" /\ c.keys = "announced" /\ CallsOn(c.path) = {i}
      /\ c.path \in DOMAIN base /\ result[i].code \notin SysErrors
      /\ Cardinality(Occurrences(base[c.path], c.old)) = 1
      => Succeeded(i) /\ OneRegionReplaced(base[c.path], c.old, c.new, disk[c.path])
=============================================================================
