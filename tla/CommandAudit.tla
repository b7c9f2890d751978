---------------------------- MODULE CommandAudit ----------------------------
(***************************************************************************)
(* The extraction of commands from a shell session (channel_handle_rfd,    *)
(* ansi_copy): what the shell writes is collected in a file, and when the  *)
(* input that is pending at that moment is a carriage return, the lines of *)
(* the file become rows of the table commands.                             *)
(*                                                                         *)
(* buf_w is assigned only when input is pending and can be written.  When  *)
(* the shell's output is read at any other time, its value is whatever the *)
(* stack holds: a null pointer, or any input.  (A wild pointer may also    *)
(* end the process, after which there are no more steps.)                  *)
(*                                                                         *)
(* Keys are printing characters, DEL and CR; history, completion and       *)
(* control keys, which have tests of their own, are not modelled.          *)
(***************************************************************************)
EXTENDS Naturals, Sequences, SequencesExt

CONSTANTS Chars,    \* printing characters
          Prompts,  \* kinds of prompt: "plain", or "title" (with ESC ]0;)
          MaxKeys   \* bound on keys typed

CR == "CR"
DEL == "DEL"
Null == <<>>
Keys == Chars \cup {CR, DEL}

VARIABLES
  output,    \* c->output: keys received, not yet written to the pty
  keys,      \* keys in the pty, not yet read by the shell
  tty,       \* what the shell wrote, not yet read
  rfd_log,   \* contents of /tmp/rfd_.<pid>
  rows,      \* rows of commands
  line,      \* history: the line being typed, and
  entered,   \* the lines entered
  wild,      \* whether a buf_w that was not assigned has been used, and
  typed      \* the number of keys typed

vars == <<output, keys, tty, rfd_log, rows, line, entered, wild, typed>>

Init ==
  /\ output = <<>> /\ keys = <<>> /\ tty = <<>>
  /\ rfd_log = <<>> /\ rows = <<>>
  /\ line = <<>> /\ entered = {} /\ wild = FALSE /\ typed = 0

(* The user's line, with DEL applied; also what ansi_copy makes of the     *)
(* characters and erasures in the file.                                    *)
Edit(l, k) == IF k \in {DEL, "erase"}
              THEN IF l = <<>> THEN l ELSE Front(l)
              ELSE Append(l, k)
Render(s) == FoldLeft(Edit, <<>>, s)

(* channel_input_data: a key arrives from the client. *)
Type(k) ==
  /\ typed < MaxKeys
  /\ typed' = typed + 1
  /\ output' = Append(output, k)
  /\ IF k = CR THEN line' = <<>> /\ entered' = entered \cup {line}
     ELSE line' = Edit(line, k) /\ UNCHANGED entered
  /\ UNCHANGED <<keys, tty, rfd_log, rows, wild>>

(* The shell echoes what it reads; a command line ends with a new line,    *)
(* output of the command perhaps, and the prompt.                          *)
Shell ==
  /\ keys # <<>>
  /\ keys' = Tail(keys)
  /\ \/ Head(keys) = CR /\ \E p \in Prompts, o \in {<<>>, <<"out">>} :
          tty' = tty \o <<"nl">> \o o \o <<p>>
     \/ Head(keys) = DEL /\ tty' = Append(tty, "erase")
     \/ Head(keys) \in Chars /\ tty' = Append(tty, Head(keys))
  /\ UNCHANGED <<output, rfd_log, rows, line, entered, wild, typed>>

HasNewline(buf) == "nl" \in Range(buf) \/ "out" \in Range(buf)

(* What channel_handle_rfd does to the file when w, the value of buf_w, is *)
(* not a single CR: output with a new line that is not the answer to a CR, *)
(* or with a window title, empties it; echoes are collected.               *)
Collected(buf, w) ==
  CASE "title" \in Range(buf) \/ (HasNewline(buf) /\ Head(w) # CR) -> <<>>
    [] OTHER -> IF HasNewline(buf) \/ w = <<DEL>> THEN rfd_log ELSE rfd_log \o buf

(* channel_handle_rfd, with buf read from the shell *)
Extract(buf, w) ==
  \/ w = Null /\ UNCHANGED <<rfd_log, rows>>
  \/ /\ w = <<CR>>
     /\ rows' = IF Render(rfd_log) = <<>> THEN rows ELSE Append(rows, Render(rfd_log))
     /\ rfd_log' = <<>>
  \/ /\ w \notin {Null, <<CR>>}
     /\ rfd_log' = Collected(buf, w)
     /\ UNCHANGED rows

(* channel_handle_wfd *)
HandleWfd == output' = <<>> /\ keys' = keys \o output

(* The values of buf_w when it was not assigned. *)
Garbage == BoundedSeq(Keys, 2)

(* channel_post_open after select: output of the shell is read when it was *)
(* there at select, pending input is written when the pty took it.         *)
PostOpen ==
  \E reads \in {b \in BOOLEAN : b => tty # <<>>}, writes \in {b \in BOOLEAN : b => output # <<>>} :
    /\ reads \/ writes
    /\ IF reads
       THEN \E w \in IF writes THEN {output} ELSE Garbage : Extract(tty, w) /\ tty' = <<>>
       ELSE UNCHANGED <<tty, rfd_log, rows>>
    /\ IF writes THEN HandleWfd ELSE UNCHANGED <<output, keys>>
    /\ wild' = (wild \/ (reads /\ ~writes))
    /\ UNCHANGED <<line, entered, typed>>

Next == (\E k \in Keys : Type(k)) \/ Shell \/ PostOpen

Spec == Init /\ [][Next]_vars

-----------------------------------------------------------------------------
(* A row of the table commands is a line that the user entered: the        *)
(* product "will record [...] ssh operation command records".  Of an       *)
(* unassigned buf_w nothing can be said; but as long as none was used, the *)
(* test for a carriage return still pairs the input that is pending with   *)
(* output that belongs to earlier input.                                   *)
RowsAreCommands == ~wild => \A r \in Range(rows) : r \in entered
=============================================================================
