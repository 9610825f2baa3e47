------------------------------- MODULE Installer -------------------------------
(***************************************************************************)
(* claude-anyteam install and uninstall: two commands that edit three      *)
(* files of the user, one after the other and without a lock, next to the  *)
(* user and Claude Code, who edit the same files.                          *)
(*                                                                         *)
(* settings is ~/.claude/settings.json: of its env block the variable that *)
(* names the spawn shim (it stands for the four that are handled alike),   *)
(* the legacy one and one that is none of our business; of its permissions *)
(* the allow list.  claude is ~/.claude.json with teammateMode; receipt is *)
(* install-state.json in a directory of its own.  "rest" counts what       *)
(* others put into a file.                                                 *)
(***************************************************************************)
EXTENDS Programs, FiniteSets

CONSTANTS Entries,     \* RECOMMENDED_ALLOWLIST_ENTRIES
          Concluded,   \* what may be concluded of a machine: the Verdicts of Programs
          MaxCommands, \* commands that are run
          MaxAsks,     \* the first commands, that run where they can ask the user
          MaxEdits,    \* edits by the user and by Claude Code
          MaxFails     \* reads and writes that fail, and commands that are killed

VARIABLES settings, claude, receipt,
          dataDir,   \* whether the receipt's directory exists
          pc, m,     \* the command that runs: where it is, what it has loaded
          last,      \* how the last command ended
          commands, edits, fails,
          ghost,     \* history: the files, had the commands never run
          excuses    \* history: what happened that spoils a promise

files == <<settings, claude, receipt, dataDir>>
past == <<ghost, excuses>>
vars == <<files, pc, m, last, commands, edits, fails, past>>

EnvKeys == {"command", "legacy", "keep"}
Managed(v) == v \in {"ours", "moved"}   \* its basename is one of our programs

NoSettings == [there |-> FALSE, env |-> [k \in EnvKeys |-> "none"], block |-> FALSE,
               perm |-> "none", allow |-> {}, rest |-> 0]
NoClaude == [there |-> FALSE, mode |-> "none", rest |-> 0]
NoReceipt == [there |-> FALSE, bad |-> FALSE, set |-> FALSE, orig |-> "none",
              madeSettings |-> FALSE, madeClaude |-> FALSE, added |-> {},
              madePerm |-> FALSE, madeAllow |-> FALSE]
NoMachine == [at |-> "unknown"]
Nothing == [old |-> NoSettings, new |-> NoSettings, cl |-> NoClaude, rec |-> NoReceipt,
            begin |-> <<NoSettings, NoClaude>>,
            mc |-> NoMachine, todo |-> {}, told |-> {}]

\* Any files a user may have: no trace of us but for an older program's variable.
UserSettings ==
  {NoSettings} \cup
  {s \in [there : {TRUE}, block : BOOLEAN, perm : {"none", "bare", "list"},
          env : [command : {"none", "user"}, legacy : {"none", "moved"}, keep : {"none", "user"}],
          allow : SUBSET Entries, rest : {0, 1}] :
     /\ s.perm # "list" => s.allow = {}
     /\ Cardinality({k \in EnvKeys : s.env[k] # "none"}) <= 1
     /\ (\E k \in EnvKeys : s.env[k] # "none") => s.block}
UserClaude ==
  {NoClaude} \cup [there : {TRUE}, mode : {"none", "tmux", "auto"}, rest : {0, 1}]

Init ==
  /\ settings \in UserSettings /\ claude \in UserClaude
  /\ receipt = NoReceipt /\ dataDir = FALSE
  /\ pc = "idle" /\ m = Nothing /\ last = "none"
  /\ commands = 0 /\ edits = 0 /\ fails = 0
  /\ ghost = [s |-> settings, c |-> claude] /\ excuses = {}

-----------------------------------------------------------------------------
(* What the commands make of a file. *)

\* settings with our variables and, unless told otherwise, our allow entries.
WithUs(s, noAllow) ==
  [s EXCEPT !.there = TRUE, !.block = TRUE,
     !.env = [k \in EnvKeys |-> IF k = "command" THEN "ours"
                                ELSE IF k = "legacy" /\ Managed(s.env[k]) THEN "none"
                                ELSE s.env[k]],
     !.perm = IF noAllow THEN @ ELSE "list",
     !.allow = IF noAllow THEN @ ELSE @ \cup Entries]

Stripped(s) ==
  [k \in EnvKeys |-> IF k # "keep" /\ Managed(s.env[k]) THEN "none" ELSE s.env[k]]

\* The allow entries of the receipt are taken out, then what the receipt says
\* we made around them, if nothing is left in it.
Disallowed(s, r) ==
  LET gone == s.allow \cap r.added
      none == gone # {} /\ s.allow = gone IN
    [s EXCEPT !.allow = @ \ r.added,
       !.perm = IF none /\ r.madeAllow THEN IF r.madePerm THEN "none" ELSE "bare" ELSE @]

\* settings without us: unchanged, or deleted, or with what is left.
\* A mutant: a file that we made is deleted whatever is in it.
WithoutUs_Unlinks(s, r) ==
  LET env == Stripped(s)
      t == [Disallowed(s, r) EXCEPT !.env = env,
              !.block = \E k \in EnvKeys : env[k] # "none"] IN
    IF env = s.env /\ t.allow = s.allow THEN s
    ELSE IF r.madeSettings THEN NoSettings ELSE t

WithoutUs(s, r) ==
  LET env == Stripped(s)
      t == [Disallowed(s, r) EXCEPT !.env = env,
              !.block = \E k \in EnvKeys : env[k] # "none"] IN
    IF env = s.env /\ t.allow = s.allow THEN s
    ELSE IF r.madeSettings /\ ~t.block /\ t.perm = "none" /\ t.rest = 0 THEN NoSettings
    ELSE t

\* The receipt of this install; what an earlier one recorded about the allow
\* list is carried over, what it recorded about the mode is not.
Receipt(orig, set) ==
  LET s == m.old
      p == m.rec
      added == m.new.allow \ s.allow IN
    [there |-> TRUE, bad |-> FALSE, set |-> set, orig |-> orig,
     madeSettings |-> ~s.there, madeClaude |-> ~m.cl.there,
     added |-> p.added \cup added,
     madePerm |-> p.madePerm \/ (s.perm = "none" /\ m.new.perm = "list"),
     madeAllow |-> p.madeAllow \/ (s.perm # "list" /\ m.new.perm = "list")]

-----------------------------------------------------------------------------
(* install *)

Done(how) == pc' = "idle" /\ m' = Nothing /\ last' = how

\* In a terminal install asks first: the machine is any.
Install(asks) ==
  /\ pc = "idle" /\ commands < MaxCommands /\ commands' = commands + 1
  /\ asks => commands < MaxAsks
  /\ \E mc \in IF asks THEN Machines ELSE {NoMachine} :
       m' = [m EXCEPT !.begin = <<settings, claude>>, !.mc = mc]
  /\ pc' = IF asks THEN "i_tmux" ELSE "i_check"
  /\ excuses' = IF receipt.there \/ last = "installed" THEN excuses \cup {"again"} ELSE excuses
  /\ UNCHANGED <<files, last, edits, fails, ghost>>

\* The user declines, there is no package manager, it fails, or it works.
OfferTmux ==
  /\ pc = "i_tmux" /\ pc' = "i_list"
  /\ \E works \in BOOLEAN : m' = [m EXCEPT !.mc.mux = @ \/ works]
  /\ UNCHANGED <<files, last, commands, edits, fails, past>>

\* What is missing is listed once, before the first offer.
ListMissing ==
  /\ pc = "i_list"
  /\ m' = [m EXCEPT !.todo = Missing(m.mc), !.mc = Looked(m.mc)]
  /\ pc' = IF m'.todo = {} THEN "i_check" ELSE "i_offer"
  /\ UNCHANGED <<files, last, commands, edits, fails, past>>

\* A mutant: an installer that reports success is believed.
Tells_Credulous(p, mc) == {p}

\* Success is reported of a program that is then found.
Tells(p, mc) == IF Resolves(p, mc) THEN {p} ELSE {}

OfferProgram ==
  /\ pc = "i_offer"
  /\ LET p == First(m.todo) IN
       \/ m' = [m EXCEPT !.todo = @ \ {p}]   \* declined, no installer, or it failed
       \/ \E where \in Lands(p, m.mc) :
            LET mc == Installed(p, m.mc, where) IN
              m' = [m EXCEPT !.todo = @ \ {p}, !.mc = Resolved(p, mc), !.told = @ \cup Tells(p, mc)]
  /\ pc' = IF m'.todo = {} THEN "i_check" ELSE "i_offer"
  /\ UNCHANGED <<files, last, commands, edits, fails, past>>

\* No tmux, no provider that is ready and no force, no schemas, no program on
\* PATH: refused.  A command that does not ask has a machine of any kind.
Check ==
  /\ pc = "i_check"
  /\ \E go \in BOOLEAN :
       /\ m.mc = NoMachine \/ <<m.mc, go>> \in Concluded
       /\ IF go THEN /\ pc' = "i_read" /\ UNCHANGED last
                     /\ m' = [m EXCEPT !.mc = NoMachine, !.told = {}]
                ELSE Done("refused")
  /\ UNCHANGED <<files, commands, edits, fails, past>>

ReadSettings(noAllow) ==
  /\ pc = "i_read"
  /\ LET new == WithUs(settings, noAllow) IN
       /\ m' = [m EXCEPT !.old = settings, !.new = new,
                         !.rec = IF receipt.bad THEN NoReceipt ELSE receipt]
       /\ pc' = IF new = settings THEN "i_mode" ELSE "i_write"
  /\ UNCHANGED <<files, last, commands, edits, fails, past>>

WriteSettings ==
  /\ pc = "i_write" /\ pc' = "i_mode" /\ settings' = m.new
  /\ UNCHANGED <<claude, receipt, dataDir, m, last, commands, edits, fails, past>>

ReadMode ==
  /\ pc = "i_mode" /\ m' = [m EXCEPT !.cl = claude]
  /\ pc' = CASE claude.mode = "none" -> "i_claude"
             [] claude.mode = "tmux" -> "i_receipt"
             [] OTHER -> "i_prompt"
  /\ UNCHANGED <<files, last, commands, edits, fails, past>>

Prompt(yes) ==
  /\ pc = "i_prompt" /\ pc' = IF yes THEN "i_claude" ELSE "i_undo"
  /\ UNCHANGED <<files, m, last, commands, edits, fails, past>>

WriteMode ==
  /\ pc = "i_claude" /\ pc' = "i_receipt"
  /\ claude' = [m.cl EXCEPT !.there = TRUE, !.mode = "tmux"]
  /\ UNCHANGED <<settings, receipt, dataDir, m, last, commands, edits, fails, past>>

WriteReceipt ==
  /\ pc = "i_receipt" /\ dataDir' = TRUE
  /\ receipt' = IF m.cl.mode = "tmux" THEN Receipt("tmux", FALSE) ELSE Receipt(m.cl.mode, TRUE)
  /\ pc' = "i_plugin"
  /\ UNCHANGED <<settings, claude, m, last, commands, edits, fails, past>>

\* Claude Code is told of the plugin; that it fails is only reported.
RegisterPlugin ==
  /\ pc = "i_plugin" /\ Done("installed")
  /\ UNCHANGED <<files, commands, edits, fails, past>>

\* A mutant: a file that was there stays as install left it.
Undo_OnlyOurs ==
  /\ pc = "i_undo" /\ settings' = IF m.old.there THEN settings ELSE NoSettings
  /\ Done("refused")
  /\ UNCHANGED <<claude, receipt, dataDir, commands, edits, fails, past>>

\* The settings as they were loaded, or no file where there was none.
Undo ==
  /\ pc = "i_undo" /\ settings' = m.old
  /\ Done("refused")
  /\ UNCHANGED <<claude, receipt, dataDir, commands, edits, fails, past>>

-----------------------------------------------------------------------------
(* uninstall *)

Uninstall ==
  /\ pc = "idle" /\ commands < MaxCommands /\ commands' = commands + 1
  /\ pc' = "u_read"
  /\ UNCHANGED <<files, m, last, edits, fails, past>>

\* A mutant: the receipt is looked at when it is gone.
Peek_Late ==
  /\ pc = "u_read" /\ pc' = "u_receipt" /\ m' = [m EXCEPT !.old = settings]
  /\ UNCHANGED <<files, last, commands, edits, fails, past>>

\* The settings and the receipt are loaded before anything is undone.
Peek ==
  /\ pc = "u_read" /\ pc' = "u_receipt"
  /\ m' = [m EXCEPT !.old = settings, !.rec = IF receipt.bad THEN NoReceipt ELSE receipt]
  /\ UNCHANGED <<files, last, commands, edits, fails, past>>

ReadReceipt ==
  /\ pc = "u_receipt"
  /\ IF receipt.bad THEN Done("failed")
     ELSE /\ pc' = IF ~receipt.there THEN "u_settings"
                   ELSE IF receipt.set THEN "u_mode" ELSE "u_delete"
          /\ UNCHANGED <<m, last>>
  /\ UNCHANGED <<files, commands, edits, fails, past>>

\* teammateMode as it was before, whatever it is now.
RevertMode ==
  /\ pc = "u_mode" /\ m' = [m EXCEPT !.cl = claude]
  /\ pc' = IF claude.mode = receipt.orig THEN "u_delete" ELSE "u_claude"
  /\ UNCHANGED <<files, last, commands, edits, fails, past>>

WriteBack ==
  /\ pc = "u_claude" /\ pc' = "u_delete"
  /\ claude' = IF receipt.madeClaude /\ receipt.orig = "none" /\ m.cl.rest = 0 THEN NoClaude
               ELSE [m.cl EXCEPT !.there = TRUE, !.mode = receipt.orig]
  /\ UNCHANGED <<settings, receipt, dataDir, m, last, commands, edits, fails, past>>

\* The directory goes with the receipt, except where the mode was not ours.
DeleteReceipt ==
  /\ pc = "u_delete" /\ pc' = "u_settings"
  /\ receipt' = NoReceipt /\ dataDir' = (dataDir /\ ~receipt.set)
  /\ UNCHANGED <<settings, claude, m, last, commands, edits, fails, past>>

StripSettings ==
  /\ pc = "u_settings"
  /\ settings' = LET s == WithoutUs(m.old, m.rec) IN IF s = m.old THEN settings ELSE s
  /\ Done("uninstalled")
  /\ UNCHANGED <<claude, receipt, dataDir, commands, edits, fails, past>>

-----------------------------------------------------------------------------
(* What goes wrong, and what others do. *)

\* A read or a write that fails.  From the write of the mode on, install takes
\* the settings back; the files themselves are replaced as a whole or not at all.
Fail ==
  /\ fails < MaxFails /\ fails' = fails + 1
  /\ pc \notin {"idle", "i_tmux", "i_list", "i_offer", "i_check", "i_prompt", "i_plugin"}
  /\ IF pc \in {"i_mode", "i_claude", "i_receipt"}
     THEN pc' = "i_undo" /\ UNCHANGED <<m, last>>
     ELSE Done(IF pc \in {"i_read", "i_write", "i_undo"} THEN "refused" ELSE "failed")
  /\ excuses' = excuses \cup
       CASE pc = "i_undo" -> {"undo"}
         [] pc = "i_receipt" -> {"unreceipted"}
         [] pc \in {"u_read", "u_receipt", "u_mode", "u_claude", "u_delete", "u_settings"} -> {"halfway"}
         [] OTHER -> {}
  /\ UNCHANGED <<files, commands, edits, ghost>>

Kill ==
  /\ pc # "idle" /\ fails < MaxFails /\ fails' = fails + 1
  /\ Done("killed") /\ excuses' = excuses \cup {"killed"}
  /\ UNCHANGED <<files, commands, edits, ghost>>

\* The file was loaded and may still be written from that copy.
HoldsSettings == pc \in {"i_write", "i_mode", "i_claude", "i_prompt", "i_receipt", "i_undo",
                         "u_receipt", "u_mode", "u_claude", "u_delete", "u_settings"}
HoldsClaude == pc \in {"i_prompt", "i_claude", "i_receipt", "u_claude"}

Edited(holds, also) ==
  /\ edits < MaxEdits /\ edits' = edits + 1
  /\ excuses' = (excuses \cup IF holds THEN {"stale"} ELSE {}) \cup also
  /\ UNCHANGED <<receipt, dataDir, pc, m, last, commands, fails>>

Settles(s) == [s EXCEPT !.there = TRUE, !.rest = @ + 1]

EditSettings ==
  /\ Edited(HoldsSettings, {})
  /\ settings' = Settles(settings) /\ ghost' = [ghost EXCEPT !.s = Settles(@)]
  /\ UNCHANGED claude

\* The user takes our variable out; the session hook then advises a new install.
Drift ==
  /\ settings.env["command"] = "ours" /\ Edited(HoldsSettings, {"drift"})
  /\ settings' = [settings EXCEPT !.env["command"] = "none"]
  /\ UNCHANGED <<claude, ghost>>

EditClaude ==
  /\ Edited(HoldsClaude, {})
  /\ claude' = Settles(claude) /\ ghost' = [ghost EXCEPT !.c = Settles(@)]
  /\ UNCHANGED settings

ChangeMode ==
  /\ claude.there /\ claude.mode # "auto" /\ Edited(HoldsClaude, {"mode"})
  /\ claude' = [claude EXCEPT !.mode = "auto"]
  /\ ghost' = [ghost EXCEPT !.c.there = TRUE, !.c.mode = "auto"]
  /\ UNCHANGED settings

\* The receipt is edited into something that does not parse.
Spoil ==
  /\ receipt.there /\ ~receipt.bad /\ edits < MaxEdits /\ edits' = edits + 1
  /\ receipt' = [receipt EXCEPT !.bad = TRUE] /\ excuses' = excuses \cup {"stale", "spoilt"}
  /\ UNCHANGED <<settings, claude, dataDir, pc, m, last, commands, fails, ghost>>

-----------------------------------------------------------------------------
Next ==
  \/ \E asks \in BOOLEAN : Install(asks)
  \/ OfferTmux \/ ListMissing \/ OfferProgram \/ Check \/ RegisterPlugin
  \/ \E no \in BOOLEAN : ReadSettings(no)
  \/ WriteSettings \/ ReadMode \/ \E yes \in BOOLEAN : Prompt(yes)
  \/ WriteMode \/ WriteReceipt \/ Undo
  \/ Uninstall \/ Peek \/ ReadReceipt \/ RevertMode \/ WriteBack \/ DeleteReceipt
  \/ StripSettings
  \/ Fail \/ Kill \/ EditSettings \/ Drift \/ EditClaude \/ ChangeMode \/ Spoil

Spec == Init /\ [][Next]_vars

-----------------------------------------------------------------------------
TypeOK ==
  /\ settings.allow \subseteq Entries /\ settings.perm \in {"none", "bare", "list"}
  /\ settings.env \in [EnvKeys -> {"none", "ours", "moved", "user"}]
  /\ claude.mode \in {"none", "tmux", "auto"} /\ receipt.added \subseteq Entries
  /\ last \in {"none", "installed", "refused", "uninstalled", "failed", "killed"}

\* The files are what they would be, had the commands never been run; but for
\* values of our own variables, which install overwrites.
Untouched(s, g) ==
  /\ s.there = g.there /\ s.rest = g.rest /\ s.perm = g.perm /\ s.allow = g.allow
  /\ s.env["keep"] = g.env["keep"]
  /\ s.env["legacy"] = IF Managed(g.env["legacy"]) THEN "none" ELSE g.env["legacy"]
  /\ s.env["command"] \in {"none", g.env["command"]}

(* An uninstall that follows one install leaves no trace of it in the three   *)
(* files, whatever others wrote in between, unless a step failed halfway, an  *)
(* edit fell between a load and a write, or teammateMode was changed by       *)
(* hand (uninstall, uninstall_teammate_mode).                                 *)
NoTrace ==
  last = "uninstalled" /\ pc = "idle" /\ excuses = {} =>
    /\ Untouched(settings, ghost.s) /\ claude = ghost.c /\ ~receipt.there
    /\ dataDir => ghost.c.mode = "tmux"

(* What others put into the files is never lost, at whatever step a command   *)
(* fails or is killed, unless it was written between a command's load and its *)
(* write of that file (_rollback_settings_file, _atomic_write_json).          *)
EditsKept ==
  "stale" \notin excuses =>
    /\ settings.rest = ghost.s.rest /\ claude.rest = ghost.c.rest
    /\ ghost.s.allow \subseteq settings.allow
    /\ settings.env["keep"] = ghost.s.env["keep"]

(* An install that gives up leaves the settings as it found them, unless its  *)
(* own rollback fails, and teammateMode too, unless the mode was written and  *)
(* the receipt could not be; and no program it has just reported installed is *)
(* then missing (install, _rollback_settings_file, _wait_for_binary).         *)
AllOrNothing ==
  [][last' = "refused" /\ pc # "idle" /\ pc' = "idle" =>
       /\ excuses' \cap {"stale", "undo"} = {} /\ edits = 0 =>
            /\ settings' = m.begin[1]
            /\ "unreceipted" \notin excuses => claude' = m.begin[2]
       /\ pc = "i_check" /\ m.mc # NoMachine => m.told \subseteq Found(m.mc)]_vars

=============================================================================
