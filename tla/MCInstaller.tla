----------------------------- MODULE MCInstaller -----------------------------
(***************************************************************************)
(* Installer on an instance of its own, in which the conclusions about a   *)
(* machine are those of Programs.                                          *)
(***************************************************************************)
EXTENDS Programs, FiniteSets

CONSTANTS Entries, MaxCommands, MaxAsks, MaxTouches, MaxFails

ASSUME InstallerAssumption ==
  /\ IsFiniteSet(Entries) /\ Entries # {}
  /\ {MaxCommands, MaxAsks, MaxTouches, MaxFails} \subseteq Nat

VARIABLES settings, claude, receipt, dataDir,
          doing, memory,   \* pc and m of Installer
          last, commands,
          touches,         \* its edits
          fails, ghost, excuses

Setup == INSTANCE Installer WITH Concluded <- Verdicts,
                                 pc <- doing, m <- memory, edits <- touches, MaxEdits <- MaxTouches

SetupSpec == Setup!Spec

\* An uninstall leaves no trace of an install (uninstall, uninstall_teammate_mode).
NoTrace == Setup!NoTrace

\* What others write is kept (_rollback_settings_file, _atomic_write_json).
EditsKept == Setup!EditsKept

\* An install that gives up has changed nothing (install, _rollback_settings_file).
AllOrNothing == Setup!AllOrNothing
=============================================================================
