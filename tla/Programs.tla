-------------------------------- MODULE Programs --------------------------------
(***************************************************************************)
(* The programs that claude-anyteam install needs, and what its offers and *)
(* its checks make of them: a terminal multiplexer, and a provider's       *)
(* program that is signed in.                                              *)
(*                                                                         *)
(* A machine says whether the multiplexer is there (Windows does without), *)
(* whether uv is on PATH, and where each provider's program is: "on" the   *)
(* PATH of this process, in a directory of "uv" that is not, or "away":    *)
(* nowhere, or where no probe looks.                                       *)
(***************************************************************************)
EXTENDS Naturals

CONSTANT Providers   \* the providers that are modelled

ASSUME ProgramsAssumption == Providers \subseteq {"codex", "gemini", "kimi"}

\* Only Kimi is installed with uv.
Machines ==
  {mc \in [mux : BOOLEAN, uv : BOOLEAN, at : [Providers -> {"on", "uv", "away"}]] :
     \A p \in Providers \ {"kimi"} : mc.at[p] # "uv"}

-----------------------------------------------------------------------------
(* Where a program is found, and how looking for it changes PATH. *)

UvTools(mc) == {p \in Providers : mc.uv /\ mc.at[p] = "uv"}

Refreshed(mc) ==
  [mc EXCEPT !.at = [p \in Providers |-> IF p \in UvTools(mc) THEN "on" ELSE mc.at[p]]]

\* PATH, then the directories of uv; what is found there is put on PATH.
Resolves(p, mc) == mc.at[p] = "on" \/ p \in UvTools(mc)
Resolved(p, mc) == IF p \in UvTools(mc) THEN [mc EXCEPT !.at[p] = "on"] ELSE mc

\* A program on PATH is there, whatever its version, and even if it has none.
OnPath(mc) == {p \in Providers : mc.at[p] = "on"}

\* What the checks find: only Kimi is looked for outside PATH, and put on it.
Found(mc) == OnPath(mc) \cup ({"kimi"} \cap UvTools(mc))
Looked(mc) == IF "kimi" \in Providers THEN Resolved("kimi", mc) ELSE mc

Missing(mc) == Providers \ Found(mc)

\* The first of the programs S to be offered.
First(S) == IF "codex" \in S THEN "codex" ELSE IF "gemini" \in S THEN "gemini" ELSE "kimi"

-----------------------------------------------------------------------------
(* What an installer does that reports success. *)

ByUv(p, mc) == p = "kimi" /\ mc.uv

\* The program may land where this process does not see it.
Lands(p, mc) == IF ByUv(p, mc) THEN {"on", "uv", "away"} ELSE {"on", "away"}

Installed(p, mc, where) ==
  LET now == [mc EXCEPT !.at[p] = where] IN IF ByUv(p, mc) THEN Refreshed(now) ELSE now

-----------------------------------------------------------------------------
(* Who is signed in, and what install concludes. *)

\* A file with credentials: readable as an object, its expiry, its token.
AuthFiles == [object : BOOLEAN, expiry : {"none", "past", "future", "garbled"}, token : BOOLEAN]

Lapsed(f) == f.expiry \in {"past", "garbled"}

CodexSignedIn(f) == f.object /\ ~Lapsed(f) /\ f.token

\* A key in the environment is enough, whatever the file says.
GeminiSignedIn(f, key) == key \/ (f.object /\ ~Lapsed(f) /\ f.token)

\* Nobody looks at the expiry.
KimiSignedIn(f) == f.object /\ f.token

\* A Codex that is known to be too old is not ready; one of an unknown version is.
CodexReady(f, version) == version # "old" /\ CodexSignedIn(f)

\* The providers that would be ready, if their programs are found.
Prepared(file, key, version) ==
  {p \in Providers : CASE p = "codex"  -> CodexReady(file[p], version)
                       [] p = "gemini" -> GeminiSignedIn(file[p], key)
                       [] p = "kimi"   -> KimiSignedIn(file[p])}

AllPrepared ==
  {Prepared(file, key, version) :
     file \in [Providers -> AuthFiles], key \in BOOLEAN, version \in {"old", "new", "unknown"}}

\* The command and the shim, from the path install was called by or from PATH.
PathsKnown(argv0, sibling, onPath) ==
  /\ argv0 = "command" \/ "command" \in onPath
  /\ argv0 = "shim" \/ (argv0 = "command" /\ sibling) \/ "shim" \in onPath

\* The schemas of the answers came with the package.
Schemas == {"task_complete", "the others"}
SchemasPackaged(files, resolvable) == resolvable /\ Schemas \subseteq files

\* Whether install goes on, for all that is not part of the machine.
Verdicts ==
  {<<mc, /\ mc.mux /\ (force \/ ready \cap Found(mc) # {})
         /\ SchemasPackaged(files, resolvable) /\ PathsKnown(argv0, sibling, onPath)>> :
     mc \in Machines, files \in SUBSET Schemas, resolvable \in BOOLEAN, force \in BOOLEAN,
     ready \in AllPrepared, argv0 \in {"command", "shim", "other"},
     sibling \in BOOLEAN, onPath \in SUBSET {"command", "shim"}}

=============================================================================
