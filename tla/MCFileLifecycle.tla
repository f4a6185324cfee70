-------------------------- MODULE MCFileLifecycle --------------------------
(***************************************************************************)
(* FileLifecycle with a history of whether afterAll interrupted a start,   *)
(* and what the file's hooks promise when it did not.                      *)
(***************************************************************************)
EXTENDS FileLifecycle

VARIABLE interrupted \* history: did afterAll run before start() had settled?

Interrupts == stopPc["afterAll"] = "idle" /\ stopPc'["afterAll"] # "idle" /\ ~ StartSettled

HooksInit == Init /\ interrupted = FALSE

HooksNext == Next /\ interrupted' = (interrupted \/ Interrupts)

HooksSpec == HooksInit /\ [][HooksNext]_<<vars, interrupted>> /\ Fairness

\* A start that afterAll did not interrupt has released everything when it
\* rejects, before afterAll is called (README.md on failed startup, preparation,
\* environment resolution or application bootstrap), and so has afterAll after
\* a start that succeeded.
HooksReleaseEverything ==
  ~ interrupted => (startPc = "failed" => Released) /\ FileReleasesEverything

\* Reverse order: the environment is restored after the application was
\* stopped, the preparation is undone after that, and the containers go last;
\* an earlier release that failed does not hold up the later ones.
HooksReverseOrder == [][~ interrupted' => InReverseOrder]_vars

=============================================================================
