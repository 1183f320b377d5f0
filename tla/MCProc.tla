------------------------------- MODULE MCProc -------------------------------
(***************************************************************************)
(* The programs of the initramfs that the model-checking runs let loose on *)
(* the process layer: each run says which system calls its programs make.  *)
(***************************************************************************)
EXTENDS ProcProps

\* Programs that create processes, wait for them and stop them.
Stoppers == {"fork", "waitpid", "exit", "stop"}

\* All calls: also those that replace the program, sleep or read the UART, and
\* those of signals.
AllCalls == Stoppers \cup {"exec", "poll", "kill", "signal"}

\* Programs that kill each other and fork in their handlers.
HandlerPrograms == {"fork", "exit", "kill", "signal"}
=============================================================================
