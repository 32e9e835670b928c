---------------------------- MODULE DataServices ----------------------------
(* The services that keep the user's data, on the registers.                   *)
EXTENDS Registers

CONSTANTS
    Requests, AgendaRevisions, AgendaImports, AgendaFaults,     \* AgendaStore
    FeedEditors, FeedPlaces, FeedEdits, FeedChanges,            \* ActivityFeed
    UpdateWorkers, UpdateManuals, UpdateFaults                  \* UpdateDelivery

Agenda == INSTANCE AgendaStore WITH
            Requests <- Requests, MaxRevision <- AgendaRevisions, MaxImports <- AgendaImports, MaxFaults <- AgendaFaults,
            db <- r1, txn <- r2, owner <- r3, blocked <- r4, legacy <- r5, backups <- r6,
            exported <- r7, op <- r8, cache <- r9, imports <- r10, catalog <- r11, told <- r12,
            acked <- r13, faults <- r14
Feed == INSTANCE ActivityFeed WITH
            Editors <- FeedEditors, Places <- FeedPlaces, MaxEdits <- FeedEdits, MaxChanges <- FeedChanges,
            data <- r1, file <- r2, fenced <- r3, published <- r4, guard <- r5, draft <- r6,
            busy <- r7, refresh <- r8, asked <- r9, edit <- r10, mutation <- r11, kept <- r12,
            places <- r13, edits <- r14, changes <- r15
Update == INSTANCE UpdateDelivery WITH
            Workers <- UpdateWorkers, Manuals <- UpdateManuals, MaxFaults <- UpdateFaults,
            disk <- r1, proc <- r2, started <- r3, monitor <- r4, shown <- r5, saved <- r6,
            delivered <- r7, covered <- r8, swallowed <- r9, passed <- r10, faults <- r11

\* What the proofs ask of the constants: a request is not named like the adopted
\* item, there are finitely many requests, and the bounds are numbers.
ASSUME AgendaConstants == Agenda!AgendaConstantsOK
ASSUME FeedConstants == Feed!FeedConstantsOK
=============================================================================
