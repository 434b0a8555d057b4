--------------------------- MODULE MCBlockPacking ---------------------------
(* Small executions: one row for each way the planner treats a row.        *)
EXTENDS BlockPacking

E(kind) == [kind |-> kind, video |-> FALSE]
R(operation, cycles, events) ==
    [instruction |-> TRUE, operation |-> operation, cycles |-> cycles, events |-> events,
     pending |-> FALSE]

MCRow == [
    nop   |-> R("Other", 1, <<E("OpcodeFetch")>>),
    addsp |-> R("Other", 4, <<E("OpcodeFetch"), E("ImmediateRead")>>),
    load  |-> R("Other", 2, <<E("OpcodeFetch"), E("MemoryRead")>>),
    call  |-> R("ControlFlow", 6, <<E("OpcodeFetch"), E("ImmediateRead"), E("ImmediateRead"),
                                    E("MemoryWrite"), E("MemoryWrite")>>),
    mmio  |-> R("Other", 2, <<E("OpcodeFetch"), E("DmgMmioRead")>>),
    vram  |-> R("Other", 2, <<E("OpcodeFetch"), [kind |-> "MemoryWrite", video |-> TRUE]>>),
    bank  |-> R("Other", 2, <<E("OpcodeFetch"), E("Mbc3ControlWrite")>>),
    late  |-> [R("Other", 1, <<E("OpcodeFetch")>>) EXCEPT !.pending = TRUE],
    halt  |-> [R("LowPower", 20, <<>>) EXCEPT !.instruction = FALSE]]
MCRows == DOMAIN MCRow
=============================================================================
