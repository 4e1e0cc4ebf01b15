------------------------------- MODULE MemCmds -------------------------------
(***************************************************************************)
(* The commands of the monitor that keep state (cmd/mem.c, cmd/debug.c)    *)
(* and the dispatch of a command to them (common/command.c).  The state is *)
(* a record: base is base_address; addr, size and length are the dp_last_  *)
(* variables, loglevel is message_logleve and mem the RAM the commands     *)
(* work on.  shown is the last display: where it began and ended, and the  *)
(* size of its objects.                                                    *)
(***************************************************************************)
EXTENDS CmdLine, CString

CONSTANTS Byte,         \* values of a byte
          DefaultLength \* the initial dp_last_length

SUCCESS == 0
USAGE == 1
FAILURE == -1

InitCmds(ram) ==
  [base |-> 0, addr |-> 0, size |-> 0, length |-> DefaultLength, loglevel |-> 7,
   mem |-> ram, shown |-> [from |-> 0, to |-> 0, size |-> 0]]

Hex(s) == simple_strtoul(s, 16).val
Ret(rc, s) == [rc |-> rc, s |-> s]

(* do_mem_md(): a repeated display carries on behind the last one and does *)
(* not look at its arguments.                                              *)
Continues_no(repeat) == FALSE
Continues(repeat) == repeat

do_mem_md(s, argv, flag) ==
  LET repeat == Continues(flag)
      size == IF repeat THEN s.size ELSE cmd_get_data_size(argv[1], 4)
      addr == IF repeat THEN s.addr ELSE (Hex(argv[2]) + s.base) % Modulus
      length == IF ~repeat /\ Len(argv) > 2 THEN Hex(argv[3]) ELSE s.length
      end == (addr + size * length) % Modulus
  IN IF Len(argv) < 2 THEN Ret(USAGE, s)
     ELSE IF size < 0 THEN Ret(1, s)
     ELSE Ret(0, [s EXCEPT !.addr = end, !.length = length, !.size = size,
                           !.shown = [from |-> addr, to |-> end, size |-> size]])

(* A value stored little-endian at an address, and the one loaded there. *)
Store(mem, a, size, val) ==
  [x \in DOMAIN mem |-> IF x \in a .. a + size - 1 THEN (val \div Byte ^ (x - a)) % Byte ELSE mem[x]]
Load(mem, a, size) == FoldLeft(LAMBDA v, i : v * Byte + mem[a + size - i], 0, [i \in 1 .. size |-> i])

RECURSIVE Fill(_, _, _, _, _)
Fill(mem, a, size, val, count) ==
  IF count = 0 THEN mem ELSE Fill(Store(mem, a, size, val), a + size, size, val, count - 1)

do_mem_mw(s, argv) ==
  LET size == cmd_get_data_size(argv[1], 4)
      addr == (Hex(argv[2]) + s.base) % Modulus
      count == IF Len(argv) = 4 THEN Hex(argv[4]) ELSE 1
  IN IF Len(argv) \notin 3 .. 4 THEN Ret(USAGE, s)
     ELSE IF size < 1 THEN Ret(1, s)
     ELSE Ret(0, [s EXCEPT !.mem = Fill(s.mem, addr, size, Hex(argv[3]), count)])

(* do_mem_cmp() leaves the state alone; ngood is what it prints. *)
RECURSIVE Good(_, _, _, _, _, _)
Good(mem, a1, a2, size, count, n) ==
  IF n = count \/ Load(mem, a1 + n * size, size) # Load(mem, a2 + n * size, size) THEN n
  ELSE Good(mem, a1, a2, size, count, n + 1)
ngood(s, argv) ==
  Good(s.mem, (Hex(argv[2]) + s.base) % Modulus, (Hex(argv[3]) + s.base) % Modulus,
       cmd_get_data_size(argv[1], 4), Hex(argv[4]), 0)
do_mem_cmp(s, argv) ==
  Ret(IF Len(argv) # 4 THEN USAGE ELSE IF cmd_get_data_size(argv[1], 4) < 0 THEN 1 ELSE 0, s)

do_mem_cp(s, argv) ==
  LET size == cmd_get_data_size(argv[1], 4)
      src == (Hex(argv[2]) + s.base) % Modulus
      dst == (Hex(argv[3]) + s.base) % Modulus
      count == Hex(argv[4])
  IN IF Len(argv) # 4 THEN Ret(USAGE, s)
     ELSE IF size < 0 \/ count = 0 THEN Ret(1, s)
     ELSE Ret(0, [s EXCEPT !.mem = memcpy(s.mem, dst, src, count * size)])

do_mem_base(s, argv) == Ret(0, IF Len(argv) > 1 THEN [s EXCEPT !.base = Hex(argv[2])] ELSE s)

do_debug(s, argv) ==
  LET level == Hex(argv[2]) % 256
  IN IF Len(argv) = 1 THEN Ret(SUCCESS, s)
     ELSE IF level >= 8 THEN Ret(FAILURE, s) ELSE Ret(SUCCESS, [s EXCEPT !.loglevel = level])

(* uart and gicv3 run a test of their own, which ends with verdict; what  *)
(* do_display_test() returns is never assigned.                            *)
TestSub == <<[name |-> <<"t", "e", "s", "t">>]>>
do_module(do, s, argv, verdict) ==
  IF Len(argv) < 2 THEN Ret(USAGE, s)
  ELSE IF find_cmd_tbl(argv[2], TestSub) = 0 THEN Ret(USAGE, s)
  ELSE Ret(IF do = "module" /\ Len(argv) = 2 THEN SUCCESS ELSE verdict, s)

(* _do_help(): cmd_usage() and an unknown name both give 1. *)
do_help(s, argv) == Ret(IF Len(argv) = 1 THEN 0 ELSE 1, s)

-----------------------------------------------------------------------------
Call(do, s, argv, repeat, verdict) ==
  CASE do = "md" -> do_mem_md(s, argv, repeat)
    [] do = "mw" -> do_mem_mw(s, argv)
    [] do = "cmp" -> do_mem_cmp(s, argv)
    [] do = "cp" -> do_mem_cp(s, argv)
    [] do = "base" -> do_mem_base(s, argv)
    [] do = "debug" -> do_debug(s, argv)
    [] do \in {"module", "display"} -> do_module(do, s, argv, verdict)
    [] do = "help" -> do_help(s, argv)
    [] do = "version" -> Ret(0, s)

(* cmd_process(): cmd_usage() turns USAGE into 1; rep is what is left of   *)
(* the repeatable flag.                                                    *)
KeepRep_last(rep, newrep) == newrep
KeepRep(rep, newrep) == rep /\ newrep
cmd_process(s, argv, repeat, rep, verdict) ==
  LET i == find_cmd(argv[1])
  IN IF i = 0 THEN [rc |-> 1, s |-> s, rep |-> rep]
     ELSE IF Len(argv) > Table[i].maxargs THEN [rc |-> 1, s |-> s, rep |-> rep]
     ELSE Call(Table[i].do, s, argv, repeat, verdict) @@ [rep |-> KeepRep(rep, Table[i].rep)]

(* cli_simple_run_command(): every command of the line is run, whatever    *)
(* the ones before returned.  before is the byte in front of the copy of   *)
(* the line, which a leading quote makes the code read.                    *)
Args(token) == cli_simple_parse_line(cli_simple_process_macros(token)).args
RunArgs(r, argv, repeat, verdict) ==
  IF argv = <<>> THEN [r EXCEPT !.rc = -1]
  ELSE [cmd_process(r.s, argv, repeat, r.rep, verdict) EXCEPT !.rc = IF @ # 0 THEN -1 ELSE r.rc]
RunToken(r, token, repeat, verdict) == RunArgs(r, Args(token), repeat, verdict)

RECURSIVE RunTokens(_, _, _, _)
RunTokens(r, tokens, repeat, verdict) ==
  IF tokens = <<>> THEN r
  ELSE RunTokens(RunToken(r, Head(tokens), repeat, verdict), Tail(tokens), repeat, verdict)

Result(r) == Ret(IF r.rc # 0 THEN r.rc ELSE IF r.rep THEN 1 ELSE 0, r.s)
cli_simple_run_command(s, cmd, size, repeat, verdict, before) ==
  IF cmd = <<>> \/ Len(cmd) >= size THEN Ret(-1, s)
  ELSE Result(RunTokens([rc |-> 0, s |-> s, rep |-> TRUE], Tokens(cmd, before), repeat, verdict))
=============================================================================
