----------------------------- MODULE QueryLoops -----------------------------
(***************************************************************************)
(* What one goroutine executes for a query: the parser (parse.go) and the  *)
(* loops that evaluation is made of (eval.go).  It calls one of them and   *)
(* executes it until it returns.  The others rest, as after a call with    *)
(* nothing to do.                                                          *)
(***************************************************************************)
EXTENDS SortedMerge, PositionScan, TermWindow, QueryParse

loopVars == <<vars, scanVars, windowVars, parseVars>>

MergeRests ==
  /\ op = "and" /\ a = <<>> /\ b = <<>>
  /\ i = 1 /\ j = 1 /\ out = <<>> /\ pc = "done"

ScanRests ==
  /\ rel = "near" /\ pa = <<>> /\ pb = <<>> /\ k = 0
  /\ ia = 1 /\ ib = 1 /\ found = FALSE /\ scanPc = "done"

WindowRests ==
  /\ doc = <<>> /\ terms = <<>> /\ w = 0 /\ have = <<>>
  /\ l = 1 /\ r = 0 /\ answer = FALSE /\ windowPc = "done"

ParserRests == line = <<>> /\ tree = NoTree /\ parsePc = "done"

LoopInit ==
  \/ Init /\ ScanRests /\ WindowRests /\ ParserRests
  \/ ScanInit /\ MergeRests /\ WindowRests /\ ParserRests
  \/ WindowInit /\ MergeRests /\ ScanRests /\ ParserRests
  \/ ParseInit /\ MergeRests /\ ScanRests /\ WindowRests

LoopStep ==
  \/ Step /\ UNCHANGED <<scanVars, windowVars, parseVars>>
  \/ ScanStep /\ UNCHANGED <<vars, windowVars, parseVars>>
  \/ WindowStep /\ UNCHANGED <<vars, scanVars, parseVars>>

LoopsReturned == pc = "done" /\ scanPc = "done" /\ windowPc = "done"

LoopNext ==
  \/ LoopStep
  \/ Parse /\ UNCHANGED <<vars, scanVars, windowVars>>
  \/ LoopsReturned /\ parsePc = "done" /\ UNCHANGED loopVars

(* Sequential code: a loop is executed until it returns.  (Of the parser,  *)
(* a single step, nothing is claimed that would need fairness.)            *)
LoopSpec == LoopInit /\ [][LoopNext]_loopVars /\ WF_loopVars(LoopStep)

-----------------------------------------------------------------------------
(* Each iteration of the loops of eval.go, the inner ones included, moves  *)
(* an index closer to its end, so the functions return.                    *)
Returns == <>LoopsReturned
=============================================================================
