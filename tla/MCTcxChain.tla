----------------------------- MODULE MCTcxChain -----------------------------
(***************************************************************************)
(* TLC instance of TcxChain: four invocations of the tool over two pin    *)
(* paths, with the classifier and the chain-ending dummy of                *)
(* test_tcx_chain.sh, and the probe as a legacy filter.                    *)
(***************************************************************************)
EXTENDS TcxChain, TLC

MCProgs   == {"ts_classifier", "tcx_dummy_ok"}
MCLegacy  == <<"ts_classifier", "prio_probe">>
Symmetry  == Permutations(Tools) \cup Permutations(Paths)
=============================================================================
