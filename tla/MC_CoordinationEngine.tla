----------------------- MODULE MC_CoordinationEngine -----------------------
\* A small instance of CoordinationEngine: one event of each kind.
EXTENDS CoordinationEngine
CONSTANTS mail, receipt, poll, approval, timer
MCEvents == {mail, receipt, poll, approval, timer}
MCKindOf == [e \in MCEvents |->
               CASE e = mail     -> "email"
                 [] e = receipt  -> "grn_confirmed"
                 [] e = poll     -> "grn_check"
                 [] e = approval -> "approved"
                 [] e = timer    -> "erp_recheck"]
=============================================================================
