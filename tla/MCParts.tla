------------------------------- MODULE MCParts -------------------------------
(***************************************************************************)
(* The parts of the program that share no state with one another, checked  *)
(* in one run: a behaviour is one of a single part, the others keep the    *)
(* initial state they were given.  What reaches a part from another is in  *)
(* that part's own inputs (Workbook's staged inputs are the engines'       *)
(* books, Execution's native result is what an engine returned), so        *)
(* nothing is lost by taking them apart.                                   *)
(***************************************************************************)
EXTENDS MCCopilot, Narratives, MCOtEngine, MCItEngine, MCInsurance, MCWorkbook,
        MCOutsideIn, MCExecution

VARIABLE part   \* the part this behaviour is of

Parts == {"copilot", "narratives", "ot", "it", "insurance", "workbook",
          "outsidein", "execution"}

\* A part of several initial states rests in one of them.
PartsInit ==
  /\ part \in Parts
  /\ IF part = "workbook" THEN TRUE
     ELSE path = "direct" /\ book = CHOOSE b \in Workbooks : TRUE
  /\ IF part = "outsidein" THEN TRUE ELSE domain = "OT"
  /\ IF part = "execution" THEN TRUE
     ELSE /\ deployment = CHOOSE d \in Deployments : TRUE
          /\ operator = CHOOSE e \in Environments : TRUE
  /\ CopilotInit /\ NarrativeInit /\ OtInit /\ ItInit /\ InsInit
  /\ WorkbookInit /\ OiInit /\ ExecInit

AskCopilot ==
  /\ part = "copilot" /\ CopilotNext
  /\ UNCHANGED <<part, narrativeVars, otVars, itVars, insVars,
                        workbookVars, oiVars, execVars>>

Narrate ==
  /\ part = "narratives" /\ NarrativeNext
  /\ UNCHANGED <<part, copilotVars, otVars, itVars, insVars,
                        workbookVars, oiVars, execVars>>

RefreshOt ==
  /\ part = "ot" /\ OtNext
  /\ UNCHANGED <<part, copilotVars, narrativeVars, itVars, insVars,
                        workbookVars, oiVars, execVars>>

RefreshIt ==
  /\ part = "it" /\ ItNext
  /\ UNCHANGED <<part, copilotVars, narrativeVars, otVars, insVars,
                        workbookVars, oiVars, execVars>>

Insure ==
  /\ part = "insurance" /\ InsNext
  /\ UNCHANGED <<part, copilotVars, narrativeVars, otVars, itVars,
                        workbookVars, oiVars, execVars>>

RunWorkbook ==
  /\ part = "workbook" /\ WorkbookNext
  /\ UNCHANGED <<part, copilotVars, narrativeVars, otVars, itVars,
                        insVars, oiVars, execVars>>

ConditionWorkbook ==
  /\ part = "outsidein" /\ OiNext
  /\ UNCHANGED <<part, copilotVars, narrativeVars, otVars, itVars,
                        insVars, workbookVars, execVars>>

ServeRequest ==
  /\ part = "execution" /\ ExecNext
  /\ UNCHANGED <<part, copilotVars, narrativeVars, otVars, itVars,
                        insVars, workbookVars, oiVars>>

PartsNext ==
  \/ AskCopilot \/ Narrate \/ RefreshOt \/ RefreshIt \/ Insure \/ RunWorkbook
  \/ ConditionWorkbook \/ ServeRequest

PartsSpec == PartsInit /\ [][PartsNext]_<<part, copilotVars, narrativeVars, otVars, itVars,
                                             insVars, workbookVars, oiVars, execVars>>
==============================================================================
