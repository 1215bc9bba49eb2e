----------------------------- MODULE MCInvoicing -----------------------------
(***************************************************************************)
(* What the platform sends out: invoices, in the order of their numbers    *)
(* (Invoicing), and the mails of a campaign, in the order of its           *)
(* recipients (EmailCampaigns).  They share no row, so a behaviour is one  *)
(* of them.                                                                *)
(***************************************************************************)
EXTENDS Invoicing, FiniteSets

CONSTANTS Recipients, Batch, Runs, MaxFailures

(* Recipients are numbered in the order of their ids.                      *)
ASSUME CampaignAssumption ==
  /\ Recipients \subseteq Nat \ {0} /\ IsFiniteSet(Recipients)
  /\ Batch \in Nat \ {0} /\ MaxFailures \in Nat

VARIABLES focus,
          campaign, send, mailed, unmarked, overlapped, rearmed, runCall, runFailures

campaignVars ==
  <<campaign, send, mailed, unmarked, overlapped, rearmed, runCall, runFailures>>

focusVars == <<focus, vars, campaignVars>>

C == INSTANCE EmailCampaigns WITH
       Calls <- Runs, call <- runCall, failures <- runFailures

SendingInit ==
  /\ focus \in {"invoices", "campaign"}
  /\ Init /\ C!Init
  /\ focus # "campaign" => campaign.status = "DRAFT"

SendingNext ==
  /\ UNCHANGED focus
  /\ \/ focus = "invoices" /\ Next /\ UNCHANGED campaignVars
     \/ focus = "campaign" /\ C!Next /\ UNCHANGED vars

(* A run that has begun goes on: it is one loop of one process.            *)
SendingSpec ==
  /\ SendingInit /\ [][SendingNext]_focusVars
  /\ \A c \in Runs : WF_campaignVars(focus = "campaign" /\ C!Continue(c))

-----------------------------------------------------------------------------
(* The properties of EmailCampaigns, stated for the code there.            *)

(* A campaign mails every recipient it finishes with, nobody twice.        *)
OneMailEach == C!OneMailEach

(* A run that nothing stops finishes its campaign.                         *)
SendingEnds == C!SendingEnds
=============================================================================
