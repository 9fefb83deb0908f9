------------------------------ MODULE Services ------------------------------
(***************************************************************************)
(* The services beside the shop's orders, which share no row with each     *)
(* other: incoming bank money (Intake), SMS numbers (SmsPool), Telegram    *)
(* updates with the flows they start (Bot), the payment pollers (Pollers), *)
(* the cart of a web customer (Cart) and the stock files of one product    *)
(* before they are sold (Inventory).  A behaviour is one of one of them,   *)
(* so that the state space is the sum of theirs and not the product.       *)
(***************************************************************************)
EXTENDS Intake, SmsPool, Bot, Pollers, Cart, Inventory

VARIABLE service   \* the one that runs

servicesVars == <<service, intakeVars, smsVars, botVars, pollersVars, cartVars,
                  inventoryVars>>

ServicesInit ==
  /\ service \in {"INTAKE", "SMS", "BOT", "POLLERS", "CART", "INVENTORY"}
  /\ IntakeInit /\ SmsInit /\ BotInit /\ PollersInit /\ CartInit
  /\ InventoryInit
  /\ service # "INTAKE" => provider = CHOOSE p \in Provider : TRUE
  /\ service # "BOT" => session = NoSession
  /\ service # "POLLERS" => source = (CHOOSE s \in Source : TRUE) /\ stranger = {}

ServicesNext ==
  /\ UNCHANGED service
  /\ \/ /\ service = "INTAKE"
        /\ UNCHANGED <<smsVars, botVars, pollersVars, cartVars, inventoryVars>>
        /\ IntakeNext
     \/ /\ service = "SMS"
        /\ UNCHANGED <<intakeVars, botVars, pollersVars, cartVars, inventoryVars>>
        /\ SmsNext
     \/ /\ service = "BOT"
        /\ UNCHANGED <<intakeVars, smsVars, pollersVars, cartVars, inventoryVars>>
        /\ BotNext
     \/ /\ service = "POLLERS"
        /\ UNCHANGED <<intakeVars, smsVars, botVars, cartVars, inventoryVars>>
        /\ PollersNext
     \/ /\ service = "CART"
        /\ UNCHANGED <<intakeVars, smsVars, botVars, pollersVars, inventoryVars>>
        /\ CartNext
     \/ /\ service = "INVENTORY"
        /\ UNCHANGED <<intakeVars, smsVars, botVars, pollersVars, cartVars>>
        /\ InventoryNext

ServicesSpec == ServicesInit /\ [][ServicesNext]_servicesVars

ServicesFairSpec ==
  ServicesSpec /\ IntakeFairness /\ SmsFairness /\ InventoryFairness

(* The variables of the service that runs hold what the code can write into *)
(* them; those of the others stay as they began.                            *)
ServicesTypeOK ==
  /\ service = "INTAKE" => IntakeTypeOK
  /\ service = "SMS" => SmsTypeOK
  /\ service = "BOT" => BotTypeOK
  /\ service = "POLLERS" => PollersTypeOK
  /\ service = "CART" => CartTypeOK
  /\ service = "INVENTORY" => InventoryTypeOK
==============================================================================
