------------------------ MODULE MCLoraGatewayDriver ------------------------
(* Small instances of LoraGatewayDriver for TLC.                            *)
EXTENDS LoraGatewayDriver

SettingCalls == {"Start", "SetPowerSaveParam"}

AnyFate == {"answered", "unanswered", "lost"}
Reliable == {"answered"}

============================================================================
