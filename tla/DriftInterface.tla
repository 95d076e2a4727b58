--------------------------- MODULE DriftInterface ---------------------------
(***************************************************************************)
(* The checked-in interface of drift, examples/anchor/drift: what each of  *)
(* its types, accounts and instructions is generated from.                 *)
(***************************************************************************)
EXTENDS InterfaceNotation

-----------------------------------------------------------------------------
(* Types: typedefs.rs *)

PositionDirection == UnitEnum(2)
PostOnlyParam == UnitEnum(3)
OrderType == UnitEnum(5)
OrderTriggerCondition == UnitEnum(4)
MarketType == UnitEnum(2)
OrderParams == Struct(<<OrderType, MarketType, PositionDirection, u8, u64, u64, u16,
  Bool, PostOnlyParam, Bool, Option(i64), Option(u64), OrderTriggerCondition,
  Option(i32), Option(u8), Option(i64), Option(i64)>>)
ModifyOrderPolicy == UnitEnum(2)
ModifyOrderParams == Struct(<<Option(PositionDirection), Option(u64), Option(u64),
  Option(Bool), Option(PostOnlyParam), Option(Bool), Option(i64), Option(u64),
  Option(OrderTriggerCondition), Option(i32), Option(u8), Option(i64), Option(i64),
  Option(ModifyOrderPolicy)>>)
SpotFulfillmentType == UnitEnum(3)
SwapReduceOnly == UnitEnum(2)
OracleSource == UnitEnum(6)
SpotFulfillmentConfigStatus == UnitEnum(2)
MarketStatus == UnitEnum(9)
AssetTier == UnitEnum(5)
ContractTier == UnitEnum(5)
FeeTier == Struct(<<u32, u32, u32, u32, u32, u32, u32, u32>>)
OrderFillerRewardStructure == Struct(<<u32, u32, u128>>)
FeeStructure == Struct(<<Array(FeeTier, 10), OrderFillerRewardStructure, u64, u64>>)
PriceDivergenceGuardRails == Struct(<<u64, u64>>)
ValidityGuardRails == Struct(<<i64, i64, u64, i64>>)
OracleGuardRails == Struct(<<PriceDivergenceGuardRails, ValidityGuardRails>>)
InsuranceClaim == Struct(<<i64, u64, u64, u64, i64>>)
PoolBalance == Struct(<<u128, u16, Array(u8, 6)>>)
HistoricalOracleData == Struct(<<i64, u64, i64, i64, i64, i64>>)
AMM == Struct(<<Pubkey, HistoricalOracleData, i128, i128, PoolBalance, u128, u128, u128,
  u128, u128, u128, u128, u128, i128, i128, i128, i128, u128, i128, i128, i128, i128,
  i128, u128, i64, i64, i64, i64, i128, i128, u128, i128, u128, u128, i128, i128, u128,
  u128, u128, u128, u128, i64, i64, u64, u64, u64, u64, u64, u64, i64, i64, i64, u64,
  u64, u64, u64, u64, u64, u64, i64, u64, u64, i64, u32, u32, u32, u32, u32, u32, u16,
  u16, u8, u8, OracleSource, Bool, i32, Array(u8, 44)>>)
ContractType == UnitEnum(2)
HistoricalIndexData == Struct(<<u64, u64, u64, u64, i64>>)
InsuranceFund == Struct(<<Pubkey, u128, u128, u128, i64, i64, i64, u32, u32>>)
SpotBalanceType == UnitEnum(2)
SpotPosition == Struct(<<u64, i64, i64, i64, u16, SpotBalanceType, u8, Array(u8, 4)>>)
PerpPosition == Struct(<<i64, i64, i64, i64, i64, i64, i64, i64, u64, i64, i64, i32,
  u16, u8, Array(u8, 1)>>)
OrderStatus == UnitEnum(4)
Order == Struct(<<u64, u64, u64, u64, u64, u64, i64, i64, i64, i32, u32, u16,
  OrderStatus, OrderType, MarketType, u8, PositionDirection, PositionDirection, Bool,
  Bool, Bool, OrderTriggerCondition, u8, Array(u8, 3)>>)
UserStatus == UnitEnum(3)
UserFees == Struct(<<u64, u64, u64, u64, u64, u64>>)

-----------------------------------------------------------------------------
(* Accounts: accounts.rs *)

PhoenixV1FulfillmentConfigAccount == Account(<<233, 45, 62, 40, 35, 129, 48, 72>>, Struct(<<
  Pubkey, Pubkey, Pubkey, Pubkey, Pubkey, Pubkey, u16, SpotFulfillmentType,
  SpotFulfillmentConfigStatus, Array(u8, 4)>>))
SerumV3FulfillmentConfigAccount == Account(<<65, 160, 197, 112, 239, 168, 103, 185>>, Struct(<<
  Pubkey, Pubkey, Pubkey, Pubkey, Pubkey, Pubkey, Pubkey, Pubkey, Pubkey, Pubkey, u64,
  u16, SpotFulfillmentType, SpotFulfillmentConfigStatus, Array(u8, 4)>>))
InsuranceFundStakeAccount == Account(<<110, 202, 14, 42, 95, 73, 90, 95>>, Struct(<<
  Pubkey, u128, u128, u128, i64, u64, i64, i64, u16, Array(u8, 14)>>))
PerpMarketAccount == Account(<<10, 223, 12, 44, 107, 245, 55, 247>>, Struct(<<Pubkey,
  AMM, PoolBalance, Array(u8, 32), InsuranceClaim, u64, i64, i64, u64, u64, u64, u32,
  u32, u32, u32, u32, u32, u32, u32, u32, u32, u16, MarketStatus, ContractType,
  ContractTier, Bool, u16, Array(u8, 48)>>))
SpotMarketAccount == Account(<<100, 177, 8, 107, 168, 65, 65, 39>>, Struct(<<Pubkey,
  Pubkey, Pubkey, Pubkey, Array(u8, 32), HistoricalOracleData, HistoricalIndexData,
  PoolBalance, PoolBalance, InsuranceFund, u128, u128, u128, u128, u128, u128, u128,
  u64, u64, u64, u64, u64, u64, u64, i64, u64, u64, u64, u64, u64, u64, u32, u32, u32,
  u32, u32, u32, u32, u32, u32, u32, u32, u16, Bool, OracleSource, MarketStatus,
  AssetTier, Array(u8, 6), u64, u64, u64, Array(u8, 56)>>))
StateAccount == Account(<<216, 146, 107, 94, 104, 75, 182, 177>>, Struct(<<Pubkey,
  Pubkey, Pubkey, Pubkey, Pubkey, FeeStructure, FeeStructure, OracleGuardRails, u64,
  u64, u64, u32, u16, u16, u16, u8, u8, u8, u8, u8, u8, u16, Array(u8, 14)>>))
UserAccount == Account(<<159, 117, 95, 227, 239, 151, 58, 236>>, Struct(<<Pubkey,
  Pubkey, Array(u8, 32), Array(SpotPosition, 8), Array(PerpPosition, 8),
  Array(Order, 32), i64, u64, u64, u64, i64, i64, i64, u64, u64, u32, u32, u16, u16,
  UserStatus, Bool, Bool, u8, Bool, u8, Bool, Array(u8, 21)>>))
UserStatsAccount == Account(<<176, 223, 136, 27, 122, 79, 32, 227>>, Struct(<<Pubkey,
  Pubkey, UserFees, i64, u64, u64, u64, i64, i64, i64, u64, u16, u16, Bool,
  Array(u8, 51)>>))
ReferrerNameAccount == Account(<<105, 133, 170, 110, 52, 42, 28, 182>>, Struct(<<Pubkey,
  Pubkey, Pubkey, Array(u8, 32)>>))

Accounts == <<PhoenixV1FulfillmentConfigAccount, SerumV3FulfillmentConfigAccount,
  InsuranceFundStakeAccount, PerpMarketAccount, SpotMarketAccount, StateAccount,
  UserAccount, UserStatsAccount, ReferrerNameAccount>>

-----------------------------------------------------------------------------
(* Instructions: instructions.rs *)

initialize_user == Ix(<<111, 17, 185, 250, 60, 122, 38, 254>>,
  <<mut("user"), mut("user_stats"), mut("state"), sig("authority"), mutsig("payer"),
    ro("rent"), ro("system_program")>>,
  <<u16, Array(u8, 32)>>)
initialize_user_stats == Ix(<<254, 243, 72, 98, 251, 130, 168, 213>>,
  <<mut("user_stats"), mut("state"), sig("authority"), mutsig("payer"), ro("rent"),
    ro("system_program")>>,
  <<>>)
initialize_referrer_name == Ix(<<235, 126, 231, 10, 42, 164, 26, 61>>,
  <<mut("referrer_name"), mut("user"), mut("user_stats"), sig("authority"),
    mutsig("payer"), ro("rent"), ro("system_program")>>,
  <<Array(u8, 32)>>)
deposit == Ix(<<242, 35, 198, 137, 82, 225, 242, 182>>,
  <<ro("state"), mut("user"), mut("user_stats"), sig("authority"),
    mut("spot_market_vault"), mut("user_token_account"), ro("token_program")>>,
  <<u16, u64, Bool>>)
withdraw == Ix(<<183, 18, 70, 156, 148, 109, 161, 34>>,
  <<ro("state"), mut("user"), mut("user_stats"), sig("authority"),
    mut("spot_market_vault"), ro("drift_signer"), mut("user_token_account"),
    ro("token_program")>>,
  <<u16, u64, Bool>>)
transfer_deposit == Ix(<<20, 20, 147, 223, 41, 63, 204, 111>>,
  <<mut("from_user"), mut("to_user"), mut("user_stats"), sig("authority"), ro("state"),
    ro("spot_market_vault")>>,
  <<u16, u64>>)
place_perp_order == Ix(<<69, 161, 93, 202, 120, 126, 76, 185>>,
  <<ro("state"), mut("user"), sig("authority")>>, <<OrderParams>>)
cancel_order == Ix(<<95, 129, 237, 240, 8, 49, 223, 132>>,
  <<ro("state"), mut("user"), sig("authority")>>, <<Option(u32)>>)
cancel_order_by_user_id == Ix(<<107, 211, 250, 133, 18, 37, 57, 100>>,
  <<ro("state"), mut("user"), sig("authority")>>, <<u8>>)
cancel_orders == Ix(<<238, 225, 95, 158, 227, 103, 8, 194>>,
  <<ro("state"), mut("user"), sig("authority")>>,
  <<Option(MarketType), Option(u16), Option(PositionDirection)>>)
modify_order == Ix(<<47, 124, 117, 255, 201, 197, 130, 94>>,
  <<ro("state"), mut("user"), sig("authority")>>,
  <<Option(u32), ModifyOrderParams>>)
modify_order_by_user_id == Ix(<<158, 77, 4, 253, 252, 194, 161, 179>>,
  <<ro("state"), mut("user"), sig("authority")>>, <<u8, ModifyOrderParams>>)
place_and_take_perp_order == Ix(<<213, 51, 1, 187, 108, 220, 230, 224>>,
  <<ro("state"), mut("user"), mut("user_stats"), sig("authority")>>,
  <<OrderParams, Option(u32)>>)
place_and_make_perp_order == Ix(<<149, 117, 11, 237, 47, 95, 89, 237>>,
  <<ro("state"), mut("user"), mut("user_stats"), mut("taker"), mut("taker_stats"),
    sig("authority")>>,
  <<OrderParams, u32>>)
place_spot_order == Ix(<<45, 79, 81, 160, 248, 90, 91, 220>>,
  <<ro("state"), mut("user"), sig("authority")>>, <<OrderParams>>)
place_and_take_spot_order == Ix(<<191, 3, 138, 71, 114, 198, 202, 100>>,
  <<ro("state"), mut("user"), mut("user_stats"), sig("authority")>>,
  <<OrderParams, Option(SpotFulfillmentType), Option(u32)>>)
place_and_make_spot_order == Ix(<<149, 158, 85, 66, 239, 9, 243, 98>>,
  <<ro("state"), mut("user"), mut("user_stats"), mut("taker"), mut("taker_stats"),
    sig("authority")>>,
  <<OrderParams, u32, Option(SpotFulfillmentType)>>)
begin_swap == Ix(<<174, 109, 228, 1, 242, 105, 232, 105>>,
  <<ro("state"), mut("user"), mut("user_stats"), sig("authority"),
    mut("out_spot_market_vault"), mut("in_spot_market_vault"), mut("out_token_account"),
    mut("in_token_account"), ro("token_program"), ro("drift_signer"),
    ro("instructions")>>,
  <<u16, u16, u64>>)
end_swap == Ix(<<177, 184, 27, 193, 34, 13, 210, 145>>,
  <<ro("state"), mut("user"), mut("user_stats"), sig("authority"),
    mut("out_spot_market_vault"), mut("in_spot_market_vault"), mut("out_token_account"),
    mut("in_token_account"), ro("token_program"), ro("drift_signer"),
    ro("instructions")>>,
  <<u16, u16, Option(u64), Option(SwapReduceOnly)>>)
add_perp_lp_shares == Ix(<<56, 209, 56, 197, 119, 254, 188, 117>>,
  <<ro("state"), mut("user"), sig("authority")>>, <<u64, u16>>)
remove_perp_lp_shares == Ix(<<213, 89, 217, 18, 160, 55, 53, 141>>,
  <<ro("state"), mut("user"), sig("authority")>>, <<u64, u16>>)
remove_perp_lp_shares_in_expiring_market == Ix(<<83, 254, 253, 137, 59, 122, 68, 156>>,
  <<ro("state"), mut("user")>>, <<u64, u16>>)
update_user_name == Ix(<<135, 25, 185, 56, 165, 53, 34, 136>>,
  <<mut("user"), sig("authority")>>, <<u16, Array(u8, 32)>>)
update_user_custom_margin_ratio == Ix(<<21, 221, 140, 187, 32, 129, 11, 123>>,
  <<mut("user"), sig("authority")>>, <<u16, u32>>)
update_user_margin_trading_enabled == Ix(<<194, 92, 204, 223, 246, 188, 31, 203>>,
  <<mut("user"), sig("authority")>>, <<u16, Bool>>)
update_user_delegate == Ix(<<139, 205, 141, 141, 113, 36, 94, 187>>,
  <<mut("user"), sig("authority")>>, <<u16, Pubkey>>)
delete_user == Ix(<<186, 85, 17, 249, 219, 231, 98, 251>>,
  <<mut("user"), mut("user_stats"), mut("state"), sig("authority")>>, <<>>)
fill_perp_order == Ix(<<13, 188, 248, 103, 134, 217, 106, 240>>,
  <<ro("state"), sig("authority"), mut("filler"), mut("filler_stats"), mut("user"),
    mut("user_stats")>>,
  <<Option(u32), Option(u32)>>)
revert_fill == Ix(<<236, 238, 176, 69, 239, 10, 181, 193>>,
  <<ro("state"), sig("authority"), mut("filler"), mut("filler_stats")>>, <<>>)
fill_spot_order == Ix(<<212, 206, 130, 173, 21, 34, 199, 40>>,
  <<ro("state"), sig("authority"), mut("filler"), mut("filler_stats"), mut("user"),
    mut("user_stats")>>,
  <<Option(u32), Option(SpotFulfillmentType), Option(u32)>>)
trigger_order == Ix(<<63, 112, 51, 233, 232, 47, 240, 199>>,
  <<ro("state"), sig("authority"), mut("filler"), mut("user")>>, <<u32>>)
force_cancel_orders == Ix(<<64, 181, 196, 63, 222, 72, 64, 232>>,
  <<ro("state"), sig("authority"), mut("filler"), mut("user")>>, <<>>)
update_user_idle == Ix(<<253, 133, 67, 22, 103, 161, 20, 100>>,
  <<ro("state"), sig("authority"), mut("filler"), mut("user")>>, <<>>)
update_user_open_orders_count == Ix(<<104, 39, 65, 210, 250, 163, 100, 134>>,
  <<ro("state"), sig("authority"), mut("filler"), mut("user")>>, <<>>)
settle_pnl == Ix(<<43, 61, 234, 45, 15, 95, 152, 153>>,
  <<ro("state"), mut("user"), sig("authority"), ro("spot_market_vault")>>, <<u16>>)
settle_funding_payment == Ix(<<222, 90, 202, 94, 28, 45, 115, 183>>,
  <<ro("state"), mut("user")>>, <<>>)
settle_lp == Ix(<<155, 231, 116, 113, 97, 229, 139, 141>>,
  <<ro("state"), mut("user")>>, <<u16>>)
settle_expired_market == Ix(<<120, 89, 11, 25, 122, 77, 72, 193>>,
  <<ro("state"), sig("authority")>>, <<u16>>)
liquidate_perp == Ix(<<75, 35, 119, 247, 191, 18, 139, 2>>,
  <<ro("state"), sig("authority"), mut("liquidator"), mut("liquidator_stats"),
    mut("user"), mut("user_stats")>>,
  <<u16, u64, Option(u64)>>)
liquidate_spot == Ix(<<107, 0, 128, 41, 35, 229, 251, 18>>,
  <<ro("state"), sig("authority"), mut("liquidator"), mut("liquidator_stats"),
    mut("user"), mut("user_stats")>>,
  <<u16, u16, u128, Option(u64)>>)
liquidate_borrow_for_perp_pnl == Ix(<<169, 17, 32, 90, 207, 148, 209, 27>>,
  <<ro("state"), sig("authority"), mut("liquidator"), mut("liquidator_stats"),
    mut("user"), mut("user_stats")>>,
  <<u16, u16, u128, Option(u64)>>)
liquidate_perp_pnl_for_deposit == Ix(<<237, 75, 198, 235, 233, 186, 75, 35>>,
  <<ro("state"), sig("authority"), mut("liquidator"), mut("liquidator_stats"),
    mut("user"), mut("user_stats")>>,
  <<u16, u16, u128, Option(u64)>>)
resolve_perp_pnl_deficit == Ix(<<168, 204, 68, 150, 159, 126, 95, 148>>,
  <<ro("state"), sig("authority"), mut("spot_market_vault"),
    mut("insurance_fund_vault"), ro("drift_signer"), ro("token_program")>>,
  <<u16, u16>>)
resolve_perp_bankruptcy == Ix(<<224, 16, 176, 214, 162, 213, 183, 222>>,
  <<ro("state"), sig("authority"), mut("liquidator"), mut("liquidator_stats"),
    mut("user"), mut("user_stats"), mut("spot_market_vault"),
    mut("insurance_fund_vault"), ro("drift_signer"), ro("token_program")>>,
  <<u16, u16>>)
resolve_spot_bankruptcy == Ix(<<124, 194, 240, 254, 198, 213, 52, 122>>,
  <<ro("state"), sig("authority"), mut("liquidator"), mut("liquidator_stats"),
    mut("user"), mut("user_stats"), mut("spot_market_vault"),
    mut("insurance_fund_vault"), ro("drift_signer"), ro("token_program")>>,
  <<u16>>)
settle_revenue_to_insurance_fund == Ix(<<200, 120, 93, 136, 69, 38, 199, 159>>,
  <<ro("state"), mut("spot_market"), mut("spot_market_vault"), ro("drift_signer"),
    mut("insurance_fund_vault"), ro("token_program")>>,
  <<u16>>)
update_funding_rate == Ix(<<201, 178, 116, 212, 166, 144, 72, 238>>,
  <<ro("state"), mut("perp_market"), ro("oracle")>>, <<u16>>)
update_spot_market_cumulative_interest == Ix(<<39, 166, 139, 243, 158, 165, 155, 225>>,
  <<ro("state"), mut("spot_market"), ro("oracle")>>, <<>>)
update_amms == Ix(<<201, 106, 217, 253, 4, 175, 228, 97>>,
  <<ro("state"), sig("authority")>>, <<Array(u16, 5)>>)
update_spot_market_expiry == Ix(<<208, 11, 211, 159, 226, 24, 11, 247>>,
  <<sig("admin"), ro("state"), mut("spot_market")>>, <<i64>>)
update_user_quote_asset_insurance_stake == Ix(<<251, 101, 156, 7, 2, 63, 30, 23>>,
  <<ro("state"), ro("spot_market"), mut("insurance_fund_stake"), mut("user_stats"),
    sig("authority"), mut("insurance_fund_vault")>>,
  <<>>)
initialize_insurance_fund_stake == Ix(<<187, 179, 243, 70, 248, 90, 92, 147>>,
  <<ro("spot_market"), mut("insurance_fund_stake"), mut("user_stats"), ro("state"),
    sig("authority"), mutsig("payer"), ro("rent"), ro("system_program")>>,
  <<u16>>)
add_insurance_fund_stake == Ix(<<251, 144, 115, 11, 222, 47, 62, 236>>,
  <<ro("state"), ro("spot_market"), mut("insurance_fund_stake"), mut("user_stats"),
    sig("authority"), mut("spot_market_vault"), mut("insurance_fund_vault"),
    ro("drift_signer"), mut("user_token_account"), ro("token_program")>>,
  <<u16, u64>>)
request_remove_insurance_fund_stake == Ix(<<142, 70, 204, 92, 73, 106, 180, 52>>,
  <<ro("spot_market"), mut("insurance_fund_stake"), mut("user_stats"), sig("authority"),
    mut("insurance_fund_vault")>>,
  <<u16, u64>>)
cancel_request_remove_insurance_fund_stake == Ix(<<97, 235, 78, 62, 212, 42, 241, 127>>,
  <<ro("spot_market"), mut("insurance_fund_stake"), mut("user_stats"), sig("authority"),
    mut("insurance_fund_vault")>>,
  <<u16>>)
remove_insurance_fund_stake == Ix(<<128, 166, 142, 9, 254, 187, 143, 174>>,
  <<ro("state"), ro("spot_market"), mut("insurance_fund_stake"), mut("user_stats"),
    sig("authority"), mut("insurance_fund_vault"), ro("drift_signer"),
    mut("user_token_account"), ro("token_program")>>,
  <<u16>>)
initialize == Ix(<<175, 175, 109, 31, 13, 152, 155, 237>>,
  <<mutsig("admin"), mut("state"), ro("quote_asset_mint"), ro("drift_signer"),
    ro("rent"), ro("system_program"), ro("token_program")>>,
  <<>>)
initialize_spot_market == Ix(<<234, 196, 128, 44, 94, 15, 48, 201>>,
  <<mut("spot_market"), ro("spot_market_mint"), mut("spot_market_vault"),
    mut("insurance_fund_vault"), ro("drift_signer"), mut("state"), ro("oracle"),
    mutsig("admin"), ro("rent"), ro("system_program"), ro("token_program")>>,
  <<u32, u32, u32, OracleSource, u32, u32, u32, u32, u32, u32, Bool, Array(u8, 32)>>)
initialize_serum_fulfillment_config == Ix(<<193, 211, 132, 172, 70, 171, 7, 94>>,
  <<ro("base_spot_market"), ro("quote_spot_market"), mut("state"), ro("serum_program"),
    ro("serum_market"), mut("serum_open_orders"), ro("drift_signer"),
    mut("serum_fulfillment_config"), mutsig("admin"), ro("rent"),
    ro("system_program")>>,
  <<u16>>)
update_serum_fulfillment_config_status == Ix(<<171, 109, 240, 251, 95, 1, 149, 89>>,
  <<ro("state"), mut("serum_fulfillment_config"), mutsig("admin")>>,
  <<SpotFulfillmentConfigStatus>>)
initialize_phoenix_fulfillment_config == Ix(<<135, 132, 110, 107, 185, 160, 169, 154>>,
  <<ro("base_spot_market"), ro("quote_spot_market"), mut("state"),
    ro("phoenix_program"), ro("phoenix_market"), ro("drift_signer"),
    mut("phoenix_fulfillment_config"), mutsig("admin"), ro("rent"),
    ro("system_program")>>,
  <<u16>>)
phoenix_fulfillment_config_status == Ix(<<96, 31, 113, 32, 12, 203, 7, 154>>,
  <<ro("state"), mut("phoenix_fulfillment_config"), mutsig("admin")>>,
  <<SpotFulfillmentConfigStatus>>)
update_serum_vault == Ix(<<219, 8, 246, 96, 169, 121, 91, 110>>,
  <<mut("state"), mutsig("admin"), ro("srm_vault")>>, <<>>)
initialize_perp_market == Ix(<<132, 9, 229, 118, 117, 118, 117, 62>>,
  <<mutsig("admin"), mut("state"), mut("perp_market"), ro("oracle"), ro("rent"),
    ro("system_program")>>,
  <<u16, u128, u128, i64, u128, OracleSource, u32, u32, u32, Bool, Array(u8, 32)>>)
delete_initialized_perp_market == Ix(<<91, 154, 24, 87, 106, 59, 190, 66>>,
  <<mutsig("admin"), mut("state"), mut("perp_market")>>, <<u16>>)
move_amm_price == Ix(<<235, 109, 2, 82, 219, 118, 6, 159>>,
  <<sig("admin"), ro("state"), mut("perp_market")>>, <<u128, u128, u128>>)
update_perp_market_expiry == Ix(<<44, 221, 227, 151, 131, 140, 22, 110>>,
  <<sig("admin"), ro("state"), mut("perp_market")>>, <<i64>>)
settle_expired_market_pools_to_revenue_pool == Ix(<<55, 19, 238, 169, 227, 90, 200, 184>>,
  <<ro("state"), sig("admin"), mut("spot_market"), mut("perp_market")>>, <<>>)
deposit_into_perp_market_fee_pool == Ix(<<34, 58, 57, 68, 97, 80, 244, 6>>,
  <<mut("state"), mut("perp_market"), sig("admin"), mut("source_vault"),
    ro("drift_signer"), mut("quote_spot_market"), mut("spot_market_vault"),
    ro("token_program")>>,
  <<u64>>)
repeg_amm_curve == Ix(<<3, 36, 102, 89, 180, 128, 120, 213>>,
  <<ro("state"), mut("perp_market"), ro("oracle"), sig("admin")>>, <<u128>>)
update_perp_market_amm_oracle_twap == Ix(<<241, 74, 114, 123, 206, 153, 24, 202>>,
  <<ro("state"), mut("perp_market"), ro("oracle"), sig("admin")>>, <<>>)
reset_perp_market_amm_oracle_twap == Ix(<<127, 10, 55, 164, 123, 226, 47, 24>>,
  <<ro("state"), mut("perp_market"), ro("oracle"), sig("admin")>>, <<>>)
update_k == Ix(<<72, 98, 9, 139, 129, 229, 172, 56>>,
  <<sig("admin"), ro("state"), mut("perp_market"), ro("oracle")>>, <<u128>>)
update_perp_market_margin_ratio == Ix(<<130, 173, 107, 45, 119, 105, 26, 113>>,
  <<sig("admin"), ro("state"), mut("perp_market")>>, <<u32, u32>>)
update_perp_market_max_imbalances == Ix(<<15, 206, 73, 133, 60, 8, 86, 89>>,
  <<sig("admin"), ro("state"), mut("perp_market")>>, <<u64, u64, u64>>)
update_perp_market_liquidation_fee == Ix(<<90, 137, 9, 145, 41, 8, 148, 117>>,
  <<sig("admin"), ro("state"), mut("perp_market")>>, <<u32, u32>>)
update_insurance_fund_unstaking_period == Ix(<<44, 69, 43, 226, 204, 223, 202, 52>>,
  <<sig("admin"), ro("state"), mut("spot_market")>>, <<i64>>)
update_spot_market_liquidation_fee == Ix(<<11, 13, 255, 53, 56, 136, 104, 177>>,
  <<sig("admin"), ro("state"), mut("spot_market")>>, <<u32, u32>>)
update_withdraw_guard_threshold == Ix(<<56, 18, 39, 61, 155, 211, 44, 133>>,
  <<sig("admin"), ro("state"), mut("spot_market")>>, <<u64>>)
update_spot_market_if_factor == Ix(<<147, 30, 224, 34, 18, 230, 105, 4>>,
  <<sig("admin"), ro("state"), mut("spot_market")>>, <<u16, u32, u32>>)
update_spot_market_revenue_settle_period == Ix(<<81, 92, 126, 41, 250, 225, 156, 219>>,
  <<sig("admin"), ro("state"), mut("spot_market")>>, <<i64>>)
update_spot_market_status == Ix(<<78, 94, 16, 188, 193, 110, 231, 31>>,
  <<sig("admin"), ro("state"), mut("spot_market")>>, <<MarketStatus>>)
update_spot_market_asset_tier == Ix(<<253, 209, 231, 14, 242, 208, 243, 130>>,
  <<sig("admin"), ro("state"), mut("spot_market")>>, <<AssetTier>>)
update_spot_market_margin_weights == Ix(<<109, 33, 87, 195, 255, 36, 6, 81>>,
  <<sig("admin"), ro("state"), mut("spot_market")>>, <<u32, u32, u32, u32, u32>>)
update_spot_market_borrow_rate == Ix(<<71, 239, 236, 153, 210, 62, 254, 76>>,
  <<sig("admin"), ro("state"), mut("spot_market")>>, <<u32, u32, u32>>)
update_spot_market_max_token_deposits == Ix(<<56, 191, 79, 18, 26, 121, 80, 208>>,
  <<sig("admin"), ro("state"), mut("spot_market")>>, <<u64>>)
update_spot_market_oracle == Ix(<<114, 184, 102, 37, 246, 186, 180, 99>>,
  <<sig("admin"), ro("state"), mut("spot_market"), ro("oracle")>>,
  <<Pubkey, OracleSource>>)
update_spot_market_step_size_and_tick_size == Ix(<<238, 153, 137, 80, 206, 59, 250, 61>>,
  <<sig("admin"), ro("state"), mut("spot_market")>>, <<u64, u64>>)
update_spot_market_min_order_size == Ix(<<93, 128, 11, 119, 26, 20, 181, 50>>,
  <<sig("admin"), ro("state"), mut("spot_market")>>, <<u64>>)
update_spot_market_orders_enabled == Ix(<<190, 79, 206, 15, 26, 229, 229, 43>>,
  <<sig("admin"), ro("state"), mut("spot_market")>>, <<Bool>>)
update_spot_market_name == Ix(<<17, 208, 1, 1, 162, 211, 188, 224>>,
  <<sig("admin"), ro("state"), mut("spot_market")>>, <<Array(u8, 32)>>)
update_perp_market_status == Ix(<<71, 201, 175, 122, 255, 207, 196, 207>>,
  <<sig("admin"), ro("state"), mut("perp_market")>>, <<MarketStatus>>)
update_perp_market_contract_tier == Ix(<<236, 128, 15, 95, 203, 214, 68, 117>>,
  <<sig("admin"), ro("state"), mut("perp_market")>>, <<ContractTier>>)
update_perp_market_imf_factor == Ix(<<207, 194, 56, 132, 35, 67, 71, 244>>,
  <<sig("admin"), ro("state"), mut("perp_market")>>, <<u32, u32>>)
update_perp_market_unrealized_asset_weight == Ix(<<135, 132, 205, 165, 109, 150, 166, 106>>,
  <<sig("admin"), ro("state"), mut("perp_market")>>, <<u32, u32>>)
update_perp_market_concentration_coef == Ix(<<24, 78, 232, 126, 169, 176, 230, 16>>,
  <<sig("admin"), ro("state"), mut("perp_market")>>, <<u128>>)
update_perp_market_curve_update_intensity == Ix(<<50, 131, 6, 156, 226, 231, 189, 72>>,
  <<sig("admin"), ro("state"), mut("perp_market")>>, <<u8>>)
update_perp_market_target_base_asset_amount_per_lp == Ix(<<62, 87, 68, 115, 29, 150, 150, 165>>,
  <<sig("admin"), ro("state"), mut("perp_market")>>, <<i32>>)
update_lp_cooldown_time == Ix(<<198, 133, 88, 41, 241, 119, 61, 14>>,
  <<sig("admin"), mut("state")>>, <<u64>>)
update_perp_fee_structure == Ix(<<23, 178, 111, 203, 73, 22, 140, 75>>,
  <<sig("admin"), mut("state")>>, <<FeeStructure>>)
update_spot_fee_structure == Ix(<<97, 216, 105, 131, 113, 246, 142, 141>>,
  <<sig("admin"), mut("state")>>, <<FeeStructure>>)
update_initial_pct_to_liquidate == Ix(<<210, 133, 225, 128, 194, 50, 13, 109>>,
  <<sig("admin"), mut("state")>>, <<u16>>)
update_liquidation_duration == Ix(<<28, 154, 20, 249, 102, 192, 73, 71>>,
  <<sig("admin"), mut("state")>>, <<u8>>)
update_oracle_guard_rails == Ix(<<131, 112, 10, 59, 32, 54, 40, 164>>,
  <<sig("admin"), mut("state")>>, <<OracleGuardRails>>)
update_state_settlement_duration == Ix(<<97, 68, 199, 235, 131, 80, 61, 173>>,
  <<sig("admin"), mut("state")>>, <<u16>>)
update_perp_market_oracle == Ix(<<182, 113, 111, 160, 67, 174, 89, 191>>,
  <<ro("state"), mut("perp_market"), ro("oracle"), sig("admin")>>,
  <<Pubkey, OracleSource>>)
update_perp_market_base_spread == Ix(<<71, 95, 84, 168, 9, 157, 198, 65>>,
  <<sig("admin"), ro("state"), mut("perp_market")>>, <<u32>>)
update_amm_jit_intensity == Ix(<<181, 191, 53, 109, 166, 249, 55, 142>>,
  <<sig("admin"), ro("state"), mut("perp_market")>>, <<u8>>)
update_perp_market_max_spread == Ix(<<80, 252, 122, 62, 40, 218, 91, 100>>,
  <<sig("admin"), ro("state"), mut("perp_market")>>, <<u32>>)
update_perp_market_step_size_and_tick_size == Ix(<<231, 255, 97, 25, 146, 139, 174, 4>>,
  <<sig("admin"), ro("state"), mut("perp_market")>>, <<u64, u64>>)
update_perp_market_name == Ix(<<211, 31, 21, 210, 64, 108, 66, 201>>,
  <<sig("admin"), ro("state"), mut("perp_market")>>, <<Array(u8, 32)>>)
update_perp_market_min_order_size == Ix(<<226, 74, 5, 89, 108, 223, 46, 141>>,
  <<sig("admin"), ro("state"), mut("perp_market")>>, <<u64>>)
update_perp_market_max_slippage_ratio == Ix(<<235, 37, 40, 196, 70, 146, 54, 201>>,
  <<sig("admin"), ro("state"), mut("perp_market")>>, <<u16>>)
update_perp_market_max_fill_reserve_fraction == Ix(<<19, 172, 114, 154, 42, 135, 161, 133>>,
  <<sig("admin"), ro("state"), mut("perp_market")>>, <<u16>>)
update_perp_market_max_open_interest == Ix(<<194, 79, 149, 224, 246, 102, 186, 140>>,
  <<sig("admin"), ro("state"), mut("perp_market")>>, <<u128>>)
update_admin == Ix(<<161, 176, 40, 213, 60, 184, 179, 228>>,
  <<sig("admin"), mut("state")>>, <<Pubkey>>)
update_whitelist_mint == Ix(<<161, 15, 162, 19, 148, 120, 144, 151>>,
  <<sig("admin"), mut("state")>>, <<Pubkey>>)
update_discount_mint == Ix(<<32, 252, 122, 211, 66, 31, 47, 241>>,
  <<sig("admin"), mut("state")>>, <<Pubkey>>)
update_exchange_status == Ix(<<83, 160, 252, 250, 129, 116, 49, 223>>,
  <<sig("admin"), mut("state")>>, <<u8>>)
update_perp_auction_duration == Ix(<<126, 110, 52, 174, 30, 206, 215, 90>>,
  <<sig("admin"), mut("state")>>, <<u8>>)
update_spot_auction_duration == Ix(<<182, 178, 203, 72, 187, 143, 157, 107>>,
  <<sig("admin"), mut("state")>>, <<u8>>)
admin_remove_insurance_fund_stake == Ix(<<35, 13, 111, 220, 103, 217, 174, 115>>,
  <<sig("admin"), ro("state"), ro("spot_market"), mut("insurance_fund_vault"),
    ro("drift_signer"), mut("admin_token_account"), ro("token_program")>>,
  <<u16, u64>>)

(* The variants of DriftProgramIx, in the order of its match arms. *)
DriftProgramIx == <<initialize_user, initialize_user_stats, initialize_referrer_name,
  deposit, withdraw, transfer_deposit, place_perp_order, cancel_order,
  cancel_order_by_user_id, cancel_orders, modify_order, modify_order_by_user_id,
  place_and_take_perp_order, place_and_make_perp_order, place_spot_order,
  place_and_take_spot_order, place_and_make_spot_order, begin_swap, end_swap,
  add_perp_lp_shares, remove_perp_lp_shares, remove_perp_lp_shares_in_expiring_market,
  update_user_name, update_user_custom_margin_ratio, update_user_margin_trading_enabled,
  update_user_delegate, delete_user, fill_perp_order, revert_fill, fill_spot_order,
  trigger_order, force_cancel_orders, update_user_idle, update_user_open_orders_count,
  settle_pnl, settle_funding_payment, settle_lp, settle_expired_market, liquidate_perp,
  liquidate_spot, liquidate_borrow_for_perp_pnl, liquidate_perp_pnl_for_deposit,
  resolve_perp_pnl_deficit, resolve_perp_bankruptcy, resolve_spot_bankruptcy,
  settle_revenue_to_insurance_fund, update_funding_rate,
  update_spot_market_cumulative_interest, update_amms, update_spot_market_expiry,
  update_user_quote_asset_insurance_stake, initialize_insurance_fund_stake,
  add_insurance_fund_stake, request_remove_insurance_fund_stake,
  cancel_request_remove_insurance_fund_stake, remove_insurance_fund_stake, initialize,
  initialize_spot_market, initialize_serum_fulfillment_config,
  update_serum_fulfillment_config_status, initialize_phoenix_fulfillment_config,
  phoenix_fulfillment_config_status, update_serum_vault, initialize_perp_market,
  delete_initialized_perp_market, move_amm_price, update_perp_market_expiry,
  settle_expired_market_pools_to_revenue_pool, deposit_into_perp_market_fee_pool,
  repeg_amm_curve, update_perp_market_amm_oracle_twap,
  reset_perp_market_amm_oracle_twap, update_k, update_perp_market_margin_ratio,
  update_perp_market_max_imbalances, update_perp_market_liquidation_fee,
  update_insurance_fund_unstaking_period, update_spot_market_liquidation_fee,
  update_withdraw_guard_threshold, update_spot_market_if_factor,
  update_spot_market_revenue_settle_period, update_spot_market_status,
  update_spot_market_asset_tier, update_spot_market_margin_weights,
  update_spot_market_borrow_rate, update_spot_market_max_token_deposits,
  update_spot_market_oracle, update_spot_market_step_size_and_tick_size,
  update_spot_market_min_order_size, update_spot_market_orders_enabled,
  update_spot_market_name, update_perp_market_status, update_perp_market_contract_tier,
  update_perp_market_imf_factor, update_perp_market_unrealized_asset_weight,
  update_perp_market_concentration_coef, update_perp_market_curve_update_intensity,
  update_perp_market_target_base_asset_amount_per_lp, update_lp_cooldown_time,
  update_perp_fee_structure, update_spot_fee_structure, update_initial_pct_to_liquidate,
  update_liquidation_duration, update_oracle_guard_rails,
  update_state_settlement_duration, update_perp_market_oracle,
  update_perp_market_base_spread, update_amm_jit_intensity,
  update_perp_market_max_spread, update_perp_market_step_size_and_tick_size,
  update_perp_market_name, update_perp_market_min_order_size,
  update_perp_market_max_slippage_ratio, update_perp_market_max_fill_reserve_fraction,
  update_perp_market_max_open_interest, update_admin, update_whitelist_mint,
  update_discount_mint, update_exchange_status, update_perp_auction_duration,
  update_spot_auction_duration, admin_remove_insurance_fund_stake>>
=============================================================================
