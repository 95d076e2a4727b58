-------------------------- MODULE MarinadeInterface -------------------------
(***************************************************************************)
(* The checked-in interface of marinade_finance, examples/anchor/marinade. *)
(* The accounts of its groups have fields here: see the run inner_accounts.*)
(***************************************************************************)
EXTENDS InterfaceNotation

-----------------------------------------------------------------------------
(* Types: typedefs.rs *)

Fee == Struct(<<u32>>)
LiqPoolInitializeData == Struct(<<u64, Fee, Fee, Fee>>)
InitializeData == Struct(<<Pubkey, Pubkey, u64, Fee, LiqPoolInitializeData, u32, u32,
  u64>>)
ChangeAuthorityData == Struct(<<Option(Pubkey), Option(Pubkey), Option(Pubkey),
  Option(Pubkey)>>)
ConfigMarinadeParams == Struct(<<Option(Fee), Option(u64), Option(u64), Option(u64),
  Option(u64), Option(u64), Option(u64), Option(Bool)>>)
LiqPool == Struct(<<Pubkey, u8, u8, u8, Pubkey, u64, Fee, Fee, Fee, u64, u64, u64>>)
List == Struct(<<Pubkey, u32, u32, Pubkey, u32>>)
StakeSystem == Struct(<<List, u64, u8, u8, u64, u64, u64, u32>>)
ValidatorSystem == Struct(<<List, Pubkey, u32, u64, u8>>)

-----------------------------------------------------------------------------
(* Accounts: accounts.rs *)

StateAccount == Account(<<216, 146, 107, 94, 104, 75, 182, 177>>, Struct(<<Pubkey,
  Pubkey, Pubkey, Pubkey, u8, u8, u64, Fee, StakeSystem, ValidatorSystem, LiqPool, u64,
  u64, u64, u64, u64, u64, u64, u64, u64, u64>>))
TicketAccountDataAccount == Account(<<133, 77, 18, 98, 211, 1, 231, 3>>, Struct(<<
  Pubkey, Pubkey, u64, u64>>))

Accounts == <<StateAccount, TicketAccountDataAccount>>

-----------------------------------------------------------------------------
(* Instructions: instructions.rs *)

initialize == Ix(<<175, 175, 109, 31, 13, 152, 155, 237>>,
  <<sig("creator_authority"), mut("state"), ro("reserve_pda"), mut("stake_list"),
    mut("validator_list"), ro("msol_mint"), ro("operational_sol_account"),
    ro("liq_pool_lp_mint"), ro("liq_pool_sol_leg_pda"), ro("liq_pool_msol_leg"),
    ro("treasury_msol_account"), ro("clock"), ro("rent")>>,
  <<InitializeData>>)
change_authority == Ix(<<50, 106, 66, 104, 99, 118, 145, 88>>,
  <<mut("state"), sig("admin_authority")>>, <<ChangeAuthorityData>>)
add_validator == Ix(<<250, 113, 53, 54, 141, 117, 215, 185>>,
  <<mut("state"), sig("manager_authority"), mut("validator_list"), ro("validator_vote"),
    mut("duplication_flag"), mutsig("rent_payer"), ro("clock"), ro("rent"),
    ro("system_program")>>,
  <<u32>>)
remove_validator == Ix(<<25, 96, 211, 155, 161, 14, 168, 188>>,
  <<mut("state"), sig("manager_authority"), mut("validator_list"),
    mut("duplication_flag"), mut("operational_sol_account")>>,
  <<u32, Pubkey>>)
set_validator_score == Ix(<<101, 41, 206, 33, 216, 111, 25, 78>>,
  <<mut("state"), sig("manager_authority"), mut("validator_list")>>,
  <<u32, Pubkey, u32>>)
config_validator_system == Ix(<<27, 90, 97, 209, 17, 115, 7, 40>>,
  <<mut("state"), sig("manager_authority")>>, <<u32>>)
deposit == Ix(<<242, 35, 198, 137, 82, 225, 242, 182>>,
  <<mut("state"), mut("msol_mint"), mut("liq_pool_sol_leg_pda"),
    mut("liq_pool_msol_leg"), ro("liq_pool_msol_leg_authority"), mut("reserve_pda"),
    mutsig("transfer_from"), mut("mint_to"), ro("msol_mint_authority"),
    ro("system_program"), ro("token_program")>>,
  <<u64>>)
deposit_stake_account == Ix(<<110, 130, 115, 41, 164, 102, 2, 59>>,
  <<mut("state"), mut("validator_list"), mut("stake_list"), mut("stake_account"),
    sig("stake_authority"), mut("duplication_flag"), mutsig("rent_payer"),
    mut("msol_mint"), mut("mint_to"), ro("msol_mint_authority"), ro("clock"),
    ro("rent"), ro("system_program"), ro("token_program"), ro("stake_program")>>,
  <<u32>>)
liquid_unstake == Ix(<<30, 30, 119, 240, 191, 227, 12, 16>>,
  <<mut("state"), mut("msol_mint"), mut("liq_pool_sol_leg_pda"),
    mut("liq_pool_msol_leg"), mut("treasury_msol_account"), mut("get_msol_from"),
    sig("get_msol_from_authority"), mut("transfer_sol_to"), ro("system_program"),
    ro("token_program")>>,
  <<u64>>)
add_liquidity == Ix(<<181, 157, 89, 67, 143, 182, 52, 72>>,
  <<mut("state"), mut("lp_mint"), ro("lp_mint_authority"), ro("liq_pool_msol_leg"),
    mut("liq_pool_sol_leg_pda"), mutsig("transfer_from"), mut("mint_to"),
    ro("system_program"), ro("token_program")>>,
  <<u64>>)
remove_liquidity == Ix(<<80, 85, 209, 72, 24, 206, 177, 108>>,
  <<mut("state"), mut("lp_mint"), mut("burn_from"), sig("burn_from_authority"),
    mut("transfer_sol_to"), mut("transfer_msol_to"), mut("liq_pool_sol_leg_pda"),
    mut("liq_pool_msol_leg"), ro("liq_pool_msol_leg_authority"), ro("system_program"),
    ro("token_program")>>,
  <<u64>>)
set_lp_params == Ix(<<227, 163, 242, 45, 79, 203, 106, 44>>,
  <<mut("state"), sig("admin_authority")>>, <<Fee, Fee, u64>>)
config_marinade == Ix(<<67, 3, 34, 114, 190, 185, 17, 62>>,
  <<mut("state"), sig("admin_authority")>>, <<ConfigMarinadeParams>>)
order_unstake == Ix(<<97, 167, 144, 107, 117, 190, 128, 36>>,
  <<mut("state"), mut("msol_mint"), mut("burn_msol_from"), sig("burn_msol_authority"),
    mut("new_ticket_account"), ro("clock"), ro("rent"), ro("token_program")>>,
  <<u64>>)
claim == Ix(<<62, 198, 214, 193, 213, 159, 108, 210>>,
  <<mut("state"), mut("reserve_pda"), mut("ticket_account"), mut("transfer_sol_to"),
    ro("clock"), ro("system_program")>>,
  <<>>)
stake_reserve == Ix(<<87, 217, 23, 179, 205, 25, 113, 129>>,
  <<mut("state"), mut("validator_list"), mut("stake_list"), mut("validator_vote"),
    mut("reserve_pda"), mut("stake_account"), ro("stake_deposit_authority"),
    ro("clock"), ro("epoch_schedule"), ro("rent"), ro("stake_history"),
    ro("stake_config"), ro("system_program"), ro("stake_program")>>,
  <<u32>>)
update_active == Ix(<<4, 67, 81, 64, 136, 245, 93, 152>>,
  <<mut("common_state"), mut("common_stake_list"), mut("common_stake_account"),
    ro("common_stake_withdraw_authority"), mut("common_reserve_pda"),
    mut("common_msol_mint"), ro("common_msol_mint_authority"),
    mut("common_treasury_msol_account"), ro("common_clock"), ro("common_stake_history"),
    ro("common_stake_program"), ro("common_token_program"), mut("validator_list")>>,
  <<u32, u32>>)
update_deactivated == Ix(<<16, 232, 131, 115, 156, 100, 239, 50>>,
  <<mut("common_state"), mut("common_stake_list"), mut("common_stake_account"),
    ro("common_stake_withdraw_authority"), mut("common_reserve_pda"),
    mut("common_msol_mint"), ro("common_msol_mint_authority"),
    mut("common_treasury_msol_account"), ro("common_clock"), ro("common_stake_history"),
    ro("common_stake_program"), ro("common_token_program"),
    mut("operational_sol_account"), ro("system_program")>>,
  <<u32>>)
deactivate_stake == Ix(<<165, 158, 229, 97, 168, 220, 187, 225>>,
  <<mut("state"), ro("reserve_pda"), mut("validator_list"), mut("stake_list"),
    mut("stake_account"), ro("stake_deposit_authority"), mutsig("split_stake_account"),
    mutsig("split_stake_rent_payer"), ro("clock"), ro("rent"), ro("epoch_schedule"),
    ro("stake_history"), ro("system_program"), ro("stake_program")>>,
  <<u32, u32>>)
emergency_unstake == Ix(<<123, 69, 168, 195, 183, 213, 199, 214>>,
  <<mut("state"), sig("validator_manager_authority"), mut("validator_list"),
    mut("stake_list"), mut("stake_account"), ro("stake_deposit_authority"), ro("clock"),
    ro("stake_program")>>,
  <<u32, u32>>)
merge_stakes == Ix(<<216, 36, 141, 225, 243, 78, 125, 237>>,
  <<mut("state"), mut("stake_list"), mut("validator_list"), mut("destination_stake"),
    mut("source_stake"), ro("stake_deposit_authority"), ro("stake_withdraw_authority"),
    mut("operational_sol_account"), ro("clock"), ro("stake_history"),
    ro("stake_program")>>,
  <<u32, u32, u32>>)

(* The variants of MarinadeFinanceProgramIx, in the order of its match arms. *)
MarinadeFinanceProgramIx == <<initialize, change_authority, add_validator,
  remove_validator, set_validator_score, config_validator_system, deposit,
  deposit_stake_account, liquid_unstake, add_liquidity, remove_liquidity, set_lp_params,
  config_marinade, order_unstake, claim, stake_reserve, update_active,
  update_deactivated, deactivate_stake, emergency_unstake, merge_stakes>>
=============================================================================
