-------------------------- MODULE UnstakeInterface --------------------------
(***************************************************************************)
(* The checked-in interface of unstake, examples/anchor/unstake_it.        *)
(***************************************************************************)
EXTENDS InterfaceNotation

-----------------------------------------------------------------------------
(* Types: typedefs.rs, and those of accounts that are arguments as well *)

Rational == Struct(<<u64, u64>>)
ProtocolFee == Struct(<<Pubkey, Pubkey, Rational, Rational>>)
LiquidityLinearParams == Struct(<<Rational, Rational>>)
FeeEnum == Enum(<< <<Rational>>, <<LiquidityLinearParams>>>>)
Fee == Struct(<<FeeEnum>>)

-----------------------------------------------------------------------------
(* Accounts: accounts.rs *)

FeeAccount == Account(<<24, 55, 150, 250, 168, 27, 101, 178>>, Fee)
PoolAccount == Account(<<241, 154, 109, 4, 17, 177, 109, 188>>, Struct(<<Pubkey, Pubkey,
  u64>>))
ProtocolFeeAccount == Account(<<121, 127, 98, 139, 72, 110, 44, 118>>, ProtocolFee)
StakeAccountRecordAccount == Account(<<144, 205, 183, 241, 3, 250, 208, 215>>, Struct(<<
  u64>>))

Accounts == <<FeeAccount, PoolAccount, ProtocolFeeAccount, StakeAccountRecordAccount>>

-----------------------------------------------------------------------------
(* Instructions: instructions.rs *)

init_protocol_fee == Ix(<<225, 155, 167, 170, 29, 145, 165, 90>>,
  <<mutsig("payer"), mut("protocol_fee_account"), ro("system_program")>>, <<>>)
set_protocol_fee == Ix(<<173, 239, 83, 242, 136, 43, 144, 217>>,
  <<sig("authority"), mut("protocol_fee_account")>>, <<ProtocolFee>>)
create_pool == Ix(<<233, 146, 209, 142, 207, 104, 64, 188>>,
  <<mutsig("payer"), sig("fee_authority"), mutsig("pool_account"),
    ro("pool_sol_reserves"), mut("fee_account"), mutsig("lp_mint"), ro("token_program"),
    ro("system_program"), ro("rent")>>,
  <<Fee>>)
add_liquidity == Ix(<<181, 157, 89, 67, 143, 182, 52, 72>>,
  <<mutsig("from"), mut("pool_account"), mut("pool_sol_reserves"), mut("lp_mint"),
    mut("mint_lp_tokens_to"), ro("token_program"), ro("system_program")>>,
  <<u64>>)
remove_liquidity == Ix(<<80, 85, 209, 72, 24, 206, 177, 108>>,
  <<sig("burn_lp_tokens_from_authority"), mut("to"), mut("pool_account"),
    mut("pool_sol_reserves"), mut("lp_mint"), mut("burn_lp_tokens_from"),
    ro("token_program"), ro("system_program")>>,
  <<u64>>)
set_fee == Ix(<<18, 154, 24, 18, 237, 214, 19, 80>>,
  <<sig("fee_authority"), ro("pool_account"), mut("fee_account"), ro("system_program"),
    ro("rent")>>,
  <<Fee>>)
set_fee_authority == Ix(<<31, 1, 50, 87, 237, 101, 97, 132>>,
  <<sig("fee_authority"), mut("pool_account"), ro("new_fee_authority")>>, <<>>)
deactivate_stake_account == Ix(<<217, 64, 76, 16, 216, 77, 123, 226>>,
  <<mut("stake_account"), ro("pool_account"), ro("pool_sol_reserves"), ro("clock"),
    ro("stake_program")>>,
  <<>>)
reclaim_stake_account == Ix(<<47, 127, 90, 221, 10, 160, 183, 117>>,
  <<mut("stake_account"), mut("pool_account"), mut("pool_sol_reserves"),
    mut("stake_account_record_account"), ro("clock"), ro("stake_history"),
    ro("stake_program")>>,
  <<>>)
unstake == Ix(<<90, 95, 107, 42, 205, 124, 50, 225>>,
  <<mutsig("payer"), sig("unstaker"), mut("stake_account"), mut("destination"),
    mut("pool_account"), mut("pool_sol_reserves"), ro("fee_account"),
    mut("stake_account_record_account"), ro("protocol_fee_account"),
    mut("protocol_fee_destination"), ro("clock"), ro("stake_program"),
    ro("system_program")>>,
  <<>>)
unstake_wsol == Ix(<<125, 93, 190, 135, 89, 174, 142, 149>>,
  <<mutsig("payer"), sig("unstaker"), mut("stake_account"), mut("destination"),
    mut("pool_account"), mut("pool_sol_reserves"), ro("fee_account"),
    mut("stake_account_record_account"), ro("protocol_fee_account"),
    mut("protocol_fee_destination"), ro("clock"), ro("stake_program"),
    ro("system_program"), ro("token_program")>>,
  <<>>)

(* The variants of UnstakeProgramIx, in the order of its match arms. *)
UnstakeProgramIx == <<init_protocol_fee, set_protocol_fee, create_pool, add_liquidity,
  remove_liquidity, set_fee, set_fee_authority, deactivate_stake_account,
  reclaim_stake_account, unstake, unstake_wsol>>
=============================================================================
