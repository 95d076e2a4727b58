----------------------- MODULE RaydiumCpSwapInterface -----------------------
(***************************************************************************)
(* The first of two interfaces of Raydium's cp-swap program that are checked*)
(* in, examples/anchor/raydium-cpmm.                                       *)
(***************************************************************************)
EXTENDS InterfaceNotation

-----------------------------------------------------------------------------
(* Instructions: instructions.rs *)

collect_fund_fee == Ix(<<167, 138, 78, 149, 223, 194, 6, 126>>,
  <<sig("owner"), ro("authority"), mut("pool_state"), ro("amm_config"),
    mut("token_0_vault"), mut("token_1_vault"), ro("vault_0_mint"), ro("vault_1_mint"),
    mut("recipient_token_0_account"), mut("recipient_token_1_account"),
    ro("token_program"), ro("token_program_2022")>>,
  <<u64, u64>>)
collect_protocol_fee == Ix(<<136, 136, 252, 221, 194, 66, 126, 89>>,
  <<sig("owner"), ro("authority"), mut("pool_state"), ro("amm_config"),
    mut("token_0_vault"), mut("token_1_vault"), ro("vault_0_mint"), ro("vault_1_mint"),
    mut("recipient_token_0_account"), mut("recipient_token_1_account"),
    ro("token_program"), ro("token_program_2022")>>,
  <<u64, u64>>)
create_amm_config == Ix(<<137, 52, 237, 212, 215, 117, 108, 104>>,
  <<mutsig("owner"), mut("amm_config"), ro("system_program")>>,
  <<u16, u64, u64, u64, u64>>)
deposit == Ix(<<242, 35, 198, 137, 82, 225, 242, 182>>,
  <<sig("owner"), ro("authority"), mut("pool_state"), mut("owner_lp_token"),
    mut("token_0_account"), mut("token_1_account"), mut("token_0_vault"),
    mut("token_1_vault"), ro("token_program"), ro("token_program_2022"),
    ro("vault_0_mint"), ro("vault_1_mint"), mut("lp_mint")>>,
  <<u64, u64, u64>>)
initialize == Ix(<<175, 175, 109, 31, 13, 152, 155, 237>>,
  <<mutsig("creator"), ro("amm_config"), ro("authority"), mut("pool_state"),
    ro("token_0_mint"), ro("token_1_mint"), mut("lp_mint"), mut("creator_token_0"),
    mut("creator_token_1"), mut("creator_lp_token"), mut("token_0_vault"),
    mut("token_1_vault"), mut("create_pool_fee"), mut("observation_state"),
    ro("token_program"), ro("token_0_program"), ro("token_1_program"),
    ro("associated_token_program"), ro("system_program"), ro("rent")>>,
  <<u64, u64, u64>>)
swap_base_input == Ix(<<143, 190, 90, 218, 196, 30, 51, 222>>,
  <<sig("payer"), ro("authority"), ro("amm_config"), mut("pool_state"),
    mut("input_token_account"), mut("output_token_account"), mut("input_vault"),
    mut("output_vault"), ro("input_token_program"), ro("output_token_program"),
    ro("input_token_mint"), ro("output_token_mint"), mut("observation_state")>>,
  <<u64, u64>>)
swap_base_output == Ix(<<55, 217, 98, 86, 163, 74, 180, 173>>,
  <<sig("payer"), ro("authority"), ro("amm_config"), mut("pool_state"),
    mut("input_token_account"), mut("output_token_account"), mut("input_vault"),
    mut("output_vault"), ro("input_token_program"), ro("output_token_program"),
    ro("input_token_mint"), ro("output_token_mint"), mut("observation_state")>>,
  <<u64, u64>>)
update_amm_config == Ix(<<49, 60, 174, 136, 154, 28, 116, 200>>,
  <<sig("owner"), mut("amm_config")>>, <<u8, u64>>)
update_pool_status == Ix(<<130, 87, 108, 6, 46, 224, 117, 123>>,
  <<sig("authority"), mut("pool_state")>>, <<u8>>)
withdraw == Ix(<<183, 18, 70, 156, 148, 109, 161, 34>>,
  <<sig("owner"), ro("authority"), mut("pool_state"), mut("owner_lp_token"),
    mut("token_0_account"), mut("token_1_account"), mut("token_0_vault"),
    mut("token_1_vault"), ro("token_program"), ro("token_program_2022"),
    ro("vault_0_mint"), ro("vault_1_mint"), mut("lp_mint"), ro("memo_program")>>,
  <<u64, u64, u64>>)

(* The variants of RaydiumCpSwapProgramIx, in the order of its match arms. *)
RaydiumCpSwapProgramIx == <<collect_fund_fee, collect_protocol_fee, create_amm_config,
  deposit, initialize, swap_base_input, swap_base_output, update_amm_config,
  update_pool_status, withdraw>>
=============================================================================
