------------------------------ MODULE ShippedAbis ------------------------------
(***************************************************************************)
(* The ABIs shipped with the code (app/datasources/abis) and the relevance  *)
(* the startup stores them with, as far as they can disagree: an ABI is the *)
(* set of its functions, each with the names of its inputs.                 *)
(*                                                                         *)
(* Two ABIs disagree when they have the same function, and so the same      *)
(* selector, with other names.  Of an ABI there are therefore the functions *)
(* with inputs that some other shipped ABI has too, and one function that   *)
(* no other has, which stands for all of that kind.  Functions without      *)
(* inputs, events and constructors name nothing.                            *)
(***************************************************************************)
EXTENDS Naturals

(* A function, by its signature, with the names of its inputs. *)
Fn(fn, names) == [fn |-> fn, names |-> names]

(* A function that ABIs of one list give different names. *)
Variants(fn, all) == {Fn(fn, names) : names \in all}

(* app/datasources/abis/aave.py *)

aave_a_token ==
    {Fn("allowance(address,address)", <<"owner", "spender">>),
     Fn("approve(address,uint256)", <<"spender", "value">>),
     Fn("decreaseAllowance(address,uint256)", <<"spender", "subtractedValue">>),
     Fn("increaseAllowance(address,uint256)", <<"spender", "addedValue">>),
     Fn("transfer(address,uint256)", <<"recipient", "amount">>),
     Fn("transferFrom(address,address,uint256)", <<"sender", "recipient", "amount">>),
     Fn("redeem(uint256)", <<"_amount">>),
     Fn("balanceOf(address)", <<"_user">>),
     Fn("redirectInterestStream(address)", <<"_to">>)}

aave_lending_pool ==
    {Fn("initialize(address)", <<"_addressesProvider">>),
     Fn("deposit(address,uint256,uint16)", <<"_reserve", "_amount", "_referralCode">>)}

aave_lending_pool_addresses_provider ==
    {Fn("transferOwnership(address)", <<"newOwner">>),
     Fn("getAddress(bytes32)", <<"_key">>)}

aave_lending_pool_core ==
    {Fn("initialize(address)", <<"_addressesProvider">>),
     Fn("reservesList(uint256)", <<"">>)}

(* app/datasources/abis/balancer.py *)

balancer_bactions ==
    {Fn("setSwapFee(address,uint256)", <<"pool", "newFee">>)}

balancer_exchange_proxy ==
    {Fn("batchEthInSwapExactOut((address,uint256,uint256,uint256)[],address)",
         <<"swaps", "tokenOut">>)}

(* app/datasources/abis/chainlink.py *)

chainlink_token_abi ==
    {Fn("approve(address,uint256)", <<"_spender", "_value">>),
     Fn("transferFrom(address,address,uint256)", <<"_from", "_to", "_value">>),
     Fn("balanceOf(address)", <<"_owner">>),
     Fn("transfer(address,uint256)", <<"_to", "_value">>),
     Fn("allowance(address,address)", <<"_owner", "_spender">>),
     Fn("transferAndCall(address,uint256,bytes)", <<"_to", "_value", "_data">>)}

(* app/datasources/abis/compound.py *)

ctoken_abi ==
    {Fn("_setPendingAdmin(address)", <<"newPendingAdmin">>),
     Fn("allowance(address,address)", <<"owner", "spender">>),
     Fn("approve(address,uint256)", <<"spender", "amount">>),
     Fn("balanceOf(address)", <<"owner">>),
     Fn("mint(uint256)", <<"mintAmount">>),
     Fn("redeem(uint256)", <<"redeemTokens">>),
     Fn("transfer(address,uint256)", <<"dst", "amount">>),
     Fn("transferFrom(address,address,uint256)", <<"src", "dst", "amount">>),
     Fn("_addReserves(uint256)", <<"addAmount">>)}

comptroller_abi ==
    {Fn("_setPendingAdmin(address)", <<"newPendingAdmin">>),
     Fn("_setPendingImplementation(address)", <<"newPendingImplementation">>)}

(* app/datasources/abis/gnosis_protocol.py *)

gnosis_protocol_abi ==
    {Fn("hasToken(address)", <<"addr">>)}

fleet_factory_deterministic_abi ==
    {Fn("deployFleetWithNonce(address,uint256,address,uint256)",
         <<"owner", "size", "template", "saltNonce">>)}

fleet_factory_abi ==
    {Fn("deployFleet(address,uint256,address)", <<"owner", "size", "template">>)}

cowswap_settlement_v2_abi ==
    {Fn("filledAmount(bytes)", <<"">>)}

(* app/datasources/abis/idle.py *)

idle_token_v3 ==
    {Fn("addPauser(address)", <<"account">>),
     Fn("allowance(address,address)", <<"owner", "spender">>),
     Fn("approve(address,uint256)", <<"spender", "amount">>),
     Fn("balanceOf(address)", <<"account">>),
     Fn("decreaseAllowance(address,uint256)", <<"spender", "subtractedValue">>),
     Fn("increaseAllowance(address,uint256)", <<"spender", "addedValue">>),
     Fn("isPauser(address)", <<"account">>),
     Fn("transferOwnership(address)", <<"newOwner">>),
     Fn("transferFrom(address,address,uint256)", <<"sender", "recipient", "amount">>),
     Fn("transfer(address,uint256)", <<"recipient", "amount">>),
     Fn("setFee(uint256)", <<"_fee">>)}

(* app/datasources/abis/admin_upgradeability_proxy.py *)

initializable_admin_upgradeability_proxy_abi ==
    {Fn("changeAdmin(address)", <<"newAdmin">>),
     Fn("upgradeTo(address)", <<"newImplementation">>),
     Fn("upgradeToAndCall(address,bytes)", <<"newImplementation", "data">>),
     Fn("initialize(address,address,bytes)", <<"_logic", "_admin", "_data">>)}

(* app/datasources/abis/maker_dao.py *)

(* 113 ABIs, taken together: what they share with each other under different *)
(* names or with other ABIs, and one function they agree on.                  *)
maker_dao_abis ==
    UNION {
        Variants("allowance(address,address)",
            {<<"", "">>, <<"_owner", "_spender">>, <<"src", "guy">>}),
        Variants("approve(address,uint256)",
            {<<"_spender", "_value">>, <<"guy", "wad">>, <<"usr", "wad">>}),
        Variants("balanceOf(address)", {<<"">>, <<"_owner">>, <<"guy">>, <<"src">>}),
        Variants("bids(uint256)", {<<"">>, <<"id">>}),
        Variants("burn(address,uint256)", {<<"guy", "wad">>, <<"usr", "wad">>}),
        Variants("canCall(address,address,bytes4)",
            {<<"caller", "code", "sig">>, <<"src", "", "">>, <<"src", "", "sig">>, <<"src", "dst", "sig">>}),
        Variants("deny(address)", {<<"flip">>, <<"guy">>, <<"usr">>}),
        Variants("deny(address,address)", {<<"from", "to">>, <<"who", "to">>}),
        Variants("doTransfer(address,uint256)", {<<"guy", "amt">>, <<"to", "amount">>}),
        Variants("etch(address[])", {<<"guys">>, <<"yays">>}),
        Variants("exit(address,uint256)",
            {<<"dst", "wad">>, <<"guy", "wad">>, <<"usr", "wad">>}),
        Variants("file(address,address,address,bytes32,bytes32,address)",
            {<<"", "", "", "", "", "">>, <<"pause", "actions", "who", "ilk", "what", "data">>}),
        Variants("file(address,address,address,bytes32,bytes32,uint256)",
            {<<"", "", "", "", "", "">>, <<"pause", "actions", "who", "ilk", "what", "data">>}),
        Variants("file(address,address,address,bytes32,uint256)",
            {<<"", "", "", "", "">>, <<"pause", "actions", "who", "what", "data">>}),
        Variants("file(bytes32,address)", {<<"what", "addr">>, <<"what", "data">>}),
        Variants("file(bytes32,bytes32,address)",
            {<<"ilk", "what", "data">>, <<"ilk", "what", "flip">>, <<"ilk", "what", "pip_">>}),
        Variants("free(uint256)", {<<"amt">>, <<"wad">>}),
        Variants("hope(address)", {<<"guy">>, <<"usr">>}),
        Variants("join(address,uint256)",
            {<<"dst", "wad">>, <<"urn", "wad">>, <<"usr", "wad">>}),
        Variants("kick(address,address,uint256,uint256,uint256)",
            {<<"urn", "gal", "tab", "lot", "bid">>, <<"usr", "gal", "tab", "lot", "bid">>}),
        Variants("lift(address)", {<<"candidate">>, <<"whom">>}),
        Variants("lock(uint256)", {<<"amt">>, <<"wad">>}),
        Variants("mint(address,uint256)", {<<"guy", "wad">>, <<"usr", "wad">>}),
        Variants("mint(uint256)", {<<"wad">>}),
        Variants("move(address,address,uint256)",
            {<<"src", "dst", "rad">>, <<"src", "dst", "wad">>}),
        Variants("nope(address)", {<<"guy">>, <<"usr">>}),
        Variants("poke(bytes32)", {<<"ilk">>, <<"wut">>}),
        Variants("pull(address,uint256)", {<<"src", "wad">>, <<"usr", "wad">>}),
        Variants("push(address,uint256)", {<<"dst", "wad">>, <<"usr", "wad">>}),
        Variants("rely(address)", {<<"flip">>, <<"guy">>, <<"usr">>}),
        Variants("rely(address,address)", {<<"from", "to">>, <<"who", "to">>}),
        Variants("rely(address,address,address,address)",
            {<<"", "", "", "">>, <<"pause", "actions", "who", "to">>}),
        Variants("setAuthority(address)", {<<"authority_">>, <<"newAuthority">>}),
        Variants("setAuthorityAndDelay(address,address,address,uint256)",
            {<<"", "", "", "">>, <<"pause", "actions", "newAuthority", "newDelay">>}),
        Variants("setDelay(uint256)", {<<"delay_">>, <<"newDelay">>}),
        Variants("setOwner(address)", {<<"newOwner">>, <<"owner_">>}),
        Variants("transfer(address,address,uint256)",
            {<<"gem", "dst", "amt">>, <<"src", "dst", "wad">>}),
        Variants("transfer(address,uint256)", {<<"_to", "_value">>, <<"dst", "wad">>}),
        Variants("transferFrom(address,address,uint256)",
            {<<"_from", "_to", "_value">>, <<"src", "dst", "wad">>}),
        Variants("vote(address[])", {<<"guys">>, <<"yays">>}),
        Variants("vote(bytes32)", {<<"id">>, <<"slate">>}),
        Variants("withdraw(uint256)", {<<"amount">>, <<"wad">>}),
        Variants("file(bytes32,bytes32,uint256)", {<<"ilk", "what", "data">>})}

(* app/datasources/abis/open_zeppelin.py *)

open_zeppelin_admin_upgradeability_proxy ==
    {Fn("changeAdmin(address)", <<"newAdmin">>),
     Fn("upgradeTo(address)", <<"newImplementation">>),
     Fn("upgradeToAndCall(address,bytes)", <<"newImplementation", "data">>)}

open_zeppelin_proxy_admin ==
    {Fn("transferOwnership(address)", <<"newOwner">>),
     Fn("getProxyAdmin(address)", <<"proxy">>)}

(* app/datasources/abis/request.py *)

request_erc20_proxy ==
    {Fn("transferFromWithReference(address,address,uint256,bytes)",
         <<"_tokenAddress", "_to", "_amount", "_paymentReference">>)}

request_erc20_swap_to_pay ==
    {Fn("transferOwnership(address)", <<"newOwner">>),
     Fn("setRouter(address)", <<"_newSwapRouterAddress">>)}

request_ethereum_proxy ==
    {Fn("transferWithReference(address,bytes)", <<"_to", "_paymentReference">>)}

(* app/datasources/abis/sablier.py *)

sablier_ctoken_manager ==
    {Fn("initialize(address)", <<"sender">>),
     Fn("transferOwnership(address)", <<"newOwner">>),
     Fn("isCToken(address)", <<"tokenAddress">>)}

sablier_payroll ==
    {Fn("transferOwnership(address)", <<"newOwner">>),
     Fn("initialize(address)", <<"trustedSigner">>),
     Fn("getSalary(uint256)", <<"salaryId">>)}

sablier_abi ==
    {Fn("isPauser(address)", <<"account">>),
     Fn("addPauser(address)", <<"account">>),
     Fn("initialize(address)", <<"sender">>),
     Fn("transferOwnership(address)", <<"newOwner">>),
     Fn("deltaOf(uint256)", <<"streamId">>)}

(* app/datasources/abis/safe.py *)

safe_allowance_module_abi ==
    {Fn("addDelegate(address)", <<"delegate">>)}

(* app/datasources/abis/sight.py *)

conditional_token_abi ==
    {Fn("supportsInterface(bytes4)", <<"interfaceId">>),
     Fn("balanceOf(address,uint256)", <<"owner", "id">>)}

market_maker_abi ==
    {Fn("supportsInterface(bytes4)", <<"interfaceId">>),
     Fn("transferOwnership(address)", <<"newOwner">>),
     Fn("changeFee(uint64)", <<"_fee">>)}

market_maker_factory_abi ==
    {Fn("cloneConstructor(bytes)", <<"consData">>)}

(* app/datasources/abis/snapshot.py *)

snapshot_delegate_registry_abi ==
    {Fn("clearDelegate(bytes32)", <<"id">>)}

(* app/datasources/abis/timelock.py *)

timelock_abi ==
    {Fn("setDelay(uint256)", <<"delay_">>),
     Fn("setPendingAdmin(address)", <<"pendingAdmin_">>)}

-----------------------------------------------------------------------------
(* app/services/abis.py *)

(* ERC-20 and ERC-721, whose ABIs come with a library: the tests show the   *)
(* names of transfer and approve of ERC-20; the others are those of the     *)
(* standards, which have three signatures in common and name them apart.    *)
get_erc20_contract ==
    {Fn("transfer(address,uint256)", <<"to", "value">>),
     Fn("approve(address,uint256)", <<"spender", "value">>),
     Fn("transferFrom(address,address,uint256)", <<"from", "to", "value">>),
     Fn("allowance(address,address)", <<"owner", "spender">>),
     Fn("balanceOf(address)", <<"account">>)}

get_erc721_contract ==
    {Fn("approve(address,uint256)", <<"to", "tokenId">>),
     Fn("transferFrom(address,address,uint256)", <<"from", "to", "tokenId">>),
     Fn("balanceOf(address)", <<"owner">>)}

get_erc_abis == get_erc20_contract \union get_erc721_contract

(* Without MultiSend and the migration contract, which come with a library. *)
get_safe_abis == safe_allowance_module_abi

(* Without the exchanges, which come with a library. *)
get_third_parties_abis ==
    UNION {aave_a_token, aave_lending_pool, aave_lending_pool_addresses_provider,
           aave_lending_pool_core,
           balancer_bactions, balancer_exchange_proxy,
           chainlink_token_abi,
           ctoken_abi, comptroller_abi,
           gnosis_protocol_abi, fleet_factory_deterministic_abi, fleet_factory_abi,
           cowswap_settlement_v2_abi,
           idle_token_v3,
           initializable_admin_upgradeability_proxy_abi,
           maker_dao_abis,
           open_zeppelin_admin_upgradeability_proxy, open_zeppelin_proxy_admin,
           request_erc20_proxy, request_erc20_swap_to_pay, request_ethereum_proxy,
           sablier_ctoken_manager, sablier_payroll, sablier_abi,
           conditional_token_abi, market_maker_abi, market_maker_factory_abi,
           snapshot_delegate_registry_abi,
           timelock_abi}

(* The relevance of every function of a list of ABIs. *)
WithRelevance(abis, relevance) ==
    {[fn |-> f.fn, names |-> f.names, relevance |-> relevance] : f \in abis}

(* Without the Safe contracts, of relevance 100, which come with a library. *)
load_local_abis_in_database ==
    WithRelevance(get_erc_abis \union get_safe_abis, 90)
        \union WithRelevance(get_third_parties_abis, 50)

(* The functions whose most relevant shipped ABIs disagree on a name.       *)
ContestedFunctions ==
    {"approve(address,uint256)",
     "balanceOf(address)",
     "bids(uint256)",
     "burn(address,uint256)",
     "canCall(address,address,bytes4)",
     "deny(address)",
     "deny(address,address)",
     "doTransfer(address,uint256)",
     "etch(address[])",
     "exit(address,uint256)",
     "file(address,address,address,bytes32,bytes32,address)",
     "file(address,address,address,bytes32,bytes32,uint256)",
     "file(address,address,address,bytes32,uint256)",
     "file(bytes32,address)",
     "file(bytes32,bytes32,address)",
     "free(uint256)",
     "hope(address)",
     "initialize(address)",
     "join(address,uint256)",
     "kick(address,address,uint256,uint256,uint256)",
     "lift(address)",
     "lock(uint256)",
     "mint(address,uint256)",
     "mint(uint256)",
     "move(address,address,uint256)",
     "nope(address)",
     "poke(bytes32)",
     "pull(address,uint256)",
     "push(address,uint256)",
     "redeem(uint256)",
     "rely(address)",
     "rely(address,address)",
     "rely(address,address,address,address)",
     "setAuthority(address)",
     "setAuthorityAndDelay(address,address,address,uint256)",
     "setDelay(uint256)",
     "setOwner(address)",
     "transfer(address,address,uint256)",
     "transferFrom(address,address,uint256)",
     "vote(address[])",
     "vote(bytes32)",
     "withdraw(uint256)"}
==============================================================================
