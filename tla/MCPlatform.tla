----------------------------- MODULE MCPlatform -----------------------------
(***************************************************************************)
(* Instances of Listings, Gallery, Inventory, Otp, Accounts, Onboarding    *)
(* and ChatSession for TLC: a behaviour moves one of the seven, which      *)
(* focus picks from Foci, and the others stay in one initial state.        *)
(* Sessions that overlap are those of a RENT listing, and the turns of a   *)
(* chat in a fixed market; the seeker who becomes a landlord is one        *)
(* without preferences.                                                    *)
(***************************************************************************)
EXTENDS Listings, Gallery, Inventory, Otp, Accounts, Onboarding, ChatSession, TLC

CONSTANTS Foci

VARIABLE focus

ASSUME FociAssumption ==
    Foci \subseteq {"life", "gallery", "inventory", "otp", "accounts", "onboarding", "chat"}

MCInit ==
    /\ focus \in Foci
    /\ LifeInit /\ GalleryInit /\ InventoryInit
    /\ OtpInit /\ AccountsInit /\ OnboardingInit /\ ChatInit
    /\ focus # "life" \/ overlap => listing.category = "RENT"
    /\ focus = "gallery"    => ~overlap
    /\ focus # "onboarding" => user.role = "SEEKER"
    /\ user.role # "LANDLORD"

FixedMarketWhenOverlapping == overlap => market' = market

NewLandlord == user'.role = "LANDLORD" => user'.categories = {}

MCNext ==
    \/ /\ focus = "life" /\ LifeNext
       /\ UNCHANGED <<galleryVars, inventoryVars, otpVars, accountVars, onboardingVars, chatVars, focus>>
    \/ /\ focus = "gallery" /\ GalleryNext
       /\ UNCHANGED <<lifeVars, inventoryVars, otpVars, accountVars, onboardingVars, chatVars, focus>>
    \/ /\ focus = "inventory" /\ InventoryNext
       /\ UNCHANGED <<lifeVars, galleryVars, otpVars, accountVars, onboardingVars, chatVars, focus>>
    \/ /\ focus = "otp" /\ OtpNext
       /\ UNCHANGED <<lifeVars, galleryVars, inventoryVars, accountVars, onboardingVars, chatVars, focus>>
    \/ /\ focus = "accounts" /\ AccountsNext
       /\ UNCHANGED <<lifeVars, galleryVars, inventoryVars, otpVars, onboardingVars, chatVars, focus>>
    \/ /\ focus = "onboarding" /\ OnboardingNext /\ NewLandlord
       /\ UNCHANGED <<lifeVars, galleryVars, inventoryVars, otpVars, accountVars, chatVars, focus>>
    \/ /\ focus = "chat" /\ ChatNext /\ FixedMarketWhenOverlapping
       /\ UNCHANGED <<lifeVars, galleryVars, inventoryVars, otpVars, accountVars, onboardingVars, focus>>

MCSpec ==
    /\ MCInit
    /\ [][MCNext]_<<lifeVars, galleryVars, inventoryVars, otpVars, accountVars, onboardingVars,
            chatVars, focus>>

\* Workers and users are interchangeable.
Symmetry == Permutations(Workers) \cup Permutations(Users)
=============================================================================
