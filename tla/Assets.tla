------------------------------- MODULE Assets ---------------------------------
(***************************************************************************)
(* The images and textures of src/src/render/assets.c.  An image is in     *)
(* memory, a texture with the graphics card.  Of most images only the      *)
(* texture is kept; those of the floor, of the ceiling and of the buffer   *)
(* both are painted into stay, because threads read and write their        *)
(* pixels.                                                                 *)
(***************************************************************************)
EXTENDS Naturals

CONSTANTS
  NUM_TEXTURES,           \* 12
  NUM_SPRITES,            \* 2
  FLOOR_TEXTURE_INDEX,    \* 11
  CEILING_TEXTURE_INDEX   \* 6

ASSUME AssetsAssumption ==
  /\ NUM_TEXTURES \in Nat /\ NUM_SPRITES \in Nat
  /\ FLOOR_TEXTURE_INDEX \in 0 .. NUM_TEXTURES - 1
  /\ CEILING_TEXTURE_INDEX \in 0 .. NUM_TEXTURES - 1
  /\ FLOOR_TEXTURE_INDEX # CEILING_TEXTURE_INDEX

VARIABLES
  images,    \* the images in memory
  textures,  \* the textures with the graphics card
  loading    \* where assets_load is

assetVars == <<images, textures, loading>>

AssetsInit == images = {} /\ textures = {} /\ loading = <<"texture", 0>>

\* Which of its images assets_load keeps.
KeptImage(i) ==
  IF i = FLOOR_TEXTURE_INDEX THEN {"floor"}
  ELSE IF i = CEILING_TEXTURE_INDEX THEN {"ceiling"} ELSE {}

\* The sprite, and the mask of its outline for the view of the depth.
SpriteTextures(i) == {<<"sprite", i>>, <<"depth_mask", i>>}

\* One of the textures; a file that cannot be read ends the loading.
LoadTexture ==
  \E i \in 0 .. NUM_TEXTURES - 1 :
    /\ loading = <<"texture", i>>
    /\ \/ /\ images' = images \cup KeptImage(i)
          /\ textures' = textures \cup {<<"texture", i>>}
          /\ loading' = IF i + 1 < NUM_TEXTURES THEN <<"texture", i + 1>>
                                                ELSE <<"sprite", 0>>
       \/ loading' = <<"failed", i>> /\ UNCHANGED <<images, textures>>

LoadSprite ==
  \E i \in 0 .. NUM_SPRITES - 1 :
    /\ loading = <<"sprite", i>>
    /\ \/ /\ textures' = textures \cup SpriteTextures(i)
          /\ loading' = <<"sprite", i + 1>>
       \/ loading' = <<"failed", NUM_TEXTURES + i>> /\ UNCHANGED textures
    /\ UNCHANGED images

\* The buffer for the pixels of floor and ceiling, the last thing.
MakeBuffer ==
  /\ loading = <<"sprite", NUM_SPRITES>>
  /\ images' = images \cup {"floor_ceiling_buffer"}
  /\ textures' = textures \cup {<<"floor_ceiling_buffer", 0>>}
  /\ loading' = <<"loaded", 0>>

LoadFails == loading[1] = "failed" /\ UNCHANGED assetVars
Loaded    == loading[1] = "loaded"

\* Mutant: the masks of the sprites are forgotten.
UnloadAllButMasks ==
  /\ images' = images \ {"floor_ceiling_buffer", "floor", "ceiling"}
  /\ textures' = textures \
       ({<<"floor_ceiling_buffer", 0>>}
          \cup {<<"texture", i>> : i \in 0 .. NUM_TEXTURES - 1}
          \cup {<<"sprite", i>> : i \in 0 .. NUM_SPRITES - 1})
  /\ UNCHANGED loading

\* assets_unload.
Unload ==
  /\ images' = images \ {"floor_ceiling_buffer", "floor", "ceiling"}
  /\ textures' = textures \
       ({<<"floor_ceiling_buffer", 0>>}
          \cup {<<"texture", i>> : i \in 0 .. NUM_TEXTURES - 1}
          \cup UNION {SpriteTextures(i) : i \in 0 .. NUM_SPRITES - 1})
  /\ UNCHANGED loading
=============================================================================
